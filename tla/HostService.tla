----------------------------- MODULE HostService -----------------------------
(***************************************************************************)
(* Files hosted for the renderers: src/libdleyna/renderer/host-service.c,  *)
(* called by dlr_device_host_uri and dlr_device_remove_uri of device.c.    *)
(*                                                                         *)
(* There is one web server for each network interface through which a      *)
(* renderer is reached, created for the first file hosted there and        *)
(* deleted with the last one.  A hosted file knows the clients that want   *)
(* it.  While a renderer downloads a file the response reads a mapping of  *)
(* it; the mapping is counted in the entry of the file.                    *)
(***************************************************************************)
EXTENDS Integers, FiniteSets, Functions

CONSTANTS
    Client,       \* the D-Bus clients
    Device,       \* the renderers
    Ip,           \* the interfaces they are reached through
    File,         \* the names of local files, existing or not
    Regular,      \* those that exist
    Response,     \* bound: the responses being sent at a time
    MaxId,        \* bound: the numbers taken on the servers that run
    MaxMapped     \* bound: the mappings of a file

ASSUME HostServiceAssumption ==
    /\ Regular \subseteq File
    /\ IsFiniteSet(Response)
    /\ MaxId \in Nat /\ MaxMapped \in Nat

VARIABLES
    users,      \* SUBSET Client: the clients the service watches
    ip_of,      \* [Device -> Ip]: the address of the preferred context
    servers,    \* SUBSET Ip: the web servers that run
    counter,    \* [Ip -> Nat]: server->counter
    files,      \* [Ip -> [File -> HostFile or NoFile]]: server->files
    responses,  \* [Response -> Download or NoDownload]: GETs being answered
    urls        \* the urls given out by the servers that run (history)

vars == <<users, ip_of, servers, counter, files, responses, urls>>

\* dlr_host_file_t: its number (the url), its clients, its mapped_count.
HostFile == [id : Nat, clients : SUBSET Client, mapped : Nat]
NoFile   == [id |-> -1]

\* A response keeps a pointer to the entry of the file, which may be freed.
Download   == [ip : Ip, file : File, freed : BOOLEAN]
NoDownload == [freed |-> FALSE]

Url == [ip : Ip, id : Nat, file : File]

NoFiles == [f \in File |-> NoFile]

Hosted(ip) == {f \in File : files[ip][f] # NoFile}

Init ==
    /\ users = {}
    /\ ip_of \in [Device -> Ip]
    /\ servers = {}
    /\ counter = [ip \in Ip |-> 0]
    /\ files = [ip \in Ip |-> NoFiles]
    /\ responses = [r \in Response |-> NoDownload]
    /\ urls = {}

-----------------------------------------------------------------------------
(***************************************************************************)
(* Entries and servers that go.  F maps each interface to its files once   *)
(* some of them are removed.                                               *)
(***************************************************************************)

\* prv_remove_client for client k, and the removal of a file without clients.
WithoutClient(e, k) ==
    IF e = NoFile \/ k \notin e.clients THEN e
    ELSE IF e.clients = {k} THEN NoFile
    ELSE [e EXCEPT !.clients = @ \ {k}]

\* The responses whose file entry is freed by the change to F.  Those of a
\* server that loses its last file are given up with the server.
FreeEntries(F) ==
    responses' = [r \in Response |->
        LET d == responses[r]
        IN  IF d = NoDownload THEN d
            ELSE IF F[d.ip] = NoFiles THEN NoDownload
            ELSE [d EXCEPT !.freed = @ \/ (/\ files[d.ip][d.file] # NoFile
                                           /\ F[d.ip][d.file] = NoFile)]]

\* prv_host_server_delete for the interfaces S: their urls die with them.
DeleteServers(S) ==
    /\ servers' = servers \ S
    /\ counter' = [ip \in Ip |-> IF ip \in S THEN 0 ELSE counter[ip]]
    /\ urls' = {u \in urls : u.ip \notin S}

-----------------------------------------------------------------------------
(***************************************************************************)
(* Calls of the clients.                                                   *)
(***************************************************************************)

\* prv_add_new_file, the file being hosted: its url stays the same.
ShareFile(k, ip, f) ==
    /\ files' = [files EXCEPT ![ip][f].clients = @ \cup {k}]
    /\ urls' = urls \cup {[ip |-> ip, id |-> files[ip][f].id, file |-> f]}
    /\ UNCHANGED counter

\* Variant of AddFile: the number of files is the number of the new one.
AddFile_NumberedBySize(k, ip, f) ==
    /\ files' = [files EXCEPT ![ip][f] =
                    [id |-> Cardinality(Hosted(ip)), clients |-> {k},
                     mapped |-> 0]]
    /\ counter' = [counter EXCEPT ![ip] = @ + 1]
    /\ urls' = urls \cup
          {[ip |-> ip, id |-> Cardinality(Hosted(ip)), file |-> f]}

\* prv_add_new_file, prv_host_file_new: the next number is taken.
AddFile(k, ip, f) ==
    /\ files' = [files EXCEPT ![ip][f] =
                    [id |-> counter[ip], clients |-> {k}, mapped |-> 0]]
    /\ counter' = [counter EXCEPT ![ip] = @ + 1]
    /\ urls' = urls \cup {[ip |-> ip, id |-> counter[ip], file |-> f]}

\* Variant of AddFileFails: the number is given back, though it was not taken.
AddFileFails_GivesBack(ip) ==
    /\ counter' = [counter EXCEPT ![ip] = @ - 1]
    /\ UNCHANGED <<files, urls>>

\* prv_host_file_new fails: the number is taken all the same.
AddFileFails(ip) ==
    /\ counter' = [counter EXCEPT ![ip] = @ + 1]
    /\ UNCHANGED <<files, urls>>

\* dlr_device_host_uri, dlr_host_service_add.  A file that exists may still
\* fail, if its type cannot be found out.
HostUri(k, d, f) ==
    LET ip == ip_of[d]
    IN  /\ FoldFunction(+, 0, counter) < MaxId
        /\ users' = users \cup {k}
        /\ servers' = servers \cup {ip}
        /\ IF f \in Hosted(ip) THEN ShareFile(k, ip, f)
           ELSE \/ f \in Regular /\ AddFile(k, ip, f)
                \/ AddFileFails(ip)
        /\ UNCHANGED <<ip_of, responses>>

\* dlr_host_service_add: no server can be created on the interface.
HostUriFails(k, d) ==
    /\ ip_of[d] \notin servers
    /\ users' = users \cup {k}
    /\ UNCHANGED <<ip_of, servers, counter, files, responses, urls>>

\* Variant of RemoveUri: the file goes whoever else hosts it.
RemoveUri_ForAll(k, d, f) ==
    LET ip == ip_of[d]
        F  == [files EXCEPT ![ip][f] =
                  IF @ # NoFile /\ k \in @.clients THEN NoFile ELSE @]
    IN  /\ users' = users \cup {k}
        /\ files' = F
        /\ FreeEntries(F)
        /\ IF F # files /\ F[ip] = NoFiles THEN DeleteServers({ip})
                                            ELSE DeleteServers({})
        /\ UNCHANGED ip_of

\* dlr_device_remove_uri, dlr_host_service_remove: on the interface the
\* renderer is reached through now.
RemoveUri(k, d, f) ==
    LET ip == ip_of[d]
        F  == [files EXCEPT ![ip][f] = WithoutClient(@, k)]
    IN  /\ users' = users \cup {k}
        /\ files' = F
        /\ FreeEntries(F)
        /\ IF F # files /\ F[ip] = NoFiles THEN DeleteServers({ip})
                                            ELSE DeleteServers({})
        /\ UNCHANGED ip_of

\* Variant of LostClient: only the first server is looked at.
LostClient_OneServer(k) ==
    /\ users' = users \ {k}
    /\ \/ \E ip \in servers :
             LET F == [files EXCEPT ![ip] =
                          [f \in File |-> WithoutClient(@[f], k)]]
             IN  /\ files' = F
                 /\ FreeEntries(F)
                 /\ DeleteServers({i \in {ip} : F[i] = NoFiles})
       \/ servers = {} /\ UNCHANGED <<servers, counter, files, responses, urls>>
    /\ UNCHANGED ip_of

\* dlr_host_service_lost_client: the client is lost or calls Release (which
\* a client that holds nothing may do too).
LostClient(k) ==
    LET F == [ip \in Ip |-> [f \in File |-> WithoutClient(files[ip][f], k)]]
    IN  /\ users' = users \ {k}
        /\ files' = F
        /\ FreeEntries(F)
        /\ DeleteServers({ip \in servers : F[ip] = NoFiles})
        /\ UNCHANGED ip_of

-----------------------------------------------------------------------------
(***************************************************************************)
(* The web server and the network.                                         *)
(***************************************************************************)

\* prv_soup_server_cb for GET: the file is mapped, or its mapping shared.
Get(r, ip, f) ==
    /\ ip \in servers /\ f \in Hosted(ip)
    /\ responses[r] = NoDownload
    /\ files[ip][f].mapped < MaxMapped
    /\ files' = [files EXCEPT ![ip][f].mapped = @ + 1]
    /\ responses' = [responses EXCEPT ![r] =
                        [ip |-> ip, file |-> f, freed |-> FALSE]]
    /\ UNCHANGED <<users, ip_of, servers, counter, urls>>

\* prv_soup_server_cb for HEAD: the mapping is counted and nothing releases it.
Head(ip, f) ==
    /\ ip \in servers /\ f \in Hosted(ip)
    /\ files[ip][f].mapped < MaxMapped
    /\ files' = [files EXCEPT ![ip][f].mapped = @ + 1]
    /\ UNCHANGED <<users, ip_of, servers, counter, responses, urls>>

\* Variant of Finished: the mapping is released at once.
Finished_UnmapsAll(r) ==
    LET d == responses[r]
    IN  /\ d # NoDownload /\ ~d.freed
        /\ files' = [files EXCEPT ![d.ip][d.file].mapped = 0]
        /\ responses' = [responses EXCEPT ![r] = NoDownload]
        /\ UNCHANGED <<users, ip_of, servers, counter, urls>>

\* prv_soup_message_finished_cb, the entry being there still.  What it does
\* with a freed entry is undefined: such a response is left as it is.
Finished(r) ==
    LET d == responses[r]
    IN  /\ d # NoDownload /\ ~d.freed
        /\ files' = [files EXCEPT ![d.ip][d.file].mapped =
                        IF @ > 0 THEN @ - 1 ELSE 0]
        /\ responses' = [responses EXCEPT ![r] = NoDownload]
        /\ UNCHANGED <<users, ip_of, servers, counter, urls>>

\* The preferred context of a renderer changes.
SwitchContext(d, ip) ==
    /\ ip # ip_of[d]
    /\ ip_of' = [ip_of EXCEPT ![d] = ip]
    /\ UNCHANGED <<users, servers, counter, files, responses, urls>>

Next ==
    \/ \E k \in Client, d \in Device :
          \/ HostUriFails(k, d)
          \/ \E f \in File : HostUri(k, d, f) \/ RemoveUri(k, d, f)
    \/ \E k \in Client : LostClient(k)
    \/ \E ip \in Ip :
          \/ \E d \in Device : SwitchContext(d, ip)
          \/ \E f \in File : Head(ip, f) \/ \E r \in Response : Get(r, ip, f)
    \/ \E r \in Response : Finished(r)

Spec == Init /\ [][Next]_vars

-----------------------------------------------------------------------------
(***************************************************************************)
(* Properties.                                                             *)
(***************************************************************************)

\* Every variable keeps its type.
TypeOK ==
    /\ users \subseteq Client
    /\ ip_of \in [Device -> Ip]
    /\ servers \subseteq Ip
    /\ counter \in [Ip -> Nat]
    /\ files \in [Ip -> [File -> HostFile \cup {NoFile}]]
    /\ responses \in [Response -> Download \cup {NoDownload}]
    /\ urls \subseteq Url

\* Only a running server has files, each of them wanted by a client the
\* service still watches: whatever networks the renderers move between, a
\* client that goes takes its files along on every server.  Without clients no
\* server runs: even one that never got a file goes with the last client.
FilesHaveClients ==
    /\ \A ip \in Ip : \A f \in Hosted(ip) :
          /\ ip \in servers
          /\ files[ip][f].clients # {}
          /\ files[ip][f].clients \subseteq users
    /\ users = {} => servers = {}

\* A url given out by a running server names one file, that file's entry has
\* it while the file is hosted, and no file removed and hosted again, or that
\* failed, makes it name another.
UrlNamesOneFile ==
    /\ \A u, v \in urls : u.ip = v.ip /\ u.id = v.id => u.file = v.file
    /\ \A ip \in Ip : \A f \in Hosted(ip) :
          [ip |-> ip, id |-> files[ip][f].id, file |-> f] \in urls

\* What one client removes, or takes along, leaves the files of the others
\* hosted, under the same url.
OthersKeepTheirFiles ==
    [][\A k \in Client :
          LostClient(k) \/ (\E d \in Device, f \in File : RemoveUri(k, d, f))
          => \A ip \in Ip : \A f \in Hosted(ip) :
                files[ip][f].clients \ {k} # {} =>
                    /\ files'[ip][f] # NoFile
                    /\ files'[ip][f].id = files[ip][f].id
                    /\ files[ip][f].clients \ {k}
                          \subseteq files'[ip][f].clients]_vars

\* The responses that read the mapping of a file.
Readers(ip, f) ==
    {r \in Response :
        responses[r] = [ip |-> ip, file |-> f, freed |-> FALSE]}

\* The mapping of a file outlives the responses that read it, as long as the
\* file is hosted.
ResponsesKeepMapping ==
    \A ip \in Ip : \A f \in Hosted(ip) :
        Cardinality(Readers(ip, f)) <= files[ip][f].mapped
=============================================================================
