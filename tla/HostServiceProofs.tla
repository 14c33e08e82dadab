--------------------------- MODULE HostServiceProofs ---------------------------
(***************************************************************************)
(* Theorems about HostService, for any clients, renderers, interfaces,     *)
(* files and bounds.                                                       *)
(*                                                                         *)
(* That a url names one file is not inductive alone: the next number of a  *)
(* server must be larger than those of its urls.  Nor is it that a mapping *)
(* is counted by its readers: a file that is hosted anew counts none, so   *)
(* no response may read it yet.                                            *)
(***************************************************************************)
EXTENDS HostService, FiniteSetTheorems, TLAPS

\* The numbers given out are below the counter of their server.
UrlsNumbered == \A u \in urls : u.id < counter[u.ip]

\* A response whose entry is not freed reads a file that is hosted.
ReadersReadHosted ==
    \A ip \in Ip, f \in File : Readers(ip, f) # {} => files[ip][f] # NoFile

IInv ==
    /\ TypeOK
    /\ FilesHaveClients
    /\ UrlNamesOneFile
    /\ UrlsNumbered
    /\ ReadersReadHosted
    /\ ResponsesKeepMapping

-----------------------------------------------------------------------------
\* An entry is never mistaken for none.
LEMMA FileIsSome == \A e \in HostFile : e # NoFile
<1> SUFFICES ASSUME NEW e \in HostFile, e = NoFile PROVE FALSE
    OBVIOUS
<1>1. e.id \in Nat
    BY DEF HostFile
<1>2. e.id = -1
    BY DEF NoFile
<1> QED
    BY <1>1, <1>2

\* The same facts, pointwise.
LEMMA EntryType ==
    ASSUME TypeOK, NEW ip \in Ip, NEW f \in File
    PROVE  /\ f \in Hosted(ip) <=> files[ip][f] # NoFile
           /\ files[ip][f] = NoFile \/ files[ip][f] \in HostFile
           /\ f \in Hosted(ip) => /\ files[ip][f].id \in Nat
                                  /\ files[ip][f].clients \subseteq Client
                                  /\ files[ip][f].mapped \in Nat
    BY FileIsSome DEF TypeOK, Hosted, HostFile

\* What is left of an entry without a client.
LEMMA WithoutClientType ==
    ASSUME NEW e \in HostFile \cup {NoFile}, NEW k
    PROVE  /\ WithoutClient(e, k) \in HostFile \cup {NoFile}
           /\ WithoutClient(e, k) # NoFile =>
                 /\ e # NoFile
                 /\ WithoutClient(e, k).id = e.id
                 /\ WithoutClient(e, k).mapped = e.mapped
                 /\ WithoutClient(e, k).clients = e.clients \ {k}
                 /\ e.clients # {} => WithoutClient(e, k).clients # {}
           /\ e # NoFile /\ e.clients \ {k} # {} => WithoutClient(e, k) # NoFile
<1>1. CASE e = NoFile
    BY <1>1 DEF WithoutClient
<1>2. CASE e # NoFile
  <2>1. e \in HostFile
      BY <1>2
  <2> DEFINE g == [e EXCEPT !.clients = @ \ {k}]
  <2>2. /\ g \in HostFile /\ g.id = e.id /\ g.mapped = e.mapped
        /\ g.clients = e.clients \ {k}
      BY <2>1 DEF HostFile
  <2>3. g # NoFile
      BY <2>2, FileIsSome
  <2> HIDE DEF g
  <2>4. CASE k \notin e.clients
      BY <1>2, <2>1, <2>4 DEF WithoutClient
  <2>5. CASE e.clients = {k}
      BY <1>2, <2>5 DEF WithoutClient
  <2>6. CASE k \in e.clients /\ e.clients # {k}
      BY <1>2, <2>2, <2>3, <2>6 DEF WithoutClient, g
  <2> QED
      BY <2>4, <2>5, <2>6
<1> QED
    BY <1>1, <1>2

\* Few responses read a file, and their number is one.
LEMMA ReadersFinite ==
    \A ip, f : /\ IsFiniteSet(Readers(ip, f))
               /\ Cardinality(Readers(ip, f)) \in Nat
<1> SUFFICES ASSUME NEW ip, NEW f
             PROVE  /\ IsFiniteSet(Readers(ip, f))
                    /\ Cardinality(Readers(ip, f)) \in Nat
    OBVIOUS
<1>1. Readers(ip, f) \in SUBSET Response
    BY DEF Readers
<1> QED
    BY <1>1, HostServiceAssumption, FS_Subset, FS_CardinalityType

LEMMA InitInv == Init => IInv
<1> SUFFICES ASSUME Init PROVE IInv
    OBVIOUS
<1>1. TypeOK
    BY DEF Init, TypeOK, NoFiles
<1>2. \A ip \in Ip : Hosted(ip) = {}
    BY DEF Init, Hosted, NoFiles
<1>3. \A ip \in Ip, f \in File : Readers(ip, f) = {}
  <2> SUFFICES ASSUME NEW ip \in Ip, NEW f \in File, NEW r \in Response,
                      NoDownload = [ip |-> ip, file |-> f, freed |-> FALSE]
               PROVE  FALSE
      BY DEF Init, Readers
  <2> QED
      BY DEF NoDownload
<1> QED
    BY <1>1, <1>2, <1>3 DEF IInv, Init, FilesHaveClients, UrlNamesOneFile,
       UrlsNumbered, ReadersReadHosted, ResponsesKeepMapping

-----------------------------------------------------------------------------
(***************************************************************************)
(* Steps that remove: client k goes from some entries, the entries without *)
(* clients go, and with the last one of a server the server (in S) and its *)
(* urls.                                                                   *)
(***************************************************************************)
Removes(F, S, k) ==
    /\ files' = F /\ FreeEntries(F) /\ DeleteServers(S)
    /\ F \in [Ip -> [File -> HostFile \cup {NoFile}]]
    /\ \A ip \in Ip, f \in File :
          F[ip][f] \in {files[ip][f], WithoutClient(files[ip][f], k)}
    /\ \A ip \in S, f \in File : ip \in Ip => F[ip][f] = NoFile

\* What stays hosted was hosted, with the same number and mapping, and lost
\* no other client.
LEMMA RemovesKeeps ==
    ASSUME TypeOK, NEW F, NEW S, NEW k, Removes(F, S, k),
           NEW ip \in Ip, NEW f \in File
    PROVE  /\ F[ip][f] # NoFile =>
                 /\ files[ip][f] # NoFile
                 /\ ip \notin S
                 /\ F[ip][f].id = files[ip][f].id
                 /\ F[ip][f].mapped = files[ip][f].mapped
                 /\ F[ip][f].clients \subseteq files[ip][f].clients
                 /\ files[ip][f].clients \ {k} \subseteq F[ip][f].clients
                 /\ files[ip][f].clients # {} => F[ip][f].clients # {}
           /\ files[ip][f] # NoFile /\ files[ip][f].clients \ {k} # {}
                 => F[ip][f] # NoFile
<1> DEFINE e == files[ip][f]
<1>1. e \in HostFile \cup {NoFile}
    BY DEF TypeOK
<1>2. F[ip][f] = e \/ F[ip][f] = WithoutClient(e, k)
    BY DEF Removes
<1>3. F[ip][f] # NoFile => ip \notin S
    BY DEF Removes
<1> HIDE DEF e
<1>4. /\ F[ip][f] # NoFile =>
            /\ e # NoFile
            /\ F[ip][f].id = e.id
            /\ F[ip][f].mapped = e.mapped
            /\ F[ip][f].clients \subseteq e.clients
            /\ e.clients \ {k} \subseteq F[ip][f].clients
            /\ e.clients # {} => F[ip][f].clients # {}
      /\ e # NoFile /\ e.clients \ {k} # {} => F[ip][f] # NoFile
  <2>1. CASE F[ip][f] = e
      BY <2>1
  <2>2. CASE F[ip][f] = WithoutClient(e, k)
      BY <1>1, <2>2, WithoutClientType
  <2> QED
      BY <1>2, <2>1, <2>2
<1> QED
    BY <1>3, <1>4 DEF e

\* A response reads nothing new.
LEMMA RemovesReaders ==
    ASSUME TypeOK, NEW F, NEW S, NEW k, Removes(F, S, k),
           NEW ip \in Ip, NEW f \in File
    PROVE  /\ Readers(ip, f)' \subseteq Readers(ip, f)
           /\ Readers(ip, f)' # {} /\ files[ip][f] # NoFile
                 => F[ip][f] # NoFile
<1>1. ASSUME NEW r \in Response,
             responses'[r] = [ip |-> ip, file |-> f, freed |-> FALSE]
      PROVE  /\ responses[r] = [ip |-> ip, file |-> f, freed |-> FALSE]
             /\ files[ip][f] = NoFile \/ F[ip][f] # NoFile
  <2> DEFINE d == responses[r]
  <2>1. d \in Download \cup {NoDownload}
      BY DEF TypeOK
  <2>2. responses'[r] = IF d = NoDownload THEN d
                        ELSE IF F[d.ip] = NoFiles THEN NoDownload
                        ELSE [d EXCEPT !.freed = @ \/
                                (/\ files[d.ip][d.file] # NoFile
                                 /\ F[d.ip][d.file] = NoFile)]
      BY DEF Removes, FreeEntries
  <2>3. responses'[r] # NoDownload
      BY <1>1 DEF NoDownload
  <2>4. d \in Download
      BY <2>1, <2>2, <2>3
  <2> DEFINE lost == files[d.ip][d.file] # NoFile /\ F[d.ip][d.file] = NoFile
  <2>5. responses'[r] = [d EXCEPT !.freed = @ \/ lost]
      BY <2>2, <2>3
  <2> HIDE DEF d, lost
  <2>6. d.ip = ip /\ d.file = f /\ ~(d.freed \/ lost)
    <3> DEFINE b == d.freed \/ lost
    <3>1. responses'[r] = [d EXCEPT !.freed = b]
        BY <2>5
    <3> HIDE DEF b
    <3>2. d.ip = ip /\ d.file = f /\ b = FALSE
        BY <1>1, <2>4, <3>1 DEF Download
    <3> QED
        BY <3>2 DEF b
  <2>7. d.freed = FALSE
      BY <2>4, <2>6 DEF Download
  <2>8. d = [ip |-> ip, file |-> f, freed |-> FALSE]
      BY <2>4, <2>6, <2>7 DEF Download
  <2> QED
      BY <2>6, <2>8 DEF d, lost
<1> QED
    BY <1>1 DEF Readers


LEMMA RemovesType ==
    ASSUME TypeOK, NEW F, NEW S, NEW k, Removes(F, S, k),
           users' \subseteq Client, UNCHANGED ip_of
    PROVE  TypeOK'
<1>1. servers' \subseteq Ip /\ counter' \in [Ip -> Nat] /\ urls' \subseteq Url
    BY DEF Removes, DeleteServers, TypeOK
<1>2. responses' \in [Response -> Download \cup {NoDownload}]
  <2> SUFFICES ASSUME NEW r \in Response
               PROVE  responses'[r] \in Download \cup {NoDownload}
      BY DEF Removes, FreeEntries
  <2> DEFINE d == responses[r]
             lost == files[d.ip][d.file] # NoFile /\ F[d.ip][d.file] = NoFile
  <2>1. d \in Download \cup {NoDownload}
      BY DEF TypeOK
  <2>2. responses'[r] = IF d = NoDownload THEN d
                        ELSE IF F[d.ip] = NoFiles THEN NoDownload
                        ELSE [d EXCEPT !.freed = d.freed \/ lost]
      BY DEF Removes, FreeEntries
  <2>3. (d.freed \/ lost) \in BOOLEAN
      OBVIOUS
  <2> HIDE DEF d, lost
  <2>4. d \in Download => [d EXCEPT !.freed = d.freed \/ lost] \in Download
      BY <2>3 DEF Download
  <2> QED
      BY <2>1, <2>2, <2>4
<1> QED
    BY <1>1, <1>2 DEF Removes, TypeOK

\* A removal keeps the invariant if the clients left are still watched and
\* with the last of them the last server goes.
LEMMA RemovesKeepInv ==
    ASSUME IInv, NEW F, NEW S, NEW k, Removes(F, S, k),
           users' \subseteq Client, UNCHANGED ip_of,
           \A ip \in Ip, f \in File :
               F[ip][f] # NoFile => F[ip][f].clients \subseteq users',
           users' = {} => servers \subseteq S
    PROVE  IInv'
<1>1. TypeOK /\ TypeOK'
    BY RemovesType DEF IInv
<1>2. files' = F /\ servers' = servers \ S
    BY DEF Removes, DeleteServers
<1>3. FilesHaveClients'
  <2>1. ASSUME NEW ip \in Ip, NEW f \in Hosted(ip)'
        PROVE  /\ ip \in servers'
               /\ files'[ip][f].clients # {}
               /\ files'[ip][f].clients \subseteq users'
    <3>1. f \in File /\ F[ip][f] # NoFile
        BY <1>2, <2>1 DEF Hosted
    <3>2. f \in Hosted(ip)
        BY <1>1, <3>1, RemovesKeeps DEF Hosted
    <3> QED
        BY <1>1, <1>2, <3>1, <3>2, RemovesKeeps DEF IInv, FilesHaveClients
  <2>2. users' = {} => servers' = {}
      BY <1>2
  <2> QED
      BY <2>1, <2>2 DEF FilesHaveClients
<1>4. UrlNamesOneFile'
  <2>1. urls' = {u \in urls : u.ip \notin S}
      BY DEF Removes, DeleteServers
  <2>2. ASSUME NEW ip \in Ip, NEW f \in Hosted(ip)'
        PROVE  [ip |-> ip, id |-> files'[ip][f].id, file |-> f] \in urls'
    <3>1. f \in File /\ F[ip][f] # NoFile
        BY <1>2, <2>2 DEF Hosted
    <3>2. /\ f \in Hosted(ip) /\ ip \notin S
          /\ F[ip][f].id = files[ip][f].id
        BY <1>1, <3>1, RemovesKeeps DEF Hosted
    <3>3. [ip |-> ip, id |-> files[ip][f].id, file |-> f] \in urls
        BY <3>2 DEF IInv, UrlNamesOneFile
    <3> QED
        BY <1>2, <2>1, <3>2, <3>3
  <2> QED
      BY <2>1, <2>2 DEF IInv, UrlNamesOneFile
<1>5. UrlsNumbered'
    BY <1>1 DEF Removes, DeleteServers, UrlsNumbered, IInv, TypeOK, Url
<1>6. ReadersReadHosted'
    BY <1>1, <1>2, RemovesReaders DEF IInv, ReadersReadHosted
<1>7. ResponsesKeepMapping'
  <2> SUFFICES ASSUME NEW ip \in Ip, NEW f \in Hosted(ip)'
               PROVE  Cardinality(Readers(ip, f)') <= files'[ip][f].mapped
      BY DEF ResponsesKeepMapping
  <2>1. f \in File /\ F[ip][f] # NoFile
      BY <1>2 DEF Hosted
  <2>2. f \in Hosted(ip) /\ files'[ip][f].mapped = files[ip][f].mapped
      BY <1>1, <1>2, <2>1, RemovesKeeps DEF Hosted
  <2>3. Cardinality(Readers(ip, f)') <= Cardinality(Readers(ip, f))
      BY <1>1, <2>1, RemovesReaders, ReadersFinite, FS_Subset
  <2>4. Cardinality(Readers(ip, f)') \in Nat
      BY <1>1, <2>1, RemovesReaders, ReadersFinite, FS_Subset,
         FS_CardinalityType
  <2>5. /\ Cardinality(Readers(ip, f)) <= files[ip][f].mapped
        /\ files[ip][f].mapped \in Nat
      BY <1>1, <2>1, <2>2, EntryType DEF IInv, ResponsesKeepMapping
  <2> QED
      BY <2>2, <2>3, <2>4, <2>5, ReadersFinite
<1> QED
    BY <1>1, <1>3, <1>4, <1>5, <1>6, <1>7 DEF IInv


LEMMA RemoveUriRemoves ==
    ASSUME TypeOK, NEW k \in Client, NEW d \in Device, NEW f \in File,
           RemoveUri(k, d, f)
    PROVE  \E F, S : Removes(F, S, k)
<1> DEFINE ip == ip_of[d]
           F  == [files EXCEPT ![ip][f] = WithoutClient(@, k)]
           S  == IF F # files /\ F[ip] = NoFiles THEN {ip} ELSE {}
<1>1. ip \in Ip
    BY DEF TypeOK
<1>2. \A i \in Ip, g \in File :
          F[i][g] = IF i = ip /\ g = f THEN WithoutClient(files[i][g], k)
                    ELSE files[i][g]
    BY <1>1 DEF TypeOK
<1>3. F \in [Ip -> [File -> HostFile \cup {NoFile}]]
  <2>1. WithoutClient(files[ip][f], k) \in HostFile \cup {NoFile}
      BY <1>1, WithoutClientType DEF TypeOK
  <2> QED
      BY <1>1, <2>1 DEF TypeOK
<1>4. files' = F /\ FreeEntries(F) /\ DeleteServers(S)
    BY DEF RemoveUri
<1>5. \A i \in S, g \in File : i \in Ip => F[i][g] = NoFile
    BY DEF NoFiles
<1> HIDE DEF F, S
<1>6. Removes(F, S, k)
    BY <1>2, <1>3, <1>4, <1>5 DEF Removes
<1> QED
    BY <1>6

LEMMA RemoveUriKeepsInv ==
    ASSUME IInv, NEW k \in Client, NEW d \in Device, NEW f \in File,
           RemoveUri(k, d, f)
    PROVE  IInv'
<1>1. PICK F, S : Removes(F, S, k)
    BY RemoveUriRemoves DEF IInv
<1>2. TypeOK
    BY DEF IInv
<1>3. users' = users \cup {k} /\ UNCHANGED ip_of
    BY DEF RemoveUri
<1>4. ASSUME NEW i \in Ip, NEW g \in File, F[i][g] # NoFile
      PROVE  F[i][g].clients \subseteq users'
  <2>1. /\ F[i][g].clients \subseteq files[i][g].clients
        /\ g \in Hosted(i)
      BY <1>1, <1>2, <1>4, RemovesKeeps DEF Hosted
  <2> QED
      BY <1>3, <2>1 DEF IInv, FilesHaveClients
<1>5. users' \subseteq Client /\ users' # {}
    BY <1>2, <1>3 DEF TypeOK
<1> QED
    BY <1>1, <1>3, <1>4, <1>5, RemovesKeepInv

LEMMA LostClientRemoves ==
    ASSUME TypeOK, NEW k \in Client, LostClient(k)
    PROVE  \E F, S :
              /\ Removes(F, S, k)
              /\ \A i \in Ip, g \in File :
                    F[i][g] = WithoutClient(files[i][g], k)
              /\ \A i \in servers :
                    (\A g \in File : F[i][g] = NoFile) => i \in S
<1> DEFINE F == [i \in Ip |-> [g \in File |-> WithoutClient(files[i][g], k)]]
           S == {i \in servers : F[i] = NoFiles}
<1>1. \A i \in Ip, g \in File : F[i][g] = WithoutClient(files[i][g], k)
    OBVIOUS
<1>2. F \in [Ip -> [File -> HostFile \cup {NoFile}]]
    BY WithoutClientType DEF TypeOK
<1>3. files' = F /\ FreeEntries(F) /\ DeleteServers(S)
    BY DEF LostClient
<1>4. \A i \in S, g \in File : i \in Ip => F[i][g] = NoFile
    BY DEF NoFiles
<1>5. \A i \in servers : (\A g \in File : F[i][g] = NoFile) => i \in S
  <2> SUFFICES ASSUME NEW i \in servers, \A g \in File : F[i][g] = NoFile
               PROVE  F[i] = NoFiles
      OBVIOUS
  <2>1. i \in Ip
      BY DEF TypeOK
  <2> QED
      BY <2>1 DEF NoFiles
<1> HIDE DEF F, S
<1>6. Removes(F, S, k)
    BY <1>1, <1>2, <1>3, <1>4 DEF Removes
<1> QED
    BY <1>1, <1>5, <1>6

\* The client's part in every file goes, on all servers.
LEMMA LostClientKeepsInv ==
    ASSUME IInv, NEW k \in Client, LostClient(k)
    PROVE  IInv'
<1>1. TypeOK
    BY DEF IInv
<1>2. PICK F, S :
          /\ Removes(F, S, k)
          /\ \A i \in Ip, g \in File : F[i][g] = WithoutClient(files[i][g], k)
          /\ \A i \in servers : (\A g \in File : F[i][g] = NoFile) => i \in S
    BY <1>1, LostClientRemoves
<1>3. users' = users \ {k} /\ UNCHANGED ip_of
    BY DEF LostClient
<1>4. ASSUME NEW i \in Ip, NEW g \in File, F[i][g] # NoFile
      PROVE  F[i][g].clients \subseteq users'
  <2>1. g \in Hosted(i) /\ files[i][g] \in HostFile \cup {NoFile}
      BY <1>1, <1>2, <1>4, RemovesKeeps DEF Hosted, TypeOK
  <2>2. F[i][g].clients = files[i][g].clients \ {k}
      BY <1>2, <1>4, <2>1, WithoutClientType
  <2> QED
      BY <1>3, <2>1, <2>2 DEF IInv, FilesHaveClients
<1>5. ASSUME users' = {}, NEW i \in servers
      PROVE  i \in S
  <2>1. i \in Ip
      BY <1>1 DEF TypeOK
  <2>2. ASSUME NEW g \in File, F[i][g] # NoFile PROVE FALSE
    <3>1. F[i][g].clients \subseteq {}
        BY <1>4, <1>5, <2>1, <2>2
    <3>2. g \in Hosted(i) /\ F[i][g].clients # {}
        BY <1>1, <1>2, <2>1, <2>2, RemovesKeeps DEF Hosted, IInv,
           FilesHaveClients
    <3> QED
        BY <3>1, <3>2
  <2> QED
      BY <1>2, <2>2
<1>6. users' \subseteq Client
    BY <1>1, <1>3 DEF TypeOK
<1> QED
    BY <1>2, <1>3, <1>4, <1>5, <1>6, RemovesKeepInv


-----------------------------------------------------------------------------
(***************************************************************************)
(* Steps that host.                                                        *)
(***************************************************************************)

\* While no response begins or ends, mappings that count no less still count
\* all readers.
LEMMA ReadersStay ==
    ASSUME IInv, UNCHANGED responses,
           \A ip \in Ip, f \in File :
               files[ip][f] # NoFile =>
                   /\ files'[ip][f] # NoFile
                   /\ files'[ip][f].mapped = files[ip][f].mapped,
           \A ip \in Ip : \A f \in Hosted(ip)' \ Hosted(ip) :
               files'[ip][f].mapped = 0
    PROVE  ReadersReadHosted' /\ ResponsesKeepMapping'
<1>1. \A ip, f : Readers(ip, f)' = Readers(ip, f)
    BY DEF Readers
<1>2. ReadersReadHosted'
    BY <1>1 DEF IInv, ReadersReadHosted
<1>3. ASSUME NEW ip \in Ip, NEW f \in Hosted(ip)'
      PROVE  Cardinality(Readers(ip, f)') <= files'[ip][f].mapped
  <2>1. f \in File
      BY <1>3 DEF Hosted
  <2>2. CASE f \in Hosted(ip)
      BY <1>1, <2>1, <2>2 DEF IInv, ResponsesKeepMapping, Hosted
  <2>3. CASE f \notin Hosted(ip)
    <3>1. Readers(ip, f) = {}
        BY <2>1, <2>3 DEF IInv, ReadersReadHosted, Hosted
    <3> QED
        BY <1>1, <2>3, <3>1, FS_EmptySet
  <2> QED
      BY <2>2, <2>3
<1> QED
    BY <1>2, <1>3 DEF ResponsesKeepMapping

\* One entry changes, pointwise.
LEMMA OneEntry ==
    ASSUME TypeOK, NEW ip \in Ip, NEW f \in File, NEW g \in HostFile,
           files' = [files EXCEPT ![ip][f] = g]
    PROVE  /\ files' \in [Ip -> [File -> HostFile \cup {NoFile}]]
           /\ \A i \in Ip, h \in File :
                 files'[i][h] = IF i = ip /\ h = f THEN g ELSE files[i][h]
    BY DEF TypeOK

LEMMA ShareFileKeepsInv ==
    ASSUME IInv, NEW k \in Client, NEW ip \in Ip, NEW f \in Hosted(ip),
           ShareFile(k, ip, f), users' = users \cup {k},
           UNCHANGED <<ip_of, servers, responses>>
    PROVE  IInv'
<1> DEFINE e == files[ip][f]
           g == [e EXCEPT !.clients = @ \cup {k}]
<1>1. TypeOK /\ f \in File /\ e \in HostFile
    BY EntryType DEF IInv, Hosted
<1>2. /\ g \in HostFile /\ g.id = e.id /\ g.mapped = e.mapped
      /\ g.clients = e.clients \cup {k}
    BY <1>1 DEF HostFile
<1>3. files' = [files EXCEPT ![ip][f] = g]
    BY DEF ShareFile
<1> HIDE DEF g
<1>4. /\ files' \in [Ip -> [File -> HostFile \cup {NoFile}]]
      /\ \A i \in Ip, h \in File :
            files'[i][h] = IF i = ip /\ h = f THEN g ELSE files[i][h]
    BY <1>1, <1>2, <1>3, OneEntry
<1>5. g # NoFile /\ e # NoFile
    BY <1>1, <1>2, FileIsSome
<1>6. \A i \in Ip : Hosted(i)' = Hosted(i)
    BY <1>4, <1>5 DEF Hosted
<1>7. UNCHANGED urls /\ UNCHANGED counter
    BY DEF ShareFile, IInv, UrlNamesOneFile
<1>8. TypeOK'
    BY <1>1, <1>4, <1>7 DEF TypeOK
<1>9. FilesHaveClients'
  <2>1. ASSUME NEW i \in Ip, NEW h \in Hosted(i)
        PROVE  /\ i \in servers
               /\ files'[i][h].clients # {}
               /\ files'[i][h].clients \subseteq users \cup {k}
    <3>1. h \in File
        BY DEF Hosted
    <3> QED
        BY <1>2, <1>4, <3>1 DEF IInv, FilesHaveClients
  <2> QED
      BY <1>6, <2>1 DEF FilesHaveClients
<1>10. UrlNamesOneFile'
  <2>1. \A i \in Ip : \A h \in Hosted(i) : files'[i][h].id = files[i][h].id
      BY <1>2, <1>4 DEF Hosted
  <2> QED
      BY <1>6, <1>7, <2>1 DEF IInv, UrlNamesOneFile
<1>11. UrlsNumbered'
    BY <1>7 DEF IInv, UrlsNumbered
<1>12. ReadersReadHosted' /\ ResponsesKeepMapping'
  <2>1. \A i \in Ip, h \in File :
            files[i][h] # NoFile =>
                /\ files'[i][h] # NoFile
                /\ files'[i][h].mapped = files[i][h].mapped
      BY <1>2, <1>4, <1>5
  <2> QED
      BY <1>6, <2>1, ReadersStay
<1> QED
    BY <1>8, <1>9, <1>10, <1>11, <1>12 DEF IInv

\* The number of a new file is larger than any other of its server.
LEMMA AddFileKeepsInv ==
    ASSUME IInv, NEW k \in Client, NEW ip \in Ip, NEW f \in File,
           f \notin Hosted(ip), AddFile(k, ip, f),
           users' = users \cup {k}, servers' = servers \cup {ip},
           UNCHANGED <<ip_of, responses>>
    PROVE  IInv'
<1> DEFINE g == [id |-> counter[ip], clients |-> {k}, mapped |-> 0]
           u == [ip |-> ip, id |-> counter[ip], file |-> f]
<1>1. TypeOK
    BY DEF IInv
<1>2. g \in HostFile /\ g # NoFile /\ u \in Url
    BY <1>1, FileIsSome DEF TypeOK, HostFile, Url
<1>3. /\ files' = [files EXCEPT ![ip][f] = g]
      /\ counter' = [counter EXCEPT ![ip] = @ + 1]
      /\ urls' = urls \cup {u}
    BY DEF AddFile
<1>4. /\ files' \in [Ip -> [File -> HostFile \cup {NoFile}]]
      /\ \A i \in Ip, h \in File :
            files'[i][h] = IF i = ip /\ h = f THEN g ELSE files[i][h]
    BY <1>1, <1>2, <1>3, OneEntry
<1>5. \A i \in Ip :
          Hosted(i)' = IF i = ip THEN Hosted(i) \cup {f} ELSE Hosted(i)
    BY <1>2, <1>4 DEF Hosted
<1>6. \A i \in Ip : counter[i] \in Nat /\ counter'[i] \in Nat
                    /\ counter'[i] = IF i = ip THEN counter[i] + 1 ELSE counter[i]
    BY <1>1, <1>3 DEF TypeOK
<1>7. TypeOK'
  <2>1. counter' \in [Ip -> Nat]
      BY <1>1, <1>3 DEF TypeOK
  <2> QED
      BY <1>1, <1>2, <1>3, <1>4, <2>1 DEF TypeOK
<1>8. FilesHaveClients'
  <2>1. ASSUME NEW i \in Ip, NEW h \in Hosted(i)'
        PROVE  /\ i \in servers'
               /\ files'[i][h].clients # {}
               /\ files'[i][h].clients \subseteq users'
    <3>1. h \in File
        BY <2>1 DEF Hosted
    <3>2. CASE i = ip /\ h = f
        BY <1>4, <3>2
    <3>3. CASE ~(i = ip /\ h = f)
        BY <1>4, <1>5, <2>1, <3>1, <3>3 DEF IInv, FilesHaveClients
    <3> QED
        BY <3>2, <3>3
  <2> QED
      BY <2>1 DEF FilesHaveClients
<1>9. \A v \in urls : v.ip = ip => v.id # counter[ip]
    BY <1>6 DEF IInv, UrlsNumbered, TypeOK, Url
<1>10. UrlNamesOneFile'
  <2>1. ASSUME NEW v \in urls', NEW w \in urls', v.ip = w.ip, v.id = w.id
        PROVE  v.file = w.file
      BY <1>3, <1>9, <2>1 DEF IInv, UrlNamesOneFile
  <2>2. ASSUME NEW i \in Ip, NEW h \in Hosted(i)'
        PROVE  [ip |-> i, id |-> files'[i][h].id, file |-> h] \in urls'
    <3>1. h \in File
        BY <2>2 DEF Hosted
    <3>2. CASE i = ip /\ h = f
        BY <1>3, <1>4, <3>2
    <3>3. CASE ~(i = ip /\ h = f)
        BY <1>3, <1>4, <1>5, <2>2, <3>1, <3>3 DEF IInv, UrlNamesOneFile
    <3> QED
        BY <3>2, <3>3
  <2> QED
      BY <2>1, <2>2 DEF UrlNamesOneFile
<1>11. UrlsNumbered'
    BY <1>1, <1>3, <1>6 DEF IInv, UrlsNumbered, TypeOK, Url
<1>12. ReadersReadHosted' /\ ResponsesKeepMapping'
  <2>1. \A i \in Ip, h \in File :
            files[i][h] # NoFile =>
                /\ files'[i][h] # NoFile
                /\ files'[i][h].mapped = files[i][h].mapped
      BY <1>4 DEF Hosted
  <2>2. \A i \in Ip : \A h \in Hosted(i)' \ Hosted(i) :
            files'[i][h].mapped = 0
      BY <1>4, <1>5
  <2> QED
      BY <2>1, <2>2, ReadersStay
<1> QED
    BY <1>7, <1>8, <1>10, <1>11, <1>12 DEF IInv


\* Steps that only take a number, watch a client or start a server.
LEMMA NoFileChanges ==
    ASSUME IInv, UNCHANGED <<files, responses, urls>>,
           ip_of' \in [Device -> Ip], counter' \in [Ip -> Nat],
           \A ip \in Ip : counter[ip] <= counter'[ip],
           servers \subseteq servers', servers' \subseteq Ip,
           users \subseteq users', users' \subseteq Client,
           users' = {} => UNCHANGED servers
    PROVE  IInv'
<1>1. \A ip : Hosted(ip)' = Hosted(ip)
    BY DEF Hosted
<1>2. \A ip, f : Readers(ip, f)' = Readers(ip, f)
    BY DEF Readers
<1>3. TypeOK'
    BY DEF IInv, TypeOK
<1>4. FilesHaveClients'
    BY <1>1 DEF IInv, FilesHaveClients
<1>5. UrlNamesOneFile'
    BY <1>1 DEF IInv, UrlNamesOneFile
<1>6. UrlsNumbered'
    BY DEF IInv, UrlsNumbered, TypeOK, Url
<1>7. ReadersReadHosted' /\ ResponsesKeepMapping'
    BY <1>1, <1>2 DEF IInv, ReadersReadHosted, ResponsesKeepMapping
<1> QED
    BY <1>3, <1>4, <1>5, <1>6, <1>7 DEF IInv

LEMMA HostUriKeepsInv ==
    ASSUME IInv, NEW k \in Client, NEW d \in Device, NEW f \in File,
           HostUri(k, d, f)
    PROVE  IInv'
<1> DEFINE ip == ip_of[d]
<1>1. TypeOK /\ ip \in Ip
    BY DEF IInv, TypeOK
<1>2. /\ users' = users \cup {k}
      /\ servers' = servers \cup {ip}
      /\ UNCHANGED <<ip_of, responses>>
    BY DEF HostUri
<1>3. CASE f \in Hosted(ip)
  <2>1. UNCHANGED servers
      BY <1>1, <1>2, <1>3 DEF IInv, FilesHaveClients
  <2> QED
      BY <1>1, <1>2, <1>3, <2>1, ShareFileKeepsInv DEF HostUri
<1>4. CASE f \notin Hosted(ip) /\ AddFile(k, ip, f)
    BY <1>1, <1>2, <1>4, AddFileKeepsInv
<1>5. CASE f \notin Hosted(ip) /\ AddFileFails(ip)
  <2>1. /\ counter' \in [Ip -> Nat]
        /\ \A i \in Ip : counter[i] <= counter'[i]
      BY <1>1, <1>5 DEF AddFileFails, TypeOK
  <2>2. users' # {} /\ users' \subseteq Client /\ servers' \subseteq Ip
      BY <1>1, <1>2 DEF TypeOK
  <2>3. UNCHANGED <<files, urls>> /\ ip_of' \in [Device -> Ip]
      BY <1>1, <1>2, <1>5 DEF AddFileFails, TypeOK
  <2> QED
      BY <1>2, <2>1, <2>2, <2>3, NoFileChanges
<1> QED
    BY <1>3, <1>4, <1>5 DEF HostUri

LEMMA HostUriFailsKeepsInv ==
    ASSUME IInv, NEW k \in Client, NEW d \in Device, HostUriFails(k, d)
    PROVE  IInv'
<1>1. /\ UNCHANGED <<files, responses, urls, ip_of, counter, servers>>
      /\ users' = users \cup {k}
    BY DEF HostUriFails
<1>2. TypeOK
    BY DEF IInv
<1> QED
    BY <1>1, <1>2, NoFileChanges DEF TypeOK

LEMMA SwitchContextKeepsInv ==
    ASSUME IInv, NEW d \in Device, NEW ip \in Ip, SwitchContext(d, ip)
    PROVE  IInv'
<1>1. /\ UNCHANGED <<files, responses, urls, users, counter, servers>>
      /\ ip_of' = [ip_of EXCEPT ![d] = ip]
    BY DEF SwitchContext
<1>2. TypeOK
    BY DEF IInv
<1> QED
    BY <1>1, <1>2, NoFileChanges DEF TypeOK

-----------------------------------------------------------------------------
(***************************************************************************)
(* Steps of the web server: the entry of file f becomes g, which counts    *)
(* its readers.                                                            *)
(***************************************************************************)
Counts(ip, f, g) ==
    /\ g \in HostFile
    /\ g.id = files[ip][f].id
    /\ g.clients = files[ip][f].clients
    /\ files' \in [Ip -> [File -> HostFile \cup {NoFile}]]
    /\ \A i \in Ip, h \in File :
          files'[i][h] = IF i = ip /\ h = f THEN g ELSE files[i][h]

LEMMA CountedEntry ==
    ASSUME TypeOK, NEW ip \in Ip, NEW f \in Hosted(ip), NEW n \in Nat,
           files' = [files EXCEPT ![ip][f].mapped = n]
    PROVE  \E g : Counts(ip, f, g) /\ g.mapped = n
<1> DEFINE g == [files[ip][f] EXCEPT !.mapped = n]
           F == [i \in Ip |-> [h \in File |->
                    IF i = ip /\ h = f THEN g ELSE files[i][h]]]
<1>1. files[ip][f] \in HostFile
    BY EntryType DEF Hosted
<1>2. files' = F
    BY DEF TypeOK
<1>3. /\ g \in HostFile /\ g.mapped = n
      /\ g.id = files[ip][f].id /\ g.clients = files[ip][f].clients
    BY <1>1 DEF HostFile
<1> HIDE DEF g
<1>4. /\ F \in [Ip -> [File -> HostFile \cup {NoFile}]]
      /\ \A i \in Ip, h \in File :
            F[i][h] = IF i = ip /\ h = f THEN g ELSE files[i][h]
    BY <1>3 DEF TypeOK
<1> HIDE DEF F
<1>5. Counts(ip, f, g) /\ g.mapped = n
    BY <1>2, <1>3, <1>4, Zenon DEF Counts
<1> QED
    BY <1>5

LEMMA CountChanges ==
    ASSUME IInv, NEW ip \in Ip, NEW f \in Hosted(ip), NEW n \in Nat,
           files' = [files EXCEPT ![ip][f].mapped = n],
           responses' \in [Response -> Download \cup {NoDownload}],
           \A i \in Ip, h \in File :
               i # ip \/ h # f => Readers(i, h)' = Readers(i, h),
           Cardinality(Readers(ip, f)') <= n,
           UNCHANGED <<users, ip_of, servers, counter, urls>>
    PROVE  IInv'
<1>1. TypeOK /\ f \in File /\ files[ip][f] # NoFile
    BY DEF IInv, Hosted
<1>2. PICK g : Counts(ip, f, g) /\ g.mapped = n
    BY <1>1, CountedEntry
<1>3. /\ g \in HostFile /\ g.id = files[ip][f].id
      /\ g.clients = files[ip][f].clients
    BY <1>2 DEF Counts
<1>4. /\ files' \in [Ip -> [File -> HostFile \cup {NoFile}]]
      /\ \A i \in Ip, h \in File :
            files'[i][h] = IF i = ip /\ h = f THEN g ELSE files[i][h]
    BY <1>2 DEF Counts
<1>5. g # NoFile
    BY <1>3, FileIsSome
<1>6. \A i \in Ip : Hosted(i)' = Hosted(i)
    BY <1>1, <1>4, <1>5 DEF Hosted
<1>7. \A i \in Ip : \A h \in Hosted(i) :
          /\ h \in File
          /\ files'[i][h].id = files[i][h].id
          /\ files'[i][h].clients = files[i][h].clients
    BY <1>3, <1>4 DEF Hosted
<1>8. TypeOK'
    BY <1>1, <1>4 DEF TypeOK
<1>9. FilesHaveClients' /\ UrlNamesOneFile' /\ UrlsNumbered'
    BY <1>6, <1>7 DEF IInv, FilesHaveClients, UrlNamesOneFile, UrlsNumbered
<1>10. ReadersReadHosted'
    BY <1>4, <1>5 DEF IInv, ReadersReadHosted
<1>11. ResponsesKeepMapping'
  <2> SUFFICES ASSUME NEW i \in Ip, NEW h \in Hosted(i)
               PROVE  Cardinality(Readers(i, h)') <= files'[i][h].mapped
      BY <1>6 DEF ResponsesKeepMapping
  <2>1. CASE i = ip /\ h = f
      BY <1>2, <1>4, <1>7, <2>1
  <2>2. CASE ~(i = ip /\ h = f)
      BY <1>4, <1>7, <2>2 DEF IInv, ResponsesKeepMapping
  <2> QED
      BY <2>1, <2>2
<1> QED
    BY <1>8, <1>9, <1>10, <1>11 DEF IInv

\* A response that begins is counted.
LEMMA GetKeepsInv ==
    ASSUME IInv, NEW r \in Response, NEW ip \in Ip, NEW f \in File,
           Get(r, ip, f)
    PROVE  IInv'
<1> DEFINE d == [ip |-> ip, file |-> f, freed |-> FALSE]
           n == files[ip][f].mapped + 1
<1>1. TypeOK /\ f \in Hosted(ip) /\ n \in Nat
    BY EntryType DEF IInv, Get
<1>2. /\ files' = [files EXCEPT ![ip][f].mapped = n]
      /\ responses' = [responses EXCEPT ![r] = d]
      /\ UNCHANGED <<users, ip_of, servers, counter, urls>>
    BY DEF Get
<1>3. d \in Download
    BY DEF Download
<1>4. responses' \in [Response -> Download \cup {NoDownload}]
    BY <1>1, <1>2, <1>3 DEF TypeOK
<1>5. \A i \in Ip, h \in File :
          i # ip \/ h # f => Readers(i, h)' = Readers(i, h)
  <2> SUFFICES ASSUME NEW i \in Ip, NEW h \in File, i # ip \/ h # f,
                      NEW q \in Response
               PROVE  q \in Readers(i, h)' <=> q \in Readers(i, h)
      BY DEF Readers
  <2> DEFINE t == [ip |-> i, file |-> h, freed |-> FALSE]
  <2>1. d # t
      OBVIOUS
  <2>2. NoDownload # t
      BY DEF NoDownload
  <2>3. responses[r] = NoDownload
      BY DEF Get
  <2> HIDE DEF d, t
  <2>4. responses'[q] = t <=> responses[q] = t
      BY <1>1, <1>2, <2>1, <2>2, <2>3 DEF TypeOK
  <2> QED
      BY <2>4 DEF Readers, t
<1>6. Cardinality(Readers(ip, f)') <= n
  <2>1. Readers(ip, f)' = Readers(ip, f) \cup {r}
    <3> HIDE DEF d
    <3>1. \A q \in Response : responses'[q] = d <=> responses[q] = d \/ q = r
        BY <1>1, <1>2 DEF TypeOK
    <3> QED
        BY <3>1 DEF Readers, d
  <2>2. Cardinality(Readers(ip, f) \cup {r}) =
            IF r \in Readers(ip, f) THEN Cardinality(Readers(ip, f))
            ELSE Cardinality(Readers(ip, f)) + 1
      BY ReadersFinite, FS_AddElement
  <2>3. /\ Cardinality(Readers(ip, f)) <= files[ip][f].mapped
        /\ files[ip][f].mapped \in Nat
      BY <1>1, EntryType DEF IInv, ResponsesKeepMapping
  <2>4. Cardinality(Readers(ip, f)') \in Nat
      BY <2>1, ReadersFinite, FS_AddElement, FS_CardinalityType
  <2> QED
      BY <2>1, <2>2, <2>3, <2>4, ReadersFinite
<1> HIDE DEF n
<1> QED
    BY <1>1, <1>2, <1>4, <1>5, <1>6, CountChanges

\* HEAD counts a mapping without a reader.
LEMMA HeadKeepsInv ==
    ASSUME IInv, NEW ip \in Ip, NEW f \in File, Head(ip, f)
    PROVE  IInv'
<1> DEFINE n == files[ip][f].mapped + 1
<1>1. TypeOK /\ f \in Hosted(ip) /\ files[ip][f].mapped \in Nat
    BY EntryType DEF IInv, Head
<1>2. /\ files' = [files EXCEPT ![ip][f].mapped = n]
      /\ UNCHANGED <<users, ip_of, servers, counter, urls, responses>>
    BY DEF Head
<1>3. \A i, h : Readers(i, h)' = Readers(i, h)
    BY <1>2 DEF Readers
<1>4. Cardinality(Readers(ip, f)') <= n /\ n \in Nat
    BY <1>1, <1>3, ReadersFinite DEF IInv, ResponsesKeepMapping
<1> HIDE DEF n
<1>5. responses' \in [Response -> Download \cup {NoDownload}]
    BY <1>1, <1>2 DEF TypeOK
<1> QED
    BY <1>1, <1>2, <1>3, <1>4, <1>5, CountChanges

\* A response that ends is counted no more, and was.
LEMMA FinishedKeepsInv ==
    ASSUME IInv, NEW r \in Response, Finished(r)
    PROVE  IInv'
<1>1. /\ TypeOK /\ responses[r] \in Download
      /\ responses[r].freed = FALSE
    BY DEF IInv, TypeOK, Finished, Download
<1>2. PICK ip \in Ip, f \in File :
          responses[r] = [ip |-> ip, file |-> f, freed |-> FALSE]
    BY <1>1 DEF Download
<1> DEFINE c == files[ip][f].mapped
           n == IF c > 0 THEN c - 1 ELSE 0
<1>3. /\ files' = [files EXCEPT ![ip][f].mapped = n]
      /\ responses' = [responses EXCEPT ![r] = NoDownload]
      /\ UNCHANGED <<users, ip_of, servers, counter, urls>>
    BY <1>2 DEF Finished
<1>4. r \in Readers(ip, f)
    BY <1>2 DEF Readers
<1>5. f \in Hosted(ip)
    BY <1>4 DEF IInv, ReadersReadHosted, Hosted
<1>6. responses' \in [Response -> Download \cup {NoDownload}]
    BY <1>1, <1>3 DEF TypeOK
<1>7. \A i \in Ip, h \in File : Readers(i, h)' = Readers(i, h) \ {r}
  <2> SUFFICES ASSUME NEW i \in Ip, NEW h \in File, NEW q \in Response
               PROVE  q \in Readers(i, h)' <=> q \in Readers(i, h) /\ q # r
      BY DEF Readers
  <2> DEFINE t == [ip |-> i, file |-> h, freed |-> FALSE]
  <2>1. NoDownload # t
      BY DEF NoDownload
  <2> HIDE DEF t
  <2>2. responses'[q] = t <=> responses[q] = t /\ q # r
      BY <1>1, <1>3, <2>1 DEF TypeOK
  <2> QED
      BY <2>2 DEF Readers, t
<1>8. ASSUME NEW i \in Ip, NEW h \in File, i # ip \/ h # f
      PROVE  Readers(i, h)' = Readers(i, h)
  <2>1. r \notin Readers(i, h)
      BY <1>2, <1>8 DEF Readers
  <2> QED
      BY <1>7, <2>1
<1>9. c \in Nat /\ n \in Nat /\ Cardinality(Readers(ip, f)') <= n
  <2>1. Readers(ip, f)' = Readers(ip, f) \ {r}
      BY <1>7
  <2>2. Cardinality(Readers(ip, f) \ {r}) = Cardinality(Readers(ip, f)) - 1
      BY <1>4, ReadersFinite, FS_RemoveElement
  <2>3. c \in Nat /\ Cardinality(Readers(ip, f)) <= c
      BY <1>1, <1>5, EntryType DEF IInv, ResponsesKeepMapping
  <2>4. Cardinality(Readers(ip, f)') \in Nat
      BY <2>1, ReadersFinite, FS_RemoveElement, FS_CardinalityType
  <2> QED
      BY <2>1, <2>2, <2>3, <2>4, ReadersFinite
<1> HIDE DEF n, c
<1> QED
    BY <1>3, <1>5, <1>6, <1>8, <1>9, CountChanges

-----------------------------------------------------------------------------
LEMMA NextKeepsInv == IInv /\ [Next]_vars => IInv'
<1> SUFFICES ASSUME IInv, [Next]_vars PROVE IInv'
    OBVIOUS
<1>1. ASSUME NEW k \in Client, NEW d \in Device, HostUriFails(k, d)
      PROVE  IInv'
    BY <1>1, HostUriFailsKeepsInv
<1>2. ASSUME NEW k \in Client, NEW d \in Device, NEW f \in File,
             HostUri(k, d, f) \/ RemoveUri(k, d, f)
      PROVE  IInv'
    BY <1>2, HostUriKeepsInv, RemoveUriKeepsInv
<1>3. ASSUME NEW k \in Client, LostClient(k) PROVE IInv'
    BY <1>3, LostClientKeepsInv
<1>4. ASSUME NEW ip \in Ip, NEW d \in Device, SwitchContext(d, ip)
      PROVE  IInv'
    BY <1>4, SwitchContextKeepsInv
<1>5. ASSUME NEW ip \in Ip, NEW f \in File, Head(ip, f) PROVE IInv'
    BY <1>5, HeadKeepsInv
<1>6. ASSUME NEW ip \in Ip, NEW f \in File, NEW r \in Response, Get(r, ip, f)
      PROVE  IInv'
    BY <1>6, GetKeepsInv
<1>7. ASSUME NEW r \in Response, Finished(r) PROVE IInv'
    BY <1>7, FinishedKeepsInv
<1>8. CASE UNCHANGED vars
  <2>1. \A ip : Hosted(ip)' = Hosted(ip)
      BY <1>8 DEF vars, Hosted
  <2>2. \A ip, f : Readers(ip, f)' = Readers(ip, f)
      BY <1>8 DEF vars, Readers
  <2> QED
      BY <1>8, <2>1, <2>2 DEF vars, IInv, TypeOK, FilesHaveClients,
         UrlNamesOneFile, UrlsNumbered, ReadersReadHosted, ResponsesKeepMapping
<1> QED
    BY <1>1, <1>2, <1>3, <1>4, <1>5, <1>6, <1>7, <1>8 DEF Next

\* The strengthened invariant of the host service holds in every reachable
\* state.
THEOREM InductiveInvariant == Spec => []IInv
    BY InitInv, NextKeepsInv, PTL DEF Spec

\* Every variable of the host service keeps its type.
THEOREM TypeCorrect == Spec => []TypeOK
<1>1. IInv => TypeOK
    BY DEF IInv
<1> QED
    BY <1>1, InductiveInvariant, PTL

\* A hosted file is wanted by a client that is there, and its server runs; no
\* server outlives the last client.
THEOREM FilesAreWanted == Spec => []FilesHaveClients
<1>1. IInv => FilesHaveClients
    BY DEF IInv
<1> QED
    BY <1>1, InductiveInvariant, PTL

\* A url of a running server names one file and the file hosted has its url.
THEOREM UrlsNameOneFile == Spec => []UrlNamesOneFile
<1>1. IInv => UrlNamesOneFile
    BY DEF IInv
<1> QED
    BY <1>1, InductiveInvariant, PTL

\* No mapping is given up below the number of responses that read it.
THEOREM MappingsOutliveReaders == Spec => []ResponsesKeepMapping
<1>1. IInv => ResponsesKeepMapping
    BY DEF IInv
<1> QED
    BY <1>1, InductiveInvariant, PTL

-----------------------------------------------------------------------------
\* RemoveFile, Release and the loss of a client leave the others their files
\* and urls.
THEOREM OthersKeepFiles == Spec => OthersKeepTheirFiles
<1> DEFINE Kept(k) ==
        LostClient(k) \/ (\E d \in Device, f \in File : RemoveUri(k, d, f))
        => \A ip \in Ip : \A f \in Hosted(ip) :
              files[ip][f].clients \ {k} # {} =>
                  /\ files'[ip][f] # NoFile
                  /\ files'[ip][f].id = files[ip][f].id
                  /\ files[ip][f].clients \ {k} \subseteq files'[ip][f].clients
<1>1. ASSUME TypeOK, NEW k \in Client
      PROVE  Kept(k)
  <2> SUFFICES ASSUME LostClient(k) \/ (\E d \in Device, f \in File :
                                            RemoveUri(k, d, f)),
                      NEW ip \in Ip, NEW f \in Hosted(ip),
                      files[ip][f].clients \ {k} # {}
               PROVE  /\ files'[ip][f] # NoFile
                      /\ files'[ip][f].id = files[ip][f].id
                      /\ files[ip][f].clients \ {k}
                            \subseteq files'[ip][f].clients
      OBVIOUS
  <2>1. PICK F, S : Removes(F, S, k)
      BY <1>1, LostClientRemoves, RemoveUriRemoves
  <2>2. files' = F
      BY <2>1 DEF Removes
  <2>3. f \in File /\ files[ip][f] # NoFile
      BY DEF Hosted
  <2> QED
      BY <1>1, <2>1, <2>2, <2>3, RemovesKeeps
<1>2. TypeOK /\ [Next]_vars => [\A k \in Client : Kept(k)]_vars
    BY <1>1
<1>3. [][\A k \in Client : Kept(k)]_vars => OthersKeepTheirFiles
    BY DEF OthersKeepTheirFiles
<1> HIDE DEF Kept
<1> QED
    BY <1>2, <1>3, TypeCorrect, PTL DEF Spec
=============================================================================
