-------------------------------- MODULE Manager --------------------------------
(***************************************************************************)
(* The settings of the service: manager.c, with the start and stop of the  *)
(* service in server.c.                                                    *)
(*                                                                         *)
(* A setting lives in several places: the settings file and its copy in    *)
(* memory, which the libraries keep, the white list of GUPnP, which        *)
(* filters the networks, and what the clients have been told.  Writing the *)
(* file may fail, the service may stop and be started again, and its       *)
(* objects may fail to be published.                                       *)
(***************************************************************************)
CONSTANTS
    Entry,      \* the entries of a white list: interfaces, addresses, SSIDs
    OtherType   \* a value of a type that is not the property's

ASSUME OtherTypeAssumption ==
    /\ \A b \in BOOLEAN : OtherType # b
    /\ \A es \in SUBSET Entry : OtherType # es

VARIABLES
    settings,   \* the settings: the file, and the copy the service reads
    white_list, \* the white list of GUPnP's context manager
    published,  \* the interfaces of the root object that are on D-Bus
    serving,    \* g_context.upnp exists
    told        \* what a client that reads at the start and listens knows
                \* (history)

vars == <<settings, white_list, published, serving, told>>

Interfaces == {"Properties", "Manager"}

Settings == [never_quit : BOOLEAN, enabled : BOOLEAN, entries : SUBSET Entry]

WhiteList   == [enabled : BOOLEAN, entries : SUBSET Entry]
NoWhiteList == [enabled |-> FALSE, entries |-> {}]

Init ==
    /\ settings \in Settings
    /\ white_list = NoWhiteList
    /\ published = {}
    /\ serving = FALSE
    /\ told = settings

-----------------------------------------------------------------------------
(***************************************************************************)
(* The service.                                                            *)
(***************************************************************************)

\* prv_white_list_init, on the white list of a new context manager.
WhiteListInit ==
    white_list' = [enabled |-> settings.enabled,
                   entries |-> NoWhiteList.entries \cup settings.entries]

\* prv_control_point_start_service: P are the interfaces the connector could
\* publish.  Without the Manager interface the start fails, and what has been
\* published stays until the stop.
StartService(P) ==
    /\ published = {} /\ ~serving
    /\ published' = P
    /\ serving' = ("Manager" \in P)
    /\ IF serving' THEN WhiteListInit ELSE UNCHANGED white_list
    /\ UNCHANGED <<settings, told>>

\* Variant of StopService: the objects stay published.
StopService_KeepsObjects ==
    /\ published # {}
    /\ serving' = FALSE
    /\ white_list' = NoWhiteList
    /\ UNCHANGED <<settings, published, told>>

\* prv_control_point_stop_service, also after a start that failed.  The white
\* list goes with the context manager.  The code leaves g_context.manager and
\* the numbers in dlr_id as they are; no call reaches them now, and the next
\* start writes them before they are read.
StopService ==
    /\ published # {}
    /\ published' = {}
    /\ serving' = FALSE
    /\ white_list' = NoWhiteList
    /\ UNCHANGED <<settings, told>>

-----------------------------------------------------------------------------
(***************************************************************************)
(* Set on org.freedesktop.DBus.Properties of the root object, for the      *)
(* Manager interface.  The write of the file may fail (~ok).               *)
(***************************************************************************)

\* dlr_manager_set_prop runs when the interfaces are there to be called.
Callable == serving /\ "Properties" \in published

\* g_variant_get_boolean of a value that is not a boolean.
AsBoolean(v) == v = TRUE

\* prv_set_prop_never_quit.
SetNeverQuit(v, ok) ==
    LET never_quit == AsBoolean(v)
    IN  /\ Callable
        /\ settings.never_quit # never_quit
        /\ IF ok
           THEN /\ settings' = [settings EXCEPT !.never_quit = never_quit]
                /\ told' = [told EXCEPT !.never_quit = never_quit]
           ELSE UNCHANGED <<settings, told>>
        /\ UNCHANGED <<white_list, published, serving>>

\* Variant of SetWhiteListEnabled: the filter changes before the write.
SetWhiteListEnabled_First(v, ok) ==
    LET enabled == AsBoolean(v)
    IN  /\ Callable
        /\ settings.enabled # enabled
        /\ white_list' = [white_list EXCEPT !.enabled = enabled]
        /\ IF ok
           THEN /\ settings' = [settings EXCEPT !.enabled = enabled]
                /\ told' = [told EXCEPT !.enabled = enabled]
           ELSE UNCHANGED <<settings, told>>
        /\ UNCHANGED <<published, serving>>

\* prv_set_prop_wl_enabled.
SetWhiteListEnabled(v, ok) ==
    LET enabled == AsBoolean(v)
    IN  /\ Callable
        /\ settings.enabled # enabled
        /\ IF ok
           THEN /\ settings' = [settings EXCEPT !.enabled = enabled]
                /\ white_list' = [white_list EXCEPT !.enabled = enabled]
                /\ told' = [told EXCEPT !.enabled = enabled]
           ELSE UNCHANGED <<settings, white_list, told>>
        /\ UNCHANGED <<published, serving>>

\* prv_set_prop_wl_entries: the type is checked, no comparison with the old
\* entries; those are cleared from the filter before the new ones are added.
SetWhiteListEntries(v, ok) ==
    /\ Callable
    /\ v # OtherType
    /\ IF ok
       THEN /\ settings' = [settings EXCEPT !.entries = v]
            /\ white_list' = [white_list EXCEPT !.entries = {} \cup v]
            /\ told' = [told EXCEPT !.entries = v]
       ELSE UNCHANGED <<settings, white_list, told>>
    /\ UNCHANGED <<published, serving>>

Next ==
    \/ \E P \in SUBSET Interfaces : StartService(P)
    \/ StopService
    \/ \E v \in BOOLEAN \cup {OtherType}, ok \in BOOLEAN : SetNeverQuit(v, ok)
    \/ \E v \in BOOLEAN \cup {OtherType}, ok \in BOOLEAN :
         SetWhiteListEnabled(v, ok)
    \/ \E v \in (SUBSET Entry) \cup {OtherType}, ok \in BOOLEAN :
         SetWhiteListEntries(v, ok)

Spec == Init /\ [][Next]_vars

-----------------------------------------------------------------------------
(***************************************************************************)
(* Properties.                                                             *)
(***************************************************************************)

\* The types; and, whichever objects a start has published and whatever a stop
\* takes down, the service runs exactly when the Manager interface, by which
\* its settings are changed, is on D-Bus.
ServiceOK ==
    /\ settings \in Settings
    /\ white_list \in WhiteList
    /\ published \subseteq Interfaces
    /\ serving \in BOOLEAN
    /\ serving <=> "Manager" \in published
    /\ told \in Settings

\* While the service runs, the networks it uses are those the settings file
\* allows: what the filter applies is what a restart would read, also after
\* writes that failed, failed starts and values of the wrong type.  And a
\* client that read the properties once and applies every PropertiesChanged
\* signal knows the settings.
PlacesAgree ==
    /\ serving => /\ white_list.enabled = settings.enabled
                  /\ white_list.entries = settings.entries
    /\ told = settings

=============================================================================
