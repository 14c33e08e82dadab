----------------------------- MODULE ManagerProofs -----------------------------
(***************************************************************************)
(* Theorems about Manager, for any entries of a white list.  The places of *)
(* a setting agree whatever fails, so PlacesAgree is inductive together    *)
(* with the types.                                                         *)
(***************************************************************************)
EXTENDS Manager, TLAPS

IInv == ServiceOK /\ PlacesAgree

\* A boolean property is set to a boolean, whatever the value was.
LEMMA AsBooleanType == \A v : AsBoolean(v) \in BOOLEAN
    BY DEF AsBoolean

LEMMA InitInv == Init => IInv
<1> SUFFICES ASSUME Init PROVE IInv
    OBVIOUS
<1>1. white_list \in WhiteList
    BY DEF Init, WhiteList, NoWhiteList
<1>2. told \in Settings /\ settings \in Settings /\ told = settings
    BY DEF Init
<1>3. serving = FALSE /\ published = {}
    BY DEF Init
<1> QED
    BY <1>1, <1>2, <1>3 DEF IInv, ServiceOK, PlacesAgree

-----------------------------------------------------------------------------
\* The white list a start makes is the one of the settings.
LEMMA StartKeepsInv ==
    ASSUME IInv, NEW P \in SUBSET Interfaces, StartService(P)
    PROVE  IInv'
<1>1. CASE "Manager" \in P
  <2>1. white_list' = [enabled |-> settings.enabled,
                       entries |-> settings.entries]
      BY <1>1 DEF StartService, WhiteListInit, NoWhiteList
  <2> QED
      BY <1>1, <2>1 DEF StartService, IInv, ServiceOK, PlacesAgree, Settings,
                        WhiteList
<1>2. CASE "Manager" \notin P
    BY <1>2 DEF StartService, IInv, ServiceOK, PlacesAgree
<1> QED
    BY <1>1, <1>2

LEMMA StopKeepsInv ==
    ASSUME IInv, StopService
    PROVE  IInv'
<1>1. white_list' \in WhiteList
    BY DEF StopService, WhiteList, NoWhiteList
<1>2. UNCHANGED <<settings, told>> /\ published' = {} /\ serving' = FALSE
    BY DEF StopService
<1> QED
    BY <1>1, <1>2 DEF IInv, ServiceOK, PlacesAgree

\* NeverQuit has no part in the white list.
LEMMA NeverQuitKeepsInv ==
    ASSUME IInv, NEW v, NEW ok \in BOOLEAN, SetNeverQuit(v, ok)
    PROVE  IInv'
<1>1. CASE ok
    BY <1>1, AsBooleanType DEF SetNeverQuit, IInv, ServiceOK, PlacesAgree, Settings
<1>2. CASE ~ok
    BY <1>2 DEF SetNeverQuit, IInv, ServiceOK, PlacesAgree
<1> QED
    BY <1>1, <1>2

\* A write that succeeds changes file, filter and what clients know alike, one
\* that fails none of them.
LEMMA EnabledKeepsInv ==
    ASSUME IInv, NEW v, NEW ok \in BOOLEAN, SetWhiteListEnabled(v, ok)
    PROVE  IInv'
<1>1. CASE ok
    BY <1>1, AsBooleanType DEF SetWhiteListEnabled, IInv, ServiceOK, PlacesAgree,
                               Settings, WhiteList
<1>2. CASE ~ok
    BY <1>2 DEF SetWhiteListEnabled, IInv, ServiceOK, PlacesAgree
<1> QED
    BY <1>1, <1>2

LEMMA EntriesKeepInv ==
    ASSUME IInv, NEW v \in (SUBSET Entry) \cup {OtherType}, NEW ok \in BOOLEAN,
           SetWhiteListEntries(v, ok)
    PROVE  IInv'
<1>1. v \in SUBSET Entry
    BY DEF SetWhiteListEntries
<1>2. CASE ok
    BY <1>1, <1>2 DEF SetWhiteListEntries, IInv, ServiceOK, PlacesAgree, Settings,
                      WhiteList
<1>3. CASE ~ok
    BY <1>3 DEF SetWhiteListEntries, IInv, ServiceOK, PlacesAgree
<1> QED
    BY <1>2, <1>3

LEMMA NextKeepsInv == IInv /\ [Next]_vars => IInv'
<1> SUFFICES ASSUME IInv, [Next]_vars PROVE IInv'
    OBVIOUS
<1>1. CASE UNCHANGED vars
    BY <1>1 DEF vars, IInv, ServiceOK, PlacesAgree
<1>2. CASE Next
    BY <1>2, StartKeepsInv, StopKeepsInv, NeverQuitKeepsInv, EnabledKeepsInv,
       EntriesKeepInv DEF Next
<1> QED
    BY <1>1, <1>2

\* The types and the agreement of the places hold in every reachable state.
THEOREM InductiveInvariant == Spec => []IInv
    BY InitInv, NextKeepsInv, PTL DEF Spec

\* Every variable of the settings keeps its type, also after a value of the
\* wrong type, and nothing is served without the Manager interface.
THEOREM ServiceCorrect == Spec => []ServiceOK
<1>1. IInv => ServiceOK
    BY DEF IInv
<1> QED
    BY <1>1, InductiveInvariant, PTL

\* The filter of networks is what the settings file says, and clients know
\* it, after any sequence of starts, stops, writes and failures.
THEOREM PlacesAlwaysAgree == Spec => []PlacesAgree
<1>1. IInv => PlacesAgree
    BY DEF IInv
<1> QED
    BY <1>1, InductiveInvariant, PTL
=============================================================================
