------------------------------- MODULE Positions -------------------------------
(***************************************************************************)
(* Positions in a track: reading them and seeking, device.c from           *)
(* prv_duration_to_int64 to prv_get_position_info and from                 *)
(* prv_device_set_position to dlr_device_set_position.                     *)
(*                                                                         *)
(* A relative seek asks the renderer where it is and, with the answer,     *)
(* asks it to go elsewhere; the renderer and other clients move meanwhile. *)
(* The renderer is external.  Its track has one byte for each second, so   *)
(* that one number is its position in either unit.                         *)
(***************************************************************************)
EXTENDS Integers

CONSTANTS
    Caller,     \* clients: each has one call in progress at a time
    None,       \* no value
    Error,      \* the answer of an action that fails
    NotImplemented,   \* the time of a renderer that keeps no count of it
    Second,     \* microseconds in a second (10^6 in the program)
    Word,       \* values of an unsigned int (2^32)
    LongWord,   \* values of a guint64 (2^64)
    Length,     \* the length of the track, in seconds
    Stops,      \* bound: the positions that playing on is seen at
    Offsets,    \* the arguments of Seek and SetPosition, in microseconds
    Counts,     \* the arguments of ByteSeek and SetBytePosition
    MaxSeeks    \* bound: the seeks begun

ASSUME PositionsAssumption ==
    /\ {Second, Word, LongWord} \subseteq Nat \ {0}
    /\ Length \in Nat /\ Length < Word /\ 2 * Length < LongWord
    /\ Stops \subseteq 0..Length
    /\ Offsets \subseteq Int /\ MaxSeeks \in Nat
    /\ Counts \subseteq -(LongWord \div 2) .. (LongWord \div 2) - 1

\* What stands for no value is no number and no duration.
ASSUME MarksAssumption ==
    /\ None \notin {Error, NotImplemented} /\ Error # NotImplemented
    /\ \A v \in {None, Error, NotImplemented} :
          v \notin Int /\ v \notin [neg : BOOLEAN, h : Nat, m : 0..59, s : 0..59]

VARIABLES
    place,      \* where the renderer is
    can_get_byte_position,   \* device->can_get_byte_position (never changes)
    position,   \* the property Position, in microseconds, or None
    byte_position,   \* the property BytePosition or None
    call,       \* the call of each client
    kept,       \* GetAlls in progress since byte_position was set (history)
    seeks       \* the seeks begun

vars == <<place, can_get_byte_position, position, byte_position,
          call, kept, seeks>>

Relative == {"seek", "byte_seek"}
Absolute == {"set_position", "set_byte_position"}
Reading  == {"get_position", "get_byte_position", "get_all"}

InBytes(op) == op \in {"byte_seek", "set_byte_position", "get_byte_position"}

-----------------------------------------------------------------------------
(***************************************************************************)
(* Durations: a sign, hours, minutes and seconds.                          *)
(***************************************************************************)
Duration == [neg : BOOLEAN, h : Nat, m : 0..59, s : 0..59]

\* prv_duration_to_int64: each part is multiplied as an unsigned int, and the
\* sign is that of the hours alone.  What has not three parts, as the text
\* NOT_IMPLEMENTED, is 0.
DurationToInt64(t) ==
    IF t = NotImplemented THEN 0
    ELSE Second * ((((IF t.neg THEN -t.h ELSE t.h) * 3600) % Word)
                   + ((t.m * 60) % Word) + (t.s % Word))

\* Variant of Int64ToDuration: the sign is lost.
Int64ToDuration_NoSign(us) ==
    LET seconds == ((IF us < 0 THEN -us ELSE us) \div Second) % Word
    IN  [neg |-> FALSE, h |-> seconds \div 3600,
         m |-> (seconds \div 60) % 60, s |-> seconds % 60]

\* prv_int64_to_duration.
Int64ToDuration(us) ==
    LET seconds == ((IF us < 0 THEN -us ELSE us) \div Second) % Word
    IN  [neg |-> us < 0, h |-> seconds \div 3600,
         m |-> (seconds \div 60) % 60, s |-> seconds % 60]

\* What a renderer means by a duration, and how it writes one.
Meaning(t) == (IF t.neg THEN -1 ELSE 1) * (3600 * t.h + 60 * t.m + t.s)
Written(n) == [neg |-> FALSE, h |-> n \div 3600, m |-> (n \div 60) % 60,
               s |-> n % 60]

\* prv_add_relcount: strtoll reads what is no number as 0.
RelCount(reply) == IF reply = NotImplemented THEN 0 ELSE reply

\* seek_data->counter_position is unsigned, its argument is not.
Unsigned(n) == n % LongWord

-----------------------------------------------------------------------------
(***************************************************************************)
(* Calls.  asks is the action in flight: "time" for GetPositionInfo,       *)
(* "bytes" for X_DLNA_GetBytePositionInfo, "seek" for Seek.  reply is the  *)
(* renderer's answer on its way back, from the place read.                 *)
(***************************************************************************)
Call == [op : Relative \cup Absolute \cup Reading, arg : Int,
         asks : {"time", "bytes", "seek"},
         target : Duration \cup Nat \cup {None},
         reply : Duration \cup Nat \cup {"ok", None, NotImplemented, Error},
         read : Nat \cup {None}]

Init ==
    /\ place = 0
    /\ can_get_byte_position \in BOOLEAN
    /\ position = None
    /\ byte_position = None
    /\ call = [c \in Caller |-> None]
    /\ kept = {}
    /\ seeks = 0

Waiting(op, arg, asks) ==
    [op |-> op, arg |-> arg, asks |-> asks, target |-> None, reply |-> None,
     read |-> None]

\* The action Seek with its target: prv_device_set_position and
\* prv_device_seek_set_position.
Seeking(op, arg, target, read) ==
    [Waiting(op, arg, "seek") EXCEPT !.target = target, !.read = read]

\* dlr_device_get_prop, dlr_device_get_all_props: the byte position first if
\* the service description knows of it.
BeginGet(c, op) ==
    /\ call[c] = None
    /\ LET bytes == \/ op = "get_byte_position"
                    \/ op = "get_all" /\ can_get_byte_position
       IN  call' = [call EXCEPT ![c] =
                       Waiting(op, 0, IF bytes THEN "bytes" ELSE "time")]
    /\ kept' = IF op = "get_all" /\ byte_position # None
               THEN kept \cup {c} ELSE kept
    /\ UNCHANGED <<place, can_get_byte_position, position,
                   byte_position, seeks>>

\* dlr_device_seek.
BeginSeek(c, op, arg) ==
    /\ call[c] = None /\ seeks < MaxSeeks
    /\ seeks' = seeks + 1
    /\ call' = [call EXCEPT ![c] =
                   Waiting(op, arg, IF InBytes(op) THEN "bytes" ELSE "time")]
    /\ UNCHANGED <<place, can_get_byte_position, position,
                   byte_position, kept>>

\* dlr_device_set_position.
BeginSetPosition(c, op, arg) ==
    /\ call[c] = None /\ seeks < MaxSeeks
    /\ seeks' = seeks + 1
    /\ call' = [call EXCEPT ![c] =
                   Seeking(op, arg, IF InBytes(op) THEN Unsigned(arg)
                                    ELSE Int64ToDuration(arg), None)]
    /\ UNCHANGED <<place, can_get_byte_position, position,
                   byte_position, kept>>

-----------------------------------------------------------------------------
(***************************************************************************)
(* The renderer.                                                           *)
(***************************************************************************)

Asked(c, what) ==
    /\ call[c] # None /\ call[c].reply = None /\ call[c].asks = what

\* It says where it is, or that it keeps no count, ...
Report(c) ==
    /\ \/ /\ Asked(c, "bytes")
          /\ call' = [call EXCEPT ![c] =
                         [@ EXCEPT !.reply = place, !.read = place]]
       \/ /\ Asked(c, "time")
          /\ call' = [call EXCEPT ![c] =
                         [@ EXCEPT !.reply = Written(place), !.read = place]]
       \/ /\ Asked(c, "time") \/ Asked(c, "bytes")
          /\ call' = [call EXCEPT ![c].reply = NotImplemented]
    /\ UNCHANGED <<place, can_get_byte_position, position,
                   byte_position, kept, seeks>>

\* ... goes to a target within the track ...
Destination(c) ==
    IF InBytes(call[c].op) THEN call[c].target ELSE Meaning(call[c].target)

Go(c) ==
    /\ Asked(c, "seek")
    /\ Destination(c) \in 0..Length
    /\ place' = Destination(c)
    /\ call' = [call EXCEPT ![c].reply = "ok"]
    /\ UNCHANGED <<can_get_byte_position, position, byte_position,
                   kept, seeks>>

\* ... and not to another one, or fails at any time.
Fail(c) ==
    /\ \E what \in {"time", "bytes", "seek"} : Asked(c, what)
    /\ call' = [call EXCEPT ![c].reply = Error]
    /\ UNCHANGED <<place, can_get_byte_position, position,
                   byte_position, kept, seeks>>

PlayOn(n) ==
    /\ place < n
    /\ place' = n
    /\ UNCHANGED <<can_get_byte_position, position, byte_position,
                   call, kept, seeks>>

-----------------------------------------------------------------------------
(***************************************************************************)
(* The callbacks of the actions.                                           *)
(***************************************************************************)

Replied(c, ops, asks) ==
    /\ call[c] # None /\ call[c].reply # None
    /\ call[c].op \in ops /\ call[c].asks = asks

\* prv_get_position_info_cb and prv_get_byte_position_info_cb: an error is
\* the answer and leaves the property.
GetPositionCb(c) ==
    /\ Replied(c, {"get_position"}, "time")
    /\ position' = IF call[c].reply = Error THEN position
                   ELSE DurationToInt64(call[c].reply)
    /\ call' = [call EXCEPT ![c] = None]
    /\ UNCHANGED <<place, can_get_byte_position, byte_position, kept,
                   seeks>>

GetBytePositionCb(c) ==
    /\ Replied(c, {"get_byte_position"}, "bytes")
    /\ IF call[c].reply = Error THEN UNCHANGED <<byte_position, kept>>
       ELSE byte_position' = RelCount(call[c].reply) /\ kept' = {}
    /\ call' = [call EXCEPT ![c] = None]
    /\ UNCHANGED <<place, can_get_byte_position, position, seeks>>

\* Variant of GetAllBytePositionCb: an error asks again.
GetAllBytePositionCb_Retries(c) ==
    /\ Replied(c, {"get_all"}, "bytes")
    /\ call' = [call EXCEPT ![c] =
                   IF @.reply = Error THEN Waiting("get_all", 0, "bytes")
                   ELSE [Waiting("get_all", 0, "time") EXCEPT
                            !.target = RelCount(call[c].reply)]]
    /\ UNCHANGED <<place, can_get_byte_position, position,
                   byte_position, kept, seeks>>

\* prv_get_all_byte_position_info_cb: the count is kept in the task (target)
\* until the time has been read too; without one the property goes.
GetAllBytePositionCb(c) ==
    /\ Replied(c, {"get_all"}, "bytes")
    /\ IF call[c].reply = Error THEN byte_position' = None /\ kept' = {}
       ELSE UNCHANGED <<byte_position, kept>>
    /\ call' = [call EXCEPT ![c] = [Waiting("get_all", 0, "time") EXCEPT
                   !.target = IF call[c].reply = Error THEN None
                              ELSE RelCount(call[c].reply)]]
    /\ UNCHANGED <<place, can_get_byte_position, position, seeks>>

\* Variant of GetAllPositionCb: an error leaves the position.
GetAllPositionCb_KeepsPosition(c) ==
    /\ Replied(c, {"get_all"}, "time")
    /\ position' = IF call[c].reply = Error THEN position
                   ELSE DurationToInt64(call[c].reply)
    /\ IF call[c].target = None THEN UNCHANGED <<byte_position, kept>>
       ELSE byte_position' = call[c].target /\ kept' = {}
    /\ call' = [call EXCEPT ![c] = None]
    /\ UNCHANGED <<place, can_get_byte_position, seeks>>

\* prv_get_all_position_info_cb, which answers with the properties there are.
GetAllPositionCb(c) ==
    /\ Replied(c, {"get_all"}, "time")
    /\ position' = IF call[c].reply = Error THEN None
                   ELSE DurationToInt64(call[c].reply)
    /\ IF call[c].target = None THEN UNCHANGED <<byte_position, kept>>
       ELSE byte_position' = call[c].target /\ kept' = {}
    /\ call' = [call EXCEPT ![c] = None]
    /\ UNCHANGED <<place, can_get_byte_position, seeks>>

\* Variant of Target: the sum is signed.
Target_Signed(op, arg, reply) ==
    IF InBytes(op) THEN arg + RelCount(reply)
    ELSE Int64ToDuration(arg + DurationToInt64(reply))

\* The sum of the position read and the offset, as it is sent.
Target(op, arg, reply) ==
    IF InBytes(op) THEN Unsigned(Unsigned(arg) + RelCount(reply))
    ELSE Int64ToDuration(arg + DurationToInt64(reply))

\* prv_complete_seek_get_position.
CompleteSeekGetPosition(c) ==
    /\ \/ Replied(c, {"seek"}, "time")
       \/ Replied(c, {"byte_seek"}, "bytes")
    /\ call' = [call EXCEPT ![c] =
                   IF @.reply = Error THEN None
                   ELSE Seeking(@.op, @.arg, Target(@.op, @.arg, @.reply),
                                @.read)]
    /\ UNCHANGED <<place, can_get_byte_position, position,
                   byte_position, kept, seeks>>

\* prv_simple_call_cb: the seek is answered.
SeekCb(c) ==
    /\ Replied(c, Relative \cup Absolute, "seek")
    /\ call' = [call EXCEPT ![c] = None]
    /\ UNCHANGED <<place, can_get_byte_position, position,
                   byte_position, kept, seeks>>

Callback(c) ==
    \/ GetPositionCb(c) \/ GetBytePositionCb(c)
    \/ GetAllBytePositionCb(c) \/ GetAllPositionCb(c)
    \/ CompleteSeekGetPosition(c) \/ SeekCb(c)

Next ==
    \/ \E c \in Caller :
          \/ \E op \in Reading : BeginGet(c, op)
          \/ \E us \in Offsets : \/ BeginSeek(c, "seek", us)
                                 \/ BeginSetPosition(c, "set_position", us)
          \/ \E n \in Counts : \/ BeginSeek(c, "byte_seek", n)
                               \/ BeginSetPosition(c, "set_byte_position", n)
          \/ Report(c) \/ Go(c) \/ Fail(c)
          \/ Callback(c)
    \/ \E n \in Stops : PlayOn(n)

\* Actions are answered, with success or not, and answers are handled.
Fairness ==
    \A c \in Caller :
        WF_vars(Report(c) \/ Go(c) \/ Fail(c)) /\ WF_vars(Callback(c))

Spec == Init /\ [][Next]_vars /\ Fairness

-----------------------------------------------------------------------------
(***************************************************************************)
(* Properties.                                                             *)
(***************************************************************************)

\* Every variable keeps its type: what is sent and shown in bytes is never
\* negative.
TypeOK ==
    /\ place \in 0..Length
    /\ position \in Int \cup {None}
    /\ byte_position \in Nat \cup {None}
    /\ kept \subseteq Caller
    /\ \A c \in Caller : call[c] # None =>
          /\ call[c].asks = "seek" => call[c].target # None
          /\ InBytes(call[c].op) /\ call[c].asks = "seek" =>
                call[c].target \in 0..LongWord - 1

\* Where a seek should lead, from where the renderer said it was or from the
\* start: in microseconds or in bytes.
Aim(c) ==
    call[c].arg + (IF call[c].op \in Absolute THEN 0
                   ELSE IF InBytes(call[c].op) THEN call[c].read
                   ELSE Second * call[c].read)

\* A seek leads to the second or the byte asked for, or is refused if that
\* lies outside the track, whatever others do in between: hours, minutes,
\* seconds and sign of the positions read and sent mean the same to both
\* sides, and so do counts, although the offset is signed and the count is
\* not.  A renderer that does not say where it is, is taken to be at the
\* start; a position of 2^32 seconds wraps.
SeeksLand ==
    [][\A c \in Caller :
          /\ Go(c)
          /\ call[c].op \in Relative => call[c].read # None
          => IF InBytes(call[c].op) THEN place' = Aim(c)
             ELSE /\ Aim(c) < Second * Word /\ -Aim(c) < Second * Word
                  => /\ place' * Second - Aim(c) < Second
                     /\ Aim(c) - place' * Second < Second]_vars

\* GetAll answers with the position the renderer gave this very call, or with
\* none if it gave none; and, where the description knows of byte positions,
\* never with one kept from before the call.
AnswersAreFresh ==
    [][\A c \in Caller :
          GetAllPositionCb(c) =>
             /\ position' # None => /\ call[c].reply # Error
                                    /\ call[c].read # None =>
                                          position' = Second * call[c].read
             /\ can_get_byte_position => c \notin kept']_vars

\* Each call is answered in the end, also a GetAll of which one half fails
\* or a relative seek whose first step fails.
CallsAreAnswered == \A c \in Caller : call[c] # None ~> call[c] = None
=============================================================================
