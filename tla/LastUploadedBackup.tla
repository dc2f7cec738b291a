------------------------- MODULE LastUploadedBackup -------------------------
(***************************************************************************)
(* What last_uploaded_backup promises its caller (spec sections 2, 4.5,   *)
(* 6), with no transaction, snapshot, file name or backup flow in sight:  *)
(*   - each device records backups with versions 1, 2, ... and a         *)
(*     timestamp; the backup flow uploads the one it last recorded, and   *)
(*     uploaded backups may disappear from storage;                       *)
(*   - a call that returns answers with an Err, or with a value that was  *)
(*     the right answer at some instant between its start and its        *)
(*     return: the last recorded timestamp if that backup was uploaded    *)
(*     then, else None.  A call may also be abandoned (the app dies).     *)
(* window[d] is the set of right answers since device d's call started.   *)
(***************************************************************************)
EXTENDS Naturals

CONSTANTS
    Devices,  \* one user's devices
    None,     \* Option::None
    Err       \* the Err(..) of a failed call

VARIABLES
    last,      \* each device's last recorded backup: version and timestamp
    uploaded,  \* <<device, version>> of the backups present in storage
    call,      \* each device's call: "idle", "busy" or "done"
    answer,    \* what each device's last finished call returned
    window     \* the right answers since each running call started

avars == <<last, uploaded, call, answer, window>>

\* The right answer for device d in the current state.
Right(d) ==
    IF last[d].timestamp = None THEN None
    ELSE IF <<d, last[d].version>> \in uploaded THEN last[d].timestamp
    ELSE None

Busy(d) == call[d] = "busy"

\* Every step adds the right answer of its end state to a running call's
\* window, and a call that starts begins a new window.
Observe ==
    window' = [d \in Devices |->
                 IF Busy(d)' /\ ~Busy(d) THEN {Right(d)'}
                 ELSE IF Busy(d) THEN window[d] \cup {Right(d)'}
                 ELSE window[d]]

AInit ==
    /\ last = [d \in Devices |-> [version |-> 0, timestamp |-> None]]
    /\ uploaded = {}
    /\ call = [d \in Devices |-> "idle"]
    /\ answer = [d \in Devices |-> None]
    /\ window = [d \in Devices |-> {}]

\* Device d records its next backup.
Record(d) ==
    /\ last'[d].version = last[d].version + 1
    /\ last'[d].timestamp # None
    /\ last' = [last EXCEPT ![d] = last'[d]]
    /\ UNCHANGED <<uploaded, call, answer>>

\* The backup flow of device d uploads the backup it last recorded.
Upload(d) ==
    /\ last[d].version # 0
    /\ uploaded' = uploaded \cup {<<d, last[d].version>>}
    /\ UNCHANGED <<last, call, answer>>

\* Backups disappear from storage (pruning, the user), or none does while
\* something the caller cannot see happens.
Lose ==
    /\ uploaded' \subseteq uploaded
    /\ UNCHANGED <<last, call, answer>>

\* Device d calls last_uploaded_backup.
Begin(d) ==
    /\ call[d] # "busy"
    /\ call' = [call EXCEPT ![d] = "busy"]
    /\ UNCHANGED <<last, uploaded, answer>>

\* The call returns an Err, or an answer that was right during the call.
Return(d) ==
    /\ Busy(d)
    /\ call' = [call EXCEPT ![d] = "done"]
    /\ answer'[d] \in window'[d] \cup {Err}
    /\ answer' = [answer EXCEPT ![d] = answer'[d]]
    /\ UNCHANGED <<last, uploaded>>

\* The app dies: the call, if any, is abandoned.
Abandon(d) ==
    /\ call' = [call EXCEPT ![d] = "idle"]
    /\ UNCHANGED <<last, uploaded, answer>>

ANext ==
    /\ \/ Lose
       \/ \E d \in Devices :
             Record(d) \/ Upload(d) \/ Begin(d) \/ Return(d) \/ Abandon(d)
    /\ Observe

ASpec == AInit /\ [][ANext]_avars

=============================================================================
