------------------------------ MODULE Scanner ------------------------------
(***************************************************************************)
(* The moderation scan (src/moderation.js), the reports that widen its     *)
(* scope and the queue in which a person reviews its flags                 *)
(* (src/server.js).  A pass picks a batch of unscanned messages, has them  *)
(* classified one after the other, stores a flag where due and marks each  *)
(* as scanned.  Passes are started by a timer that does not wait for the   *)
(* one before: they overlap, on the same messages.                         *)
(***************************************************************************)
EXTENDS Board

CONSTANTS
    Passes,         \* bound: passes at once
    Public,         \* the public projects
    Batch,          \* messages per pass: 25
    ScanMessages,   \* bound: messages posted
    MaxScanFaults   \* bound: failures and restarts

ASSUME ScannerAssumption ==
    /\ "other" \in Authors /\ Public \subseteq Projects
    /\ Batch \in Nat \ {0} /\ ScanMessages \in Nat /\ MaxScanFaults \in Nat

VARIABLES
    reported,   \* the messages with a row in reports, open or resolved
    scanned,    \* the messages with mod_scanned_at
    flags,      \* the messages with the classifier's row in moderation_flags
    reviewed,   \* those whose row has reviewed_at
    pass,       \* pass[p]: a call of scanOnce
    scanFaults, \* what remains of MaxScanFaults
    judged      \* history: judged[i]: the verdicts on i that were acted on

scannerVars == <<reported, scanned, flags, reviewed, pass, scanFaults, judged>>

(* rows: the messages of the batch still to do, the oldest in hand.  at:     *)
(* it is being classified; its flag is being stored; its mark.               *)
PassStates == [at : {"idle", "classifying", "flagging", "marking"}, rows : SUBSET Nat]
Idle == [at |-> "idle", rows |-> {}]

Posted == UNION {Visible(g) : g \in Projects}

\* Public, or a report names the message or its project, which each report does.
InScope(i) ==
    \/ messages[i].group \in Public
    \/ \E j \in reported : messages[j].group = messages[i].group

ScannerInit ==
    /\ reported = {}
    /\ scanned = {} /\ flags = {} /\ reviewed = {}
    /\ pass = [p \in Passes |-> Idle]
    /\ scanFaults = MaxScanFaults
    /\ judged = [i \in 1 .. ScanMessages |-> {}]

-----------------------------------------------------------------------------
Writes(g) ==
    /\ Len(messages) < ScanMessages
    /\ Insert(g, "other", FALSE)
    /\ UNCHANGED scannerVars

Written(i) == Commit(i) /\ UNCHANGED scannerVars

\* POST /api/groups/:slug/messages/:id/report
Report(i) ==
    /\ reported' = reported \cup {i}
    /\ UNCHANGED <<messages, scanned, flags, reviewed, pass, scanFaults, judged>>

Review(i) ==
    /\ i \in flags \ reviewed
    /\ reviewed' = reviewed \cup {i}
    /\ UNCHANGED <<messages, reported, scanned, flags, pass, scanFaults, judged>>

-----------------------------------------------------------------------------
Row(p) == CHOOSE i \in pass[p].rows : \A j \in pass[p].rows : i <= j

GoOn(rows) == [at |-> IF rows = {} THEN "idle" ELSE "classifying", rows |-> rows]

\* scheduleScans: by the interval, or soon after the start.
StartPass(p) ==
    /\ pass[p].at = "idle"
    /\ pass' = [pass EXCEPT ![p] =
                  GoOn(Oldest({i \in Posted \ scanned : InScope(i)}, Batch))]
    /\ UNCHANGED <<messages, reported, scanned, flags, reviewed, scanFaults, judged>>

Classified(p, flagged) ==
    /\ pass[p].at = "classifying"
    /\ pass' = [pass EXCEPT ![p].at = IF flagged THEN "flagging" ELSE "marking"]
    /\ judged' = IF flagged THEN judged ELSE [judged EXCEPT ![Row(p)] = @ \cup {"clean"}]
    /\ UNCHANGED <<messages, reported, scanned, flags, reviewed, scanFaults>>

\* Mutant: a conflicting row is updated, and is to be reviewed anew.
StoreFlag_Upsert(i) == flags' = flags \cup {i} /\ reviewed' = reviewed \ {i}

\* INSERT ... ON CONFLICT DO NOTHING: a row that is there stays as it is.
StoreFlag(i) == flags' = flags \cup {i} /\ UNCHANGED reviewed

Flag(p) ==
    /\ pass[p].at = "flagging"
    /\ StoreFlag(Row(p))
    /\ judged' = [judged EXCEPT ![Row(p)] = @ \cup {"flagged"}]
    /\ pass' = [pass EXCEPT ![p].at = "marking"]
    /\ UNCHANGED <<messages, reported, scanned, scanFaults>>

\* Mutant: a message that failed is marked all the same.
Skipped_Marked(i) == scanned' = scanned \cup {i}

\* continue: mod_scanned_at stays NULL for the next pass.
Skipped(i) == UNCHANGED scanned

\* The classifier or the INSERT fails: on to the next message.
ClassifyFails(p) ==
    /\ pass[p].at \in {"classifying", "flagging"}
    /\ scanFaults > 0 /\ scanFaults' = scanFaults - 1
    /\ Skipped(Row(p))
    /\ pass' = [pass EXCEPT ![p] = GoOn(@.rows \ {Row(p)})]
    /\ UNCHANGED <<messages, reported, flags, reviewed, judged>>

Mark(p) ==
    /\ pass[p].at = "marking"
    /\ scanned' = scanned \cup {Row(p)}
    /\ pass' = [pass EXCEPT ![p] = GoOn(@.rows \ {Row(p)})]
    /\ UNCHANGED <<messages, reported, flags, reviewed, scanFaults, judged>>

\* This UPDATE is outside the try: the pass ends.
MarkFails(p) ==
    /\ pass[p].at = "marking"
    /\ scanFaults > 0 /\ scanFaults' = scanFaults - 1
    /\ pass' = [pass EXCEPT ![p] = Idle]
    /\ UNCHANGED <<messages, reported, scanned, flags, reviewed, judged>>

ScannerRestart ==
    /\ scanFaults > 0 /\ scanFaults' = scanFaults - 1
    /\ Restart
    /\ pass' = [p \in Passes |-> Idle]
    /\ UNCHANGED <<reported, scanned, flags, reviewed, judged>>

ScannerNext ==
    \/ \E g \in Projects : Writes(g)
    \/ \E i \in DOMAIN messages : Written(i)
    \/ \E i \in Posted : Report(i) \/ Review(i)
    \/ \E p \in Passes : \/ StartPass(p) \/ Flag(p) \/ Mark(p)
                         \/ \E flagged \in BOOLEAN : Classified(p, flagged)
                         \/ ClassifyFails(p) \/ MarkFails(p)
    \/ ScannerRestart

ScannerSpec == BoardInit /\ ScannerInit /\ [][ScannerNext]_<<messages, scannerVars>>

-----------------------------------------------------------------------------
ScannerTypeOK ==
    /\ reported \subseteq Posted /\ scanned \subseteq Posted
    /\ reviewed \subseteq flags /\ flags \subseteq Posted
    /\ pass \in [Passes -> PassStates]
    /\ \A p \in Passes : pass[p].at = "idle" <=> pass[p].rows = {}
    /\ scanFaults \in 0 .. MaxScanFaults
    /\ judged \in [1 .. ScanMessages -> SUBSET {"clean", "flagged"}]

(* Whatever fails and however passes overlap, a message that will not be     *)
(* classified again has had a verdict that was acted on, and one with an     *)
(* adverse verdict that was acted on stands in the review queue or has been  *)
(* reviewed (src/moderation.js:86-108).                                      *)
ScannedWasJudged ==
    /\ \A i \in scanned : judged[i] # {}
    /\ \A i \in DOMAIN judged : "flagged" \in judged[i] => i \in flags

(* A flag that a person has reviewed does not come back to the queue, though *)
(* another pass may classify its message later and flag it once more         *)
(* (src/moderation.js:94).                                                   *)
ReviewStands == [][reviewed \subseteq reviewed']_scannerVars

=============================================================================
