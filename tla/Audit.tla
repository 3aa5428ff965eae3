-------------------------------- MODULE Audit --------------------------------
(***************************************************************************)
(* Auditors of a ledger, beside its governor (audit.py; core.py:           *)
(* _start_auditing; the stores' audit marks).                              *)
(*                                                                         *)
(* A run reads the head, starts from the newest checkpoint an earlier run  *)
(* verified, or from genesis, replays what follows, checks the snapshot of *)
(* every checkpoint on the way, and records marks.  A governor opens for   *)
(* writing unless the newest mark is a failure.  Several auditors run at   *)
(* once (one in a governor's thread, others beside the fleet), while the   *)
(* governor appends, and entries or snapshots may be damaged at rest and   *)
(* restored by an operator.                                                *)
(*                                                                         *)
(* The chain is its length and the set of sequences whose entry does not   *)
(* verify; a state is known by the sequence it is of.                      *)
(***************************************************************************)
EXTENDS Integers, Sequences, FiniteSets, SequencesExt

CONSTANTS
    Auditors,
    InProcess,  \* the auditor the governor runs in a thread of its own
    None,
    MaxLength,  \* bound on the chain
    MaxDamage,  \* bound on how often something is damaged
    MaxMarks    \* bound on the marks recorded

ASSUME AuditAssumption ==
    /\ InProcess \in Auditors /\ None \notin Auditors
    /\ {MaxLength, MaxDamage, MaxMarks} \subseteq Nat

VARIABLES
    length,      \* of the chain
    bad,         \* sequences whose entry does not verify
    named,       \* sequence a CHECKPOINT entry names |-> that entry's own
    spoiled,     \* the sequences whose stored snapshot is not the chain's
    marks,       \* the audit marks, oldest first
    following,   \* the stand-alone auditors that keep running
    run,         \* each auditor's run, or None between runs
    governor,    \* "closed", "open", or "stopped" by its auditor
    replayed,    \* (history) the entries some run replayed and verified
    damages

auditVars == <<length, bad, named, spoiled, marks, following, run,
               governor, replayed, damages>>

AuditInit ==
    /\ length = 0 /\ bad = {} /\ spoiled = {} /\ replayed = {} /\ damages = 0
    /\ named = <<>>
    /\ marks = <<>>
    /\ following = {}
    /\ run = [a \in Auditors |-> None]
    /\ governor = "closed"

-----------------------------------------------------------------------------
(* The governor.                                                           *)

\* audit_failure(): the newest mark, if it is a failure.
AuditFailure == marks # <<>> /\ Last(marks).status = "failed"

\* A governor opens from the newest checkpoint, and replays what follows it.
Newest == IF named = <<>> THEN 0 ELSE CHOOSE s \in DOMAIN named :
                                        \A t \in DOMAIN named : t <= s

\* _start_auditing: a ledger that failed its audit is not written.
Open ==
    /\ governor = "closed" /\ ~AuditFailure
    /\ Newest \notin spoiled /\ bad \cap ((Newest + 1)..length) = {}
    /\ governor' = "open"
    /\ UNCHANGED <<length, bad, named, spoiled, marks, run, replayed, damages, following>>

\* Closing stops the governor's auditor, between two chunks.
CloseGovernor ==
    /\ governor # "closed"
    /\ governor' = "closed"
    /\ run' = [run EXCEPT ![InProcess] = None]
    /\ UNCHANGED <<length, bad, named, spoiled, marks, replayed, damages, following>>

Append1 ==
    /\ governor = "open" /\ length < MaxLength
    /\ length' = length + 1
    /\ UNCHANGED <<bad, named, spoiled, marks, run, governor, replayed, damages, following>>

\* The snapshot of the chain so far, and the CHECKPOINT entry that names it.
TakeCheckpoint ==
    /\ governor = "open" /\ length \in 1..(MaxLength - 1)
    /\ length \notin DOMAIN named
    /\ named' = [s \in DOMAIN named \cup {length} |->
                   IF s = length THEN length + 1 ELSE named[s]]
    /\ length' = length + 1
    /\ UNCHANGED <<bad, spoiled, marks, run, governor, replayed, damages, following>>

-----------------------------------------------------------------------------
(* One run of an auditor.                                                  *)

Mark(status, sequence) == [status |-> status, sequence |-> sequence]

\* record_audit; a mark that cannot be written is logged and lost.
Record(mark) ==
    marks' \in {marks} \cup (IF Len(marks) < MaxMarks THEN {Append(marks, mark)} ELSE {})

\* FAULT: a failure's mark is as good as any.
TrustedAny(m) ==
    /\ m.sequence \in DOMAIN named
    /\ m.sequence \notin spoiled

\* The marks a run may start from: verified, of a checkpoint, whose snapshot
\* still has the digest verified.
Trusted(m) ==
    /\ m.status = "verified"
    /\ m.sequence \in DOMAIN named
    /\ m.sequence \notin spoiled

\* _resume: after the newest of them, or genesis.
ResumeFrom ==
    LET of == {j \in DOMAIN marks : Trusted(marks[j])}
    IN  IF of = {} THEN 0
        ELSE marks[CHOOSE j \in of : \A i \in of : i <= j].sequence

\* follow(), for a stand-alone auditor.
Follow(a) ==
    /\ a # InProcess /\ a \notin following
    /\ following' = following \cup {a}
    /\ UNCHANGED <<length, bad, named, spoiled, marks, run, governor, replayed, damages>>

RunFrom(a, start) ==
    /\ run[a] = None /\ start < length
    /\ run' = [run EXCEPT ![a] =
         [until |-> length, position |-> start,
          due |-> {s \in DOMAIN named : s <= length}]]
    /\ UNCHANGED <<length, bad, named, spoiled, marks, following, governor,
                   replayed, damages>>

\* run(): the head and the checkpoints below it, then where to start.
Begin(a) ==
    /\ IF a = InProcess THEN governor = "open" ELSE a \in following
    /\ RunFrom(a, ResumeFrom)

\* run(from_genesis=True), asked for by hand.
BeginAtGenesis(a) ==
    /\ a \notin following \cup {InProcess}
    /\ RunFrom(a, 0)

\* The next entry verifies; at a checkpoint its snapshot must be the state the
\* chain implies, and that is worth a mark.
Replay(a) ==
    /\ run[a] # None
    /\ run[a].position < run[a].until
    /\ LET next == run[a].position + 1 IN
         /\ next \notin bad
         /\ next \in run[a].due => next \notin spoiled
         /\ run' = [run EXCEPT ![a].position = next]
         /\ replayed' = replayed \cup {next}
         /\ \/ next \in run[a].due /\ Record(Mark("verified", next))
            \/ next \notin run[a].due /\ UNCHANGED marks
    /\ UNCHANGED <<length, bad, named, spoiled, governor, damages, following>>

\* FAULT: the run ends, and the next one starts as after a clean one.
FailQuietly(a) ==
    /\ run[a] # None
    /\ run[a].position + 1 \in bad
    /\ run' = [run EXCEPT ![a] = None]
    /\ UNCHANGED <<length, bad, named, spoiled, marks, following, governor,
                   replayed, damages>>

\* An entry, or a snapshot, that does not verify: recorded, and the governor
\* whose auditor found it writes nothing more.
Fail(a) ==
    /\ run[a] # None
    /\ run[a].position < run[a].until
    /\ LET next == run[a].position + 1 IN
         /\ \/ next \in bad
            \/ next \in run[a].due /\ next \in spoiled
         /\ Record(Mark("failed", next + (IF next \in bad THEN 0 ELSE 1)))
    /\ run' = [run EXCEPT ![a] = None]
    /\ following' = following \ {a}
    /\ governor' = IF a = InProcess /\ governor = "open" THEN "stopped" ELSE governor
    /\ UNCHANGED <<length, bad, named, spoiled, replayed, damages>>

Finish(a) ==
    /\ run[a] # None
    /\ run[a].position = run[a].until
    /\ Record(Mark("verified", run[a].until))
    /\ run' = [run EXCEPT ![a] = None]
    /\ UNCHANGED <<length, bad, named, spoiled, governor, replayed, damages, following>>

\* A stand-alone auditor is stopped: nothing is recorded for the run.
Stop(a) ==
    /\ a # InProcess /\ (run[a] # None \/ a \in following)
    /\ run' = [run EXCEPT ![a] = None]
    /\ following' = following \ {a}
    /\ UNCHANGED <<length, bad, named, spoiled, marks, governor, replayed, damages>>

-----------------------------------------------------------------------------
(* The disk, and the operator.                                             *)

DamageEntry ==
    /\ damages < MaxDamage
    /\ \E i \in (1..length) \ bad : bad' = bad \cup {i}
    /\ damages' = damages + 1
    /\ UNCHANGED <<length, named, spoiled, marks, run, governor, replayed, following>>

DamageSnapshot ==
    /\ damages < MaxDamage
    /\ \E s \in DOMAIN named \ spoiled : spoiled' = spoiled \cup {s}
    /\ damages' = damages + 1
    /\ UNCHANGED <<length, bad, named, marks, run, governor, replayed, following>>

Restore ==
    /\ bad \cup spoiled # {}
    /\ bad' = {} /\ spoiled' = {}
    /\ UNCHANGED <<length, named, marks, run, governor, replayed, damages, following>>

AuditNext ==
    \/ Open \/ CloseGovernor \/ Append1 \/ TakeCheckpoint
    \/ \E a \in Auditors :
         Follow(a) \/ Begin(a) \/ BeginAtGenesis(a)
         \/ Replay(a) \/ Fail(a) \/ Finish(a) \/ Stop(a)
    \/ DamageEntry \/ DamageSnapshot \/ Restore

AuditSpec == AuditInit /\ [][AuditNext]_auditVars

\* A stand-alone auditor that follows the ledger keeps running.
Fairness ==
    \A a \in Auditors \ {InProcess} :
        WF_auditVars(Begin(a) \/ Replay(a) \/ Fail(a) \/ Finish(a))

FairAuditSpec == AuditSpec /\ Fairness

-----------------------------------------------------------------------------
(* Properties.                                                             *)

\* A mark that says the chain verified up to a sequence is backed by replays:
\* every entry up to it was replayed and verified by some run, although that
\* run itself started at another auditor's mark.
VerifiedWasReplayed ==
    \A j \in DOMAIN marks :
        marks[j].status = "verified" => 1..marks[j].sequence \subseteq replayed

\* Damage no run has replayed is found: an auditor that keeps following the
\* ledger fails on it, unless it is restored first.
DamageIsFound ==
    \A a \in Auditors \ {InProcess}, i \in 1..MaxLength :
        (a \in following /\ i \in bad \ replayed) ~> (a \notin following \/ i \notin bad)

=============================================================================
