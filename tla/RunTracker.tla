----------------------------- MODULE RunTracker -----------------------------
(* RavienteRunTracker (raviente_run_tracker.go) over its table               *)
(* (repo_raviente_run.go): one channel's memory of the siege it has written  *)
(* down.  Every method runs under the tracker's mutex, so a call is a step;  *)
(* the caller decides when it happens.  A statement may fail, or be          *)
(* committed and still report an error.                                      *)
EXTENDS Naturals, Sequences, FiniteSets

CONSTANTS
    Kind, Unknown,  \* event kinds and RavienteRunKindUnknown
    Player,         \* characters that may enter a siege quest
    History,        \* ravienteTerminalGenerationHistory
    NoRun,          \* a nil trackedRavienteRun
    MaxFaults       \* bound: statements that report an error

VARIABLES
    boot,      \* which process this is; a generation starts over in each
    active,    \* the run the tracker believes is going on
    terminal,  \* generations it knows to be over, oldest first
    rows,      \* the table: a sequence indexed by run id
    faults     \* statements that have reported an error so far

trackerVars == <<boot, active, terminal, rows, faults>>

Run == [id : Nat, gen : Nat, kind : Kind \cup {Unknown}, team : SUBSET Player,
        closed : BOOLEAN]
Row == [siege : Nat \X Nat, status : {"active", "completed", "aborted"},
        kind : Kind \cup {Unknown}, team : SUBSET Player]

ASSUME TrackerAssumption ==
    /\ Unknown \notin Kind /\ NoRun \notin Run
    /\ History \in Nat \ {0} /\ MaxFaults \in Nat

TrackerTypeOK ==
    /\ boot \in Nat \ {0} /\ faults \in Nat
    /\ active \in Run \cup {NoRun} /\ terminal \in Seq(Nat) /\ rows \in Seq(Row)

Over(g) == \E i \in DOMAIN terminal : terminal[i] = g

\* markTerminalGeneration: the newest generations, each once.
MarkTerminal(g) ==
    IF Over(g) THEN terminal
    ELSE LET all == Append(terminal, g)
         IN IF Len(all) <= History THEN all ELSE Tail(all)

-----------------------------------------------------------------------------
(* The statements.                                                           *)

Done   == [applied |-> TRUE, ok |-> TRUE]
Failed == [applied |-> FALSE, ok |-> FALSE]
Lost   == [applied |-> TRUE, ok |-> FALSE]   \* committed, the answer is lost

Answers == {Done} \cup IF faults < MaxFaults THEN {Failed, Lost} ELSE {}

Count(a) == faults' = IF a.ok THEN faults ELSE faults + 1

\* Mutant: the update does not ask whether the run is still active.
EndAnyway(id, status) == [rows EXCEPT ![id].status = status]

\* UPDATE ... WHERE id = $1 AND status = 'active'
End(id, status) ==
    IF rows[id].status = "active" THEN [rows EXCEPT ![id].status = status] ELSE rows

\* raviente_runs_one_active_per_channel_idx
SomeActive(table) == \E i \in DOMAIN table : table[i].status = "active"

NewRow(g) == [siege |-> <<boot, g>>, status |-> "active", kind |-> Unknown, team |-> {}]
NewRun(g, id) == [id |-> id, gen |-> g, kind |-> Unknown, team |-> {}, closed |-> FALSE]

\* Mutant: the table has no such index.
OpenTwice(table, g, a) ==
    /\ rows' = IF a.applied THEN Append(table, NewRow(g)) ELSE table
    /\ active' = IF a.ok THEN NewRun(g, Len(table) + 1) ELSE NoRun

\* repo.Start on a table, and what Start makes of it; a second active run of the
\* channel is refused by the index.
Open(table, g, a) ==
    LET id == Len(table) + 1 IN
    /\ SomeActive(table) => a = Failed
    /\ rows' = IF a.applied THEN Append(table, NewRow(g)) ELSE table
    /\ active' = IF a.ok THEN NewRun(g, id) ELSE NoRun

\* repo.AddParticipant: only an active run of no other kind takes a hunter.
Enrolled(id, k, p) ==
    IF rows[id].status = "active" /\ rows[id].kind \in {k, Unknown}
    THEN [rows EXCEPT ![id].kind = k, ![id].team = @ \cup {p}]
    ELSE rows

\* repo.Complete: the team that could not be stored before goes in first.
Completed(id, k, team) ==
    IF rows[id].status = "active"
    THEN [rows EXCEPT ![id].status = "completed", ![id].kind = k,
                      ![id].team = @ \cup team]
    ELSE rows

-----------------------------------------------------------------------------
(* The tracker.                                                              *)

\* Mutant: a generation that is over may start again.
StartAgain(g) == active # NoRun /\ active.gen = g /\ ~active.closed

\* Start returns at once for a generation that is over or already running.
Known(g) == Over(g) \/ (active # NoRun /\ active.gen = g /\ ~active.closed)

\* Start with no older run in the way.
StartFirst(g) ==
    /\ ~Known(g) /\ active = NoRun
    /\ \E a \in Answers \cup (IF SomeActive(rows) THEN {Failed} ELSE {}) :
         /\ Open(rows, g, a)
         /\ faults' = IF a.ok \/ SomeActive(rows) THEN faults ELSE faults + 1
    /\ UNCHANGED <<boot, terminal>>

\* Start aborts the older run it finds first.  If that fails the old run stays,
\* marked closed; if it is a retry of the same generation no run is created.
StartNext(g) ==
    /\ ~Known(g) /\ active # NoRun
    /\ \E a \in Answers :
         LET table == IF a.applied THEN End(active.id, "aborted") ELSE rows IN
         IF ~a.ok
         THEN /\ rows' = table /\ active' = [active EXCEPT !.closed = TRUE]
              /\ Count(a) /\ UNCHANGED terminal
         ELSE /\ terminal' = MarkTerminal(active.gen)
              /\ IF active.gen = g
                 THEN rows' = table /\ active' = NoRun /\ UNCHANGED faults
                 ELSE \E b \in Answers \cup (IF SomeActive(table) THEN {Failed} ELSE {}) :
                        /\ Open(table, g, b)
                        /\ faults' = IF b.ok \/ SomeActive(table) THEN faults
                                     ELSE faults + 1
    /\ UNCHANGED boot

StartRun(g) == \/ Known(g) /\ UNCHANGED trackerVars
            \/ StartFirst(g)
            \/ StartNext(g)

\* ObserveQuestParticipant: a hunter counts once, the first one fixes the kind;
\* what the table refuses stays in memory for Complete.
Observe(k, p) ==
    /\ active # NoRun /\ ~active.closed
    /\ active.kind \in {k, Unknown} /\ p \notin active.team
    /\ active' = [active EXCEPT !.kind = k, !.team = @ \cup {p}]
    /\ \E a \in Answers :
         /\ rows' = IF a.applied THEN Enrolled(active.id, k, p) ELSE rows
         /\ Count(a)
    /\ UNCHANGED <<boot, terminal>>

\* A call for a generation that is not the active one only leaves a tombstone.
Stale(g) == active # NoRun => active.gen # g

Tombstone(g) ==
    /\ Stale(g)
    /\ terminal' = MarkTerminal(g)
    /\ UNCHANGED <<boot, active, rows, faults>>

\* repo.Abort for the active run; an error leaves it, closed.
AbortActive(g) ==
    \E a \in Answers :
        /\ rows' = IF a.applied THEN End(active.id, "aborted") ELSE rows
        /\ Count(a)
        /\ IF a.ok THEN active' = NoRun /\ terminal' = MarkTerminal(g)
           ELSE active' = [active EXCEPT !.closed = TRUE] /\ UNCHANGED terminal
        /\ UNCHANGED boot

Abort(g) == Tombstone(g) \/ (~Stale(g) /\ AbortActive(g))

\* Complete: a run nobody entered is aborted; an error leaves the run open, so
\* that the teardown may try again.
Complete(g) ==
    \/ Tombstone(g)
    \/ ~Stale(g) /\ active.closed /\ UNCHANGED trackerVars
    \/ /\ ~Stale(g) /\ ~active.closed
       /\ active.kind = Unknown \/ active.team = {}
       /\ AbortActive(g)
    \/ /\ ~Stale(g) /\ ~active.closed
       /\ active.kind # Unknown /\ active.team # {}
       /\ \E a \in Answers :
            /\ rows' = IF a.applied THEN Completed(active.id, active.kind, active.team)
                       ELSE rows
            /\ Count(a)
            /\ IF a.ok THEN active' = NoRun /\ terminal' = MarkTerminal(g)
               ELSE UNCHANGED <<active, terminal>>
       /\ UNCHANGED boot

\* Initialize in a new process: what an older one left active is aborted; an
\* error is logged and the channel starts all the same.
Initialize ==
    /\ boot' = boot + 1
    /\ active' = NoRun /\ terminal' = <<>>
    /\ \E a \in Answers :
         /\ rows' = IF a.applied
                    THEN [i \in DOMAIN rows |->
                            [rows[i] EXCEPT !.status = IF @ = "active" THEN "aborted" ELSE @]]
                    ELSE rows
         /\ Count(a)

TrackerInit ==
    /\ boot = 1 /\ active = NoRun /\ terminal = <<>>
    /\ rows = <<>> /\ faults = 0
=============================================================================
