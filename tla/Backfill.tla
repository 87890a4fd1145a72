------------------------------- MODULE Backfill -------------------------------
(***************************************************************************)
(* cmd/backfill-incidents for one service: the incidents are reconstructed *)
(* from the snapshots of status.json in the git trail and written, one     *)
(* statement at a time, to the table the live server writes to as well.    *)
(* The command may die and be run again.                                   *)
(***************************************************************************)
EXTENDS Integers, FiniteSets, Sequences

CONSTANTS
    MaxTime,       \* bound: times of changes in the trail
    MaxSnapshots,  \* bound: snapshots in the trail
    MaxRuns,       \* bound: runs of the command
    Afters,        \* the values of -after; 0 is none
    Faults,        \* may runs before the last one die, or their statements fail?
    Live           \* does a server write to the table too?

ASSUME BackfillAssumption ==
    /\ {MaxTime, MaxSnapshots, MaxRuns} \union Afters \subseteq Nat
    /\ Faults \in BOOLEAN
    /\ Live \in BOOLEAN

VARIABLES
    trail,     \* the snapshots of the service, oldest first
    table,     \* its incidents, by id
    stage,     \* what the command does next
    after,     \* -after of the present run, or of the last one
    next,      \* incidents that began before have been dealt with; 0 is no run, or a dead one
    runs,      \* runs begun
    disturbed, \* history: a Resolve was lost or hit another row than its own
    blind      \* history: a failed query was taken for a row that is not there

backfillVars == <<trail, table, stage, after, next, runs, disturbed, blind>>

LiveTime == MaxTime + 1    \* the server's outage comes after the trail ...
LiveUpTime == MaxTime + 2  \* ... and so does its recovery
Unset == MaxTime + 3       \* resolved_at IS NULL

\* changed = 0: the snapshot has no entry or no time for the service.
NoEntry == [status |-> "ok", changed |-> 0]
Snapshot == [status : {"ok", "error", "timeout"}, changed : 1 .. MaxTime] \union {NoEntry}

\* status.json keeps the time of the last change with the status: in a later
\* snapshot it is the same entry, or a later change.
Follows(later, e) == later = NoEntry \/ later = e \/ later.changed > e.changed

Trails ==
    {s \in UNION {[1 .. n -> Snapshot] : n \in 0 .. MaxSnapshots} :
       \A i, j \in DOMAIN s : i < j => Follows(s[j], s[i])}

-----------------------------------------------------------------------------
(* reconstruct.                                                            *)

Start == [down |-> FALSE, status |-> "error", started |-> 0, lastChanged |-> 0, out |-> {}]

Opened(acc, e) == [acc EXCEPT !.down = TRUE, !.status = e.status, !.started = e.changed]
Closed(acc, e) ==
    [acc EXCEPT !.down = FALSE,
                !.out = @ \union {[status |-> acc.status, started |-> acc.started,
                                   resolved |-> e.changed]}]

\* Mutant: a change of the kind of failure begins a new incident.
Pair_Restarts(acc, e) ==
    IF e.status # "ok" THEN Opened(acc, e) ELSE IF acc.down THEN Closed(acc, e) ELSE acc

\* A failure opens an incident unless one is open, a recovery closes it.
Pair(acc, e) ==
    CASE e.status # "ok" /\ ~acc.down -> Opened(acc, e)
      [] e.status = "ok" /\ acc.down -> Closed(acc, e)
      [] OTHER -> acc

\* Snapshots without news are passed over.
ReadSnapshot(acc, e) ==
    IF e = NoEntry \/ e.changed = acc.lastChanged
    THEN acc
    ELSE [Pair(acc, e) EXCEPT !.lastChanged = e.changed]

\* What is known after the first n snapshots.
Reading(s) ==
    LET read[n \in 0 .. Len(s)] ==
            IF n = 0 THEN Start ELSE ReadSnapshot(read[n - 1], s[n])
    IN  read

\* The incident still open at the end of the trail comes without resolved_at.
Reconstruct(s) ==
    LET acc == Reading(s)[Len(s)]
    IN  IF acc.down
        THEN acc.out \union {[status |-> acc.status, started |-> acc.started, resolved |-> Unset]}
        ELSE acc.out

Incidents == Reconstruct(trail)

\* Filtered by -after and sorted by started_at: those the command has not come to,
\* and the first of them.
Left == {in \in Incidents : in.started >= after /\ in.started >= next}
In == CHOOSE in \in Left : \A later \in Left : in.started <= later.started

-----------------------------------------------------------------------------
(* The command.                                                            *)

BackfillInit ==
    /\ trail \in Trails
    /\ table = <<>>
    /\ stage = "idle"
    /\ after = 0
    /\ next = 0
    /\ runs = 0
    /\ disturbed = FALSE
    /\ blind = FALSE

\* A run whose -only leaves the service out is none of its runs.
Run ==
    /\ stage = "idle"
    /\ runs < MaxRuns
    /\ runs' = runs + 1
    /\ stage' = "find"
    /\ after' \in Afters
    /\ next' = 1
    /\ UNCHANGED <<trail, table, disturbed, blind>>

MayFail == Faults /\ runs < MaxRuns

Proceed == stage' = "find" /\ next' = In.started + 1

\* Mutant: only open rows are looked at.
Found_Open == \E id \in DOMAIN table : table[id].started = In.started /\ table[id].resolved = Unset

Found == \E id \in DOMAIN table : table[id].started = In.started

\* findID; rows that are there are skipped, and an error of any kind means that
\* there is none.
FindID ==
    /\ stage = "find"
    /\ Left # {}
    /\ \/ Found /\ Proceed /\ UNCHANGED blind
       \/ ~Found /\ stage' = "open" /\ UNCHANGED <<next, blind>>
       \/ Faults /\ Found /\ stage' = "open" /\ blind' = TRUE /\ UNCHANGED next
    /\ UNCHANGED <<trail, table, after, runs, disturbed>>

Inserted ==
    table' = Append(table, [status |-> In.status, started |-> In.started, resolved |-> Unset])

\* store.Open; an error goes on to the next incident, also when only the answer to
\* an insert that was made is lost: its Resolve is left out, then.
OpenRow ==
    /\ stage = "open"
    /\ \/ /\ Inserted
          /\ IF In.resolved # Unset THEN stage' = "resolve" /\ UNCHANGED next ELSE Proceed
          /\ UNCHANGED disturbed
       \/ MayFail /\ Proceed /\ UNCHANGED <<table, disturbed>>
       \/ MayFail /\ Proceed /\ Inserted /\ disturbed' = (disturbed \/ In.resolved # Unset)
    /\ UNCHANGED <<trail, after, runs, blind>>

\* The most recent of the open rows, or one of them.
OpenRows ==
    LET open == {id \in DOMAIN table : table[id].resolved = Unset}
    IN  {id \in open : \A i \in open : table[id].started >= table[i].started}

Resolve(at) ==
    IF OpenRows = {} THEN UNCHANGED table
    ELSE \E id \in OpenRows : table' = [table EXCEPT ![id].resolved = at]

\* store.Resolve; an error is only printed.
ResolveRow ==
    /\ stage = "resolve"
    /\ \/ /\ Resolve(In.resolved)
          /\ disturbed' = (disturbed \/ \E id \in OpenRows : table[id].started # In.started)
       \/ MayFail /\ disturbed' = TRUE /\ UNCHANGED table
    /\ Proceed
    /\ UNCHANGED <<trail, after, runs, blind>>

Finish ==
    /\ stage = "find"
    /\ Left = {}
    /\ stage' = "idle"
    /\ UNCHANGED <<trail, table, after, next, runs, disturbed, blind>>

\* The process ends in the middle of its work.
Dies ==
    /\ MayFail
    /\ stage # "idle"
    /\ stage' = "idle"
    /\ next' = 0
    /\ disturbed' = (disturbed \/ stage = "resolve")
    /\ UNCHANGED <<trail, table, after, runs, blind>>

-----------------------------------------------------------------------------
(* The server: an outage after the trail, and its recovery.                *)

LiveRow(id) == table[id].started = LiveTime
LiveRecorded == \E id \in DOMAIN table : LiveRow(id)

LiveDown ==
    /\ Live
    /\ ~LiveRecorded
    /\ table' = Append(table, [status |-> "error", started |-> LiveTime, resolved |-> Unset])
    /\ UNCHANGED <<trail, stage, after, next, runs, disturbed, blind>>

\* OnRecovered comes to the same Resolve.
LiveUp ==
    /\ LiveRecorded
    /\ \A id \in DOMAIN table : table[id].resolved # LiveUpTime
    /\ Resolve(LiveUpTime)
    /\ UNCHANGED <<trail, stage, after, next, runs, disturbed, blind>>

BackfillNext ==
    \/ Run \/ FindID \/ OpenRow \/ ResolveRow \/ Finish \/ Dies
    \/ LiveDown \/ LiveUp

BackfillSpec == BackfillInit /\ [][BackfillNext]_backfillVars

-----------------------------------------------------------------------------
(* Properties.                                                             *)

BackfillTypeOK ==
    /\ trail \in Trails
    /\ table \in Seq([status : {"error", "timeout"}, started : 1 .. LiveTime, resolved : 1 .. Unset])
    /\ stage \in {"idle", "find", "open", "resolve"}
    /\ after \in Afters \union {0}
    /\ next \in 0 .. LiveTime
    /\ runs \in 0 .. MaxRuns
    /\ disturbed \in BOOLEAN
    /\ blind \in BOOLEAN

\* What the trail says of a time: the last change up to it was to a failure.
DownAt(t) ==
    \E i \in DOMAIN trail :
        /\ trail[i].status # "ok"
        /\ trail[i].changed \in 1 .. t
        /\ \A j \in DOMAIN trail : trail[j].changed \in 1 .. t => trail[j].changed <= trail[i].changed

\* The table has the service down exactly when the trail has, by one row at a
\* time.
TableIsTrail ==
    \A t \in 1 .. MaxTime :
        Cardinality({id \in DOMAIN table : table[id].started <= t /\ t < table[id].resolved})
            = IF DownAt(t) THEN 1 ELSE 0

\* A run without -after has come to its end, and nothing can fail it.
Complete == stage = "idle" /\ next > 0 /\ ~MayFail /\ after = 0

\* Once a full run has come to its end, the table tells what the trail tells,
\* whatever became of the runs before, and whatever their -after was.
\* Resolve does not name its row, so this leaves out the runs in which one was
\* lost after its Open, or closed the row of a later outage: of the live server,
\* or one that an earlier run has left; and the ones in which a row that is there
\* was written again.
TableTellsTrail == Complete /\ ~disturbed /\ ~blind => TableIsTrail

\* "Idempotent: an incident with the same (service_key, started_at) is skipped":
\* one row for an incident, however often the command runs.
Idempotent ==
    \A i, j \in DOMAIN table : table[i].started = table[j].started => i = j

\* So it is, however often the command fails or dies and whatever the server
\* writes, as long as no query of findID fails for a row that is there.
OneRowEach == ~blind => Idempotent

\* The command "reconstructs the incident history from the git trail", and
\* another run only skips what is there: the same without the proviso, which a
\* run with -after and a full one break between themselves.
HistoryReconstructed == Complete => TableIsTrail

=============================================================================
