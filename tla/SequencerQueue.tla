--------------------------- MODULE SequencerQueue ---------------------------
(***************************************************************************)
(* The sequencer's task queue: SequencerServiceImpl's queue operations     *)
(* (plugins/sequencer/service.py) and the file they are persisted to       *)
(* (plugins/sequencer/store.py).                                           *)
(*                                                                         *)
(* A queue entry is a task id; its definition is abstracted to the number  *)
(* of frames each lane (camera) has to take, its runtime to its status and *)
(* the frames each lane has counted.  Every operation ends with commit(),  *)
(* which never suspends: an operation is one atomic step, and what it      *)
(* changed is on disk when it is over.  Only the frame counts can be ahead *)
(* of the file (a frame is counted before the runner's next commit), so    *)
(* the file is represented by savedDone alone.                             *)
(***************************************************************************)
EXTENDS Naturals, FiniteSets

CONSTANTS
  Tasks,     \* the ids the service hands out, one per entry ever created
  Lanes,     \* the lane slots of a task
  Primary,   \* lanes[0], which drives the mount
  Initial,   \* the entries the queue file holds at first
  Plans,     \* the task definitions clients submit: frames per lane
  Edits      \* the queue operations clients use (an environment choice)

ASSUME PrimaryAssumption == Primary \in Lanes
ASSUME TasksAssumption == IsFiniteSet(Tasks) /\ Initial \subseteq Tasks
\* Model validation refuses an empty group list, so lanes[0] always exists; a
\* lane with no frame stands for a lane the task does not have.
ASSUME PlansAssumption == Plans \subseteq [Lanes -> Nat]
ASSUME PlansHavePrimary == \A p \in Plans : p[Primary] > 0

VARIABLES
  status,     \* runtime.status of each id; "absent": not created, "removed": deleted
  rank,       \* position in the list _entries
  plan,       \* frames wanted per lane (task.lanes[i].groups[*].count)
  done,       \* frames counted per lane (runtime.lanes[i].groups[*].frames_done)
  savedDone   \* the frame counts in the queue file

queueVars == <<status, rank, plan, done, savedDone>>

TaskStatus == {"pending", "running", "completed", "interrupted", "skipped", "failed"}
Gone == {"absent", "removed"}
Runnable == {"pending", "interrupted"}
Switchable == Runnable \cup {"failed", "skipped"}

Entries == {t \in Tasks : status[t] \notin Gone}
Ranks == {r \in [Tasks -> 1..Cardinality(Tasks)] :
            \A t, u \in Tasks : r[t] = r[u] => t = u}

NoFrames == [l \in Lanes |-> 0]
Left(t, l) == IF done[t][l] < plan[t][l] THEN plan[t][l] - done[t][l] ELSE 0

\* remaining_frames(): what is left on lanes[0], the other lanes are not looked at.
RemainingFrames(t) == Left(t, Primary)
\* next_group_of(lane) is not None for some lane of the task.
FramesLeft(t) == \E l \in Lanes : Left(t, l) > 0
\* TaskRuntime.frames_done() > 0
HasProgress(t) == \E l \in Lanes : done[t][l] > 0

\* Seeded fault: the running entry can be edited.
EditableAnytime(t) == t \in Entries

\* _check_not_running(): the entry exists and is not being executed.
Editable(t) == t \in Entries /\ status[t] # "running"

QueueTypeOK ==
  /\ status \in [Tasks -> TaskStatus \cup Gone]
  /\ rank \in Ranks
  /\ plan \in [Tasks -> Plans]
  /\ done \in [Tasks -> [Lanes -> Nat]]
  /\ savedDone \in [Tasks -> [Lanes -> Nat]]

QueueInit ==
  /\ status = [t \in Tasks |-> IF t \in Initial THEN "pending" ELSE "absent"]
  /\ rank \in Ranks
  /\ plan \in [Tasks -> Plans]
  /\ done = [t \in Tasks |-> NoFrames]
  /\ savedDone = done

\* The list order of the entries in S is not changed by the step.
KeepsOrder(S) == \A t, u \in S : rank[t] < rank[u] <=> rank'[t] < rank'[u]

\* add / insert_next / duplicate: a fresh entry is inserted at some position;
\* the three differ only in the position they compute.
Add(t) ==
  /\ "add" \in Edits
  /\ status[t] = "absent"
  /\ status' = [status EXCEPT ![t] = "pending"]
  /\ rank' \in Ranks /\ KeepsOrder(Entries)
  /\ \E p \in Plans : plan' = [plan EXCEPT ![t] = p]
  /\ done' = [done EXCEPT ![t] = NoFrames]
  /\ savedDone' = done'

\* update: a new definition; lanes whose groups still match keep their frames.
\* A completed task that now has frames left on lanes[0] becomes runnable again.
Update(t) ==
  /\ "update" \in Edits
  /\ Editable(t)
  /\ \E p \in Plans, kept \in SUBSET Lanes :
       /\ plan' = [plan EXCEPT ![t] = p]
       /\ done' = [done EXCEPT ![t] =
                     [l \in Lanes |-> IF l \in kept THEN done[t][l] ELSE 0]]
  /\ status' = [status EXCEPT ![t] =
                  IF @ = "completed" /\ RemainingFrames(t)' > 0
                  THEN IF HasProgress(t)' THEN "interrupted" ELSE "pending"
                  ELSE @]
  /\ savedDone' = done'
  /\ UNCHANGED rank

Remove(t) ==
  /\ "remove" \in Edits
  /\ Editable(t)
  /\ status' = [status EXCEPT ![t] = "removed"]
  /\ savedDone' = done
  /\ UNCHANGED <<rank, plan, done>>

Reorder ==
  /\ "reorder" \in Edits
  /\ rank' \in Ranks
  /\ savedDone' = done
  /\ UNCHANGED <<status, plan, done>>

ResetProgress(t) ==
  /\ "reset" \in Edits
  /\ Editable(t)
  /\ status' = [status EXCEPT ![t] = "pending"]
  /\ done' = [done EXCEPT ![t] = NoFrames]
  /\ savedDone' = done'
  /\ UNCHANGED <<rank, plan>>

SetSkipped(t) ==
  /\ "set_status" \in Edits
  /\ Editable(t)
  /\ status' = [status EXCEPT ![t] = "skipped"]
  /\ savedDone' = done
  /\ UNCHANGED <<rank, plan, done>>

\* set_status(task, "pending"): runnable again with its progress, or completed
\* when lanes[0] has nothing left.
PendingStatus(t) ==
  IF RemainingFrames(t) = 0 THEN "completed"
  ELSE IF HasProgress(t) THEN "interrupted" ELSE "pending"

SetPending(t) ==
  /\ "set_status" \in Edits
  /\ Editable(t)
  /\ status' = [status EXCEPT ![t] = PendingStatus(t)]
  /\ savedDone' = done
  /\ UNCHANGED <<rank, plan, done>>

\* clear: every entry in one of the wanted statuses, never the running one.
Clear ==
  /\ "clear" \in Edits
  /\ \E wanted \in SUBSET (TaskStatus \ {"running"}) :
       status' = [t \in Tasks |-> IF status[t] \in wanted THEN "removed" ELSE status[t]]
  /\ savedDone' = done
  /\ UNCHANGED <<rank, plan, done>>

QueueEdit ==
  \/ \E t \in Tasks : \/ Add(t) \/ Update(t) \/ Remove(t) \/ ResetProgress(t)
                      \/ SetSkipped(t) \/ SetPending(t)
  \/ Reorder
  \/ Clear

\* The process starts again from the file (QueueStore.load): a task left running
\* becomes interrupted, its progress is what the file holds.  From a file that cannot
\* be read, or is of another version, it starts with an empty queue.
Load(readable) ==
  /\ status' = [t \in Tasks |->
                 IF t \in Entries /\ ~readable THEN "removed"
                 ELSE IF status[t] = "running" THEN "interrupted" ELSE status[t]]
  /\ done' = savedDone
  /\ UNCHANGED <<rank, plan, savedDone>>
=============================================================================
