----------------------------- MODULE LocalState -----------------------------
(***************************************************************************)
(* The files and the database FuzeCLI keeps its own state in, each under   *)
(* the concurrent requests of the local server and the commands run beside *)
(* it:                                                                     *)
(*   "config"      config.yaml (internal/config/config.go)                 *)
(*   "state"       .aicli/state.json (internal/workspace/store.go)         *)
(*   "agent"       .aicli/agent_state.json (internal/agent/tier4_runtime)  *)
(*   "checkpoint"  .aicli/checkpoints/<task>.json (tool_runtime.go)        *)
(*   "memory"      .aicli/memory.json (internal/platform/memory.go)        *)
(*   "rows"        messages and touched files in session.db (store.go)     *)
(*                                                                         *)
(* A file is saved by writing a temporary file and renaming it.  A name is *)
(* bound to an inode, and a writer holds the inode it opened: two writers  *)
(* of one temporary name write the same inode, whatever it is called by    *)
(* then.  The stores are independent, so a behaviour is about one of them. *)
(***************************************************************************)
EXTENDS Integers, FiniteSets, Sequences

CONSTANTS Clients,   \* server requests and commands
          Server,    \* the clients that are requests of the server
          Attempts,  \* executions of a statement the database is busy for
          MaxOps,    \* bound on operations, the file as found counted as one
          MaxFaults  \* bound on failing operations

ASSUME StateAssumption ==
  /\ Server \subseteq Clients
  /\ Attempts \in Nat \ {0} /\ MaxOps \in Nat \ {0} /\ MaxFaults \in Nat

VARIABLES kind,      \* the store
          published, \* the inode the store's file name is bound to
          temps,     \* temporary name -> inode
          data,      \* inode -> content
          rows,      \* the rows, in order
          mu,        \* process -> holder of its Store.writeMu
          task,      \* client -> its operation in progress, or Idle
          next,      \* the next operation
          acked,     \* history: operations answered with success
          overlap,   \* history: two operations were in progress at once
          blanked,   \* history: a session was saved over an unread state
          faults     \* operations that failed so far

fileVars == <<published, temps, data>>
history == <<next, acked, overlap, blanked>>
vars == <<kind, fileVars, rows, mu, task, history, faults>>

None == 0
Inodes == 1 .. 2 * MaxOps + 2
Migrated == 0  \* the mark of a configuration in today's form

\* pc: the next step; way: what the operation does; op: its number; loaded:
\* what it read; saving: "first" (defaults, a migration) or "own"; fd: the
\* inode it writes; at: executions so far.
Idle == [pc |-> "idle", way |-> "none", op |-> 0, loaded |-> {}, saving |-> "own",
         fd |-> None, at |-> 0]

\* A content is the set of operations whose effect it holds, if it is whole.
Content(form, ops) == [form |-> form, ops |-> ops]
Blank == Content("empty", {})
Torn == Content("torn", {})

Kinds == {"config", "state", "agent", "checkpoint", "memory", "rows"}
Ways == [config |-> {"update"}, state |-> {"update", "session"}, agent |-> {"update"},
         checkpoint |-> {"replace"}, memory |-> {"replace"}, rows |-> {"message", "touched"}]

Init ==
  /\ kind \in Kinds
  /\ published \in IF kind = "rows" THEN {None} ELSE {None, 1}
  /\ \E found \in IF kind = "config" THEN {{1}, {1, Migrated}} ELSE {{1}} :
       data = [i \in Inodes |-> IF i = published THEN Content("whole", found) ELSE Blank]
  /\ temps = [t \in 0 .. MaxOps |-> None]
  /\ rows = << >> /\ mu = [p \in Clients \cup {"server"} |-> "free"]
  /\ task = [c \in Clients |-> Idle]
  /\ next = 2 /\ acked = IF published = 1 THEN {1} ELSE {}
  /\ overlap = FALSE /\ blanked = FALSE /\ faults = 0

-----------------------------------------------------------------------------
Busy == {c \in Clients : task[c] # Idle}
At(c, label) == task[c].pc = label
Becomes(c, t) == task' = [task EXCEPT ![c] = t]
Goto(c, label) == task' = [task EXCEPT ![c].pc = label]
Fault == faults < MaxFaults /\ faults' = faults + 1
NoFault == UNCHANGED faults

\* The operation returns an error, or success.
Fails(c) == Becomes(c, Idle) /\ UNCHANGED acked
Succeeds(c) == Becomes(c, Idle) /\ acked' = acked \cup {task[c].op}

FirstStep == CASE kind = "rows" -> "lock"
               [] kind \in {"checkpoint", "memory"} -> "open"
               [] OTHER -> "load"

Start(c) ==
  /\ task[c] = Idle /\ next <= MaxOps
  /\ next' = next + 1
  /\ overlap' = (overlap \/ Busy # {})
  /\ \E w \in Ways[kind] :
       Becomes(c, [Idle EXCEPT !.pc = FirstStep, !.way = w, !.op = next])
  /\ UNCHANGED <<kind, fileVars, rows, mu, acked, blanked, faults>>

-----------------------------------------------------------------------------
(* Reading.                                                                *)
Read == IF published = None THEN Content("absent", {}) ELSE data[published]

DefaultsOnly(ops) == {Migrated}  \* as a bug would: what the file said is dropped
Loaded(ops) == IF kind = "config" THEN ops \cup {Migrated} ELSE ops

Reads(c, ops, which) ==
  /\ Becomes(c, [task[c] EXCEPT !.pc = "open", !.loaded = ops, !.saving = which])
  /\ UNCHANGED <<acked, blanked>>

\* RefreshHashes and the memory tools stop at a file they cannot read; the
\* session record ignores the error and starts from an empty state.
Unread(c) ==
  /\ IF task[c].way = "session"
     THEN Goto(c, "open") /\ blanked' = TRUE /\ UNCHANGED acked
     ELSE Fails(c) /\ UNCHANGED blanked

\* The configuration's parser takes an empty file for the defaults and of a
\* torn one what it can.  A missing or an old configuration is saved first.
LoadConfig(c) ==
  \/ Read.form = "absent" /\ Reads(c, Loaded({}), "first")
  \/ Read.form = "empty" /\ Reads(c, Loaded({}), "own")
  \/ /\ Read.form = "torn"
     /\ \/ \E ops \in SUBSET (1 .. next - 1) : Reads(c, Loaded(ops), "own")
        \/ Unread(c)
  \/ /\ Read.form = "whole"
     /\ Reads(c, Loaded(Read.ops), IF Migrated \in Read.ops THEN "own" ELSE "first")

LoadJSON(c) ==
  IF Read.form \in {"absent", "whole"} THEN Reads(c, Read.ops, "own") ELSE Unread(c)

Load(c) ==
  /\ At(c, "load")
  /\ \/ NoFault /\ IF kind = "config" THEN LoadConfig(c) ELSE LoadJSON(c)
     \/ Fault /\ Unread(c)
  /\ UNCHANGED <<kind, fileVars, rows, mu, next, overlap>>

-----------------------------------------------------------------------------
(* Saving: os.WriteFile of a temporary file, then os.Rename.               *)
SharedName(c) == 0  \* as a bug would
\* One name for the file, but in project memory a new one each time.
TmpName(c) == IF kind = "memory" THEN task[c].op ELSE 0

\* An invalid value, an unknown id, a preview, a memory over 256 KiB.
Refuse(c) ==
  /\ At(c, "open") /\ task[c].saving = "own" /\ kind \notin {"rows", "state"}
  /\ Fails(c)
  /\ UNCHANGED <<kind, fileVars, rows, mu, next, overlap, blanked, faults>>

Used == {published} \cup {temps[t] : t \in DOMAIN temps} \cup {task[c].fd : c \in Busy}
Fresh == CHOOSE i \in Inodes : i \notin Used

Open(c) ==
  /\ At(c, "open")
  /\ \/ /\ NoFault /\ UNCHANGED acked
        /\ LET i == IF temps[TmpName(c)] = None THEN Fresh ELSE temps[TmpName(c)]
           IN  /\ temps' = [temps EXCEPT ![TmpName(c)] = i]
               /\ data' = [data EXCEPT ![i] = Blank]
               /\ Becomes(c, [task[c] EXCEPT !.pc = "write", !.fd = i])
     \/ Fault /\ Fails(c) /\ UNCHANGED <<temps, data>>
  /\ UNCHANGED <<kind, published, rows, mu, next, overlap, blanked>>

Saved(c) ==
  Content("whole", task[c].loaded \cup (IF task[c].saving = "own" THEN {task[c].op} ELSE {}))

\* Over what another writer put there, a shorter content leaves its tail.
Write(c) ==
  /\ At(c, "write")
  /\ \/ /\ NoFault /\ Goto(c, "rename") /\ UNCHANGED <<acked, temps>>
        /\ \E after \in {Saved(c)} \cup (IF data[task[c].fd] = Blank THEN {} ELSE {Torn}) :
             data' = [data EXCEPT ![task[c].fd] = after]
     \/ /\ Fault /\ Fails(c)
        /\ data' = [data EXCEPT ![task[c].fd] = Torn]
        /\ temps' = IF kind = "memory" THEN [temps EXCEPT ![TmpName(c)] = None] ELSE temps
  /\ UNCHANGED <<kind, published, rows, mu, next, overlap, blanked>>

RenameFails(c) ==
  /\ IF kind = "state" THEN Fails(c) ELSE Goto(c, "unlink") /\ UNCHANGED acked
  /\ UNCHANGED <<published, temps>>

\* Afterwards the agent state is made private, which may fail too.
Renamed(c) ==
  /\ published' = temps[TmpName(c)]
  /\ temps' = [temps EXCEPT ![TmpName(c)] = None]
  /\ \/ /\ NoFault
        /\ IF task[c].saving = "own" THEN Succeeds(c)
           ELSE /\ Becomes(c, [task[c] EXCEPT !.pc = "open", !.saving = "own"])
                /\ UNCHANGED acked
     \/ kind = "agent" /\ Fault /\ Fails(c)

Rename(c) ==
  /\ At(c, "rename")
  /\ IF temps[TmpName(c)] = None THEN RenameFails(c) /\ NoFault
     ELSE Renamed(c) \/ (Fault /\ RenameFails(c))
  /\ UNCHANGED <<kind, data, rows, mu, next, overlap, blanked>>

\* Whatever the temporary name is bound to by now.
Unlink(c) ==
  /\ At(c, "unlink") /\ Fails(c)
  /\ temps' = [temps EXCEPT ![TmpName(c)] = None]
  /\ UNCHANGED <<kind, published, data, rows, mu, next, overlap, blanked, faults>>

-----------------------------------------------------------------------------
(* Store.write: one writer of a process at a time, eight attempts.         *)
Process(c) == IF c \in Server THEN "server" ELSE c

Lock(c) ==
  /\ At(c, "lock") /\ mu[Process(c)] = "free"
  /\ mu' = [mu EXCEPT ![Process(c)] = c]
  /\ Goto(c, "exec")
  /\ UNCHANGED <<kind, fileVars, rows, history, faults>>

\* What an operation inserts: a message, or two paths (INSERT OR IGNORE).
Statements(c) ==
  IF task[c].way = "message" THEN <<"message">> ELSE <<"first path", "second path">>
InsertsAgain(c, i) == Append(rows, <<task[c].op, Statements(c)[i]>>)  \* as a bug would

Inserted(c, i) ==
  LET row == <<task[c].op, Statements(c)[i]>>
  IN  IF task[c].way = "touched" /\ row \in {rows[k] : k \in DOMAIN rows} THEN rows
      ELSE Append(rows, row)

NeverGivesUp(c) == FALSE  \* as a bug would
GivesUp(c) == task[c].at + 1 = Attempts

Return(c, ok) ==
  /\ mu' = [mu EXCEPT ![Process(c)] = "free"]
  /\ IF ok THEN Succeeds(c) ELSE Fails(c)

\* The database is busy: the whole operation is run again.
RunAgain(c) ==
  /\ UNCHANGED rows
  /\ IF GivesUp(c) THEN Return(c, FALSE)
     ELSE /\ Becomes(c, [task[c] EXCEPT !.pc = "exec", !.at = (@ + 1) % Attempts])
          /\ UNCHANGED <<mu, acked>>

\* The statements before one that fails keep their effect.
Exec(c) ==
  /\ At(c, "exec")
  /\ \/ /\ NoFault
        /\ \/ rows' = Inserted(c, 1) /\ task[c].way = "message" /\ Return(c, TRUE)
           \/ /\ rows' = Inserted(c, 1) /\ task[c].way = "touched"
              /\ Goto(c, "second") /\ UNCHANGED <<mu, acked>>
     \/ NoFault /\ RunAgain(c)
     \/ Fault /\ Return(c, FALSE) /\ UNCHANGED rows
  /\ UNCHANGED <<kind, fileVars, next, overlap, blanked>>

ExecSecond(c) ==
  /\ At(c, "second")
  /\ \/ NoFault /\ rows' = Inserted(c, 2) /\ Return(c, TRUE)
     \/ NoFault /\ RunAgain(c)
     \/ Fault /\ Return(c, FALSE) /\ UNCHANGED rows
  /\ UNCHANGED <<kind, fileVars, next, overlap, blanked>>

-----------------------------------------------------------------------------
(* A process dies with every operation it had in progress.                 *)
Crash(p) ==
  /\ \E c \in Busy : Process(c) = p
  /\ task' = [c \in Clients |-> IF Process(c) = p THEN Idle ELSE task[c]]
  /\ mu' = [mu EXCEPT ![p] = "free"]
  /\ UNCHANGED <<kind, fileVars, rows, history, faults>>

Works(c) == \/ Load(c) \/ Refuse(c) \/ Open(c) \/ Write(c) \/ Rename(c) \/ Unlink(c)
            \/ Lock(c) \/ Exec(c) \/ ExecSecond(c)

Next == \/ \E c \in Clients : Start(c) \/ Works(c)
        \/ \E p \in {Process(c) : c \in Clients} : Crash(p)

Spec == Init /\ [][Next]_vars

\* Nothing an operation does blocks for ever but the mutex, whose holder
\* takes its own steps.
StoreFairness == \A c \in Clients : WF_vars(Works(c))

-----------------------------------------------------------------------------
TypeOK ==
  /\ published \in Inodes \cup {None}
  /\ data \in [Inodes -> [form : {"whole", "empty", "torn"}, ops : SUBSET (0 .. MaxOps)]]
  /\ acked \subseteq 1 .. MaxOps /\ next \in 2 .. MaxOps + 1

(* As long as no two operations on a file were in progress at once, it is  *)
(* whole, and nothing that was answered with success is missing from it:   *)
(* across crashes, failing writes, renames that left a temporary file      *)
(* behind, first runs and migrated configurations.  (A session record      *)
(* that could not read state.json drops the hashes, app.go:396.)           *)
UpdatesKept ==
  (kind # "rows" /\ ~overlap /\ ~blanked) =>
    /\ Read.form \in {"absent", "whole"}
    /\ \A o \in acked : IF kind \in {"checkpoint", "memory"}
                        THEN \E later \in Read.ops : o <= later
                        ELSE o \in Read.ops

(* Project memory can be read whatever overlaps, fails or dies: its        *)
(* temporary names are unique, and once there the file never goes.         *)
MemoryWhole ==
  kind = "memory" => IF acked = {} THEN Read.form \in {"absent", "whole"}
                                   ELSE Read.form = "whole"

(* A message or a set of touched files that was reported saved is in the   *)
(* database, and running a half-done operation again, because the database *)
(* was busy, stores nothing twice.                                         *)
RowsKept ==
  kind = "rows" =>
    /\ \A j, k \in DOMAIN rows : j # k => rows[j] # rows[k]
    /\ \A o \in acked : \/ \E k \in DOMAIN rows : rows[k] = <<o, "message">>
                       \/ \E j, k \in DOMAIN rows :
                            rows[j] = <<o, "first path">> /\ rows[k] = <<o, "second path">>

(* Every operation returns: a busy database is given up on, and no other   *)
(* operation keeps the process's write lock.                               *)
WritesEnd == \A c \in Clients : task[c] # Idle ~> task[c] = Idle
=============================================================================
