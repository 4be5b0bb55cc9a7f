-------------------------- MODULE LocalStateProofs --------------------------
(***************************************************************************)
(* The safety of the state FuzeCLI keeps for itself, for any number of     *)
(* requests and processes, operations, faults and crashes.                 *)
(*                                                                         *)
(* The inductive invariant says which inode each temporary name leads to   *)
(* and what a writer alone with its name has put there; of the database,   *)
(* which rows an operation in progress has stored already.                 *)
(***************************************************************************)
EXTENDS LocalState, FiniteSetTheorems, SequenceTheorems, TLAPS

-----------------------------------------------------------------------------
(* The invariant.                                                          *)

FileLabels == {"load", "open", "write", "rename", "unlink"}
RowLabels == {"lock", "exec", "second"}

Task == [pc : FileLabels \cup RowLabels,
         way : {"update", "session", "replace", "message", "touched"},
         op : 2 .. MaxOps, loaded : SUBSET (0 .. MaxOps), saving : {"first", "own"},
         fd : Inodes \cup {None}, at : Nat]
Contents == [form : {"whole", "empty", "torn"}, ops : SUBSET (0 .. MaxOps)]

Types ==
  /\ kind \in Kinds
  /\ published \in Inodes \cup {None}
  /\ data \in [Inodes -> Contents]
  /\ temps \in [0 .. MaxOps -> Inodes \cup {None}]
  /\ task \in [Clients -> Task \cup {Idle}]
  /\ next \in 2 .. MaxOps + 1 /\ acked \subseteq 1 .. next - 1

\* Operations have numbers of their own; until two overlap, the one in
\* progress is the last that began.
Numbers ==
  /\ \A c \in Busy : task[c].op < next
  /\ \A c, d \in Busy : task[c].op = task[d].op => c = d
  /\ ~overlap => \A c \in Busy : task[c].op = next - 1

Phases ==
  \A c \in Busy :
    /\ IF kind = "rows" THEN task[c].pc \in RowLabels /\ task[c].way \in {"message", "touched"}
                        ELSE task[c].pc \in FileLabels
    /\ task[c].pc = "second" => task[c].way = "touched"
    /\ task[c].pc = "load" => kind \in {"config", "state", "agent"}
    /\ task[c].saving = "first" => kind = "config"

-----------------------------------------------------------------------------
\* Names lead to inodes of their own, none to the file's.
Apart ==
  /\ \A t \in 0 .. MaxOps : temps[t] # None => temps[t] # published
  /\ \A t, u \in 0 .. MaxOps : temps[t] # None /\ temps[t] = temps[u] => t = u

\* No other operation uses this one's temporary name.
Alone == kind = "memory" \/ ~overlap

\* Then what it wrote is what its name leads to, until it renames it.
Holds(c) ==
  /\ task[c].pc \in {"write", "rename"} => /\ task[c].fd \in Inodes
                                           /\ temps[TmpName(c)] = task[c].fd
  /\ task[c].pc = "write" => data[task[c].fd] = Blank
  /\ task[c].pc = "rename" => data[task[c].fd] = Saved(c)
Held == Alone => \A c \in Busy : Holds(c)

Readable == Alone => Read.form \in {"absent", "whole"}
Stored == acked # {} => published # None

\* What is about to be saved holds what was acknowledged.
Covered ==
  ~overlap /\ ~blanked /\ kind \notin {"checkpoint", "memory"} =>
    \A c \in Busy : task[c].pc \in {"open", "write", "rename"} => acked \subseteq task[c].loaded

FileInv == kind # "rows" => Apart /\ Held /\ Readable /\ Stored /\ Covered /\ UpdatesKept

-----------------------------------------------------------------------------
Names == {"message", "first path", "second path"}
Rows == {rows[k] : k \in DOMAIN rows}

RowInv ==
  kind = "rows" =>
    /\ rows \in Seq((1 .. MaxOps) \X Names)
    /\ \A r \in Rows : r[1] \in 1 .. next - 1
    /\ \A c \in Busy : task[c].way = "message" => <<task[c].op, "message">> \notin Rows
    /\ \A c \in Busy : task[c].pc = "second" => <<task[c].op, "first path">> \in Rows
    /\ RowsKept

IInv == Types /\ Numbers /\ Phases /\ FileInv /\ RowInv

-----------------------------------------------------------------------------
(* A fresh inode exists: every operation names one, writes one.            *)

LEMMA ImageBound ==
  ASSUME NEW S, IsFiniteSet(S), NEW f
  PROVE  /\ IsFiniteSet({f[x] : x \in S})
         /\ Cardinality({f[x] : x \in S}) <= Cardinality(S)
<1> DEFINE T == {f[x] : x \in S}
           g == [x \in S |-> f[x]]
<1>1. g \in Surjection(S, T)
  BY DEF Surjection
<1> QED BY <1>1, FS_Surjection

LEMMA FreshIsFree ==
  ASSUME Types, Numbers
  PROVE  Fresh \in Inodes /\ Fresh \notin Used
<1> DEFINE A == {published}
           T == {temps[t] : t \in 0 .. MaxOps}
           N == {task[c].op : c \in Busy}
           f == [o \in N |-> task[CHOOSE c \in Busy : task[c].op = o].fd]
           F == {f[o] : o \in N}
<1>1. MaxOps \in Nat \ {0}
  BY StateAssumption
<1>2. IsFiniteSet(A) /\ Cardinality(A) = 1
  BY FS_Singleton
<1>3. IsFiniteSet(T) /\ Cardinality(T) <= MaxOps + 1
  <2>1. IsFiniteSet(0 .. MaxOps) /\ Cardinality(0 .. MaxOps) = MaxOps + 1
    BY <1>1, FS_Interval
  <2> QED BY <2>1, ImageBound
<1>4. IsFiniteSet(N) /\ Cardinality(N) <= MaxOps - 1
  <2>1. N \subseteq 2 .. MaxOps
    BY DEF Types, Task, Busy
  <2>2. IsFiniteSet(2 .. MaxOps) /\ Cardinality(2 .. MaxOps) = MaxOps - 1
    BY <1>1, FS_Interval
  <2> HIDE DEF N
  <2> QED BY <2>1, <2>2, FS_Subset
<1>5. IsFiniteSet(F) /\ Cardinality(F) <= MaxOps - 1
  <2>1. IsFiniteSet(F) /\ Cardinality(F) <= Cardinality(N)
    BY <1>4, ImageBound
  <2>2. Cardinality(F) \in Nat /\ Cardinality(N) \in Nat
    BY <2>1, <1>4, FS_CardinalityType
  <2> HIDE DEF F, N
  <2> QED BY <1>1, <1>4, <2>1, <2>2
<1>6. Used \subseteq A \cup T \cup F
  <2>1. \A c \in Busy : task[c].fd \in F
    <3> TAKE c \in Busy
    <3>1. task[c].op \in N
      OBVIOUS
    <3>2. c = CHOOSE d \in Busy : task[d].op = task[c].op
      BY DEF Numbers
    <3>3. f[task[c].op] = task[c].fd
      BY <3>1, <3>2
    <3> QED BY <3>1, <3>3
  <2>2. DOMAIN temps = 0 .. MaxOps
    BY DEF Types
  <2> HIDE DEF F
  <2> QED BY <2>1, <2>2 DEF Used
<1> HIDE DEF A, T, N, f, F
<1>7. IsFiniteSet(A \cup T \cup F) /\ Cardinality(A \cup T \cup F) <= 2 * MaxOps + 1
  <2>1. IsFiniteSet(A \cup T) /\ IsFiniteSet((A \cup T) \cup F)
    BY <1>2, <1>3, <1>5, FS_Union
  <2>2. Cardinality(A \cup T) = Cardinality(A) + Cardinality(T) - Cardinality(A \cap T)
    BY <1>2, <1>3, FS_Union
  <2>3. Cardinality((A \cup T) \cup F)
          = Cardinality(A \cup T) + Cardinality(F) - Cardinality((A \cup T) \cap F)
    BY <2>1, <1>5, FS_Union
  <2>4. /\ Cardinality(A \cap T) \in Nat /\ Cardinality((A \cup T) \cap F) \in Nat
        /\ Cardinality(T) \in Nat /\ Cardinality(F) \in Nat /\ Cardinality(A \cup T) \in Nat
    BY <1>2, <1>3, <1>5, <2>1, FS_CardinalityType, FS_Intersection
  <2> QED BY <1>1, <1>2, <1>3, <1>5, <2>1, <2>2, <2>3, <2>4
<1>8. IsFiniteSet(Inodes) /\ Cardinality(Inodes) = 2 * MaxOps + 2
  BY <1>1, FS_Interval DEF Inodes
<1>9. ~(Inodes \subseteq Used)
  <2> SUFFICES ASSUME Inodes \subseteq A \cup T \cup F PROVE FALSE
    BY <1>6
  <2>1. Cardinality(Inodes) <= Cardinality(A \cup T \cup F)
    BY <1>7, FS_Subset
  <2>2. Cardinality(A \cup T \cup F) \in Nat
    BY <1>7, FS_CardinalityType
  <2> QED BY <1>1, <1>7, <1>8, <2>1, <2>2
<1> QED BY <1>9 DEF Fresh

-----------------------------------------------------------------------------
LEMMA Initially == Init => IInv
<1> SUFFICES ASSUME Init PROVE IInv
  OBVIOUS
<1>1. MaxOps \in Nat \ {0}
  BY StateAssumption
<1>2. 1 \in Inodes /\ None \notin Inodes
  BY <1>1 DEF Inodes, None
<1>3. PICK found : /\ found \in {{1}, {1, Migrated}}
                   /\ data = [i \in Inodes |-> IF i = published THEN Content("whole", found)
                                                                ELSE Blank]
  BY DEF Init
<1>4. found \subseteq 0 .. MaxOps
  BY <1>1, <1>3 DEF Migrated
<1>5. Types
  <2>1. data \in [Inodes -> Contents]
    BY <1>3, <1>4 DEF Content, Blank, Contents
  <2>2. acked \subseteq 1 .. next - 1 /\ next \in 2 .. MaxOps + 1
    BY <1>1 DEF Init
  <2>3. kind \in Kinds /\ published \in Inodes \cup {None}
    BY <1>2 DEF Init
  <2>4. /\ temps \in [0 .. MaxOps -> Inodes \cup {None}]
        /\ task \in [Clients -> Task \cup {Idle}]
    BY DEF Init
  <2> QED BY <2>1, <2>2, <2>3, <2>4 DEF Types
<1>6. Busy = {}
  BY DEF Init, Busy
<1>7. Numbers /\ Phases
  BY <1>6 DEF Numbers, Phases
<1>8. FileInv
  <2>1. Apart
    BY DEF Init, Apart
  <2>2. Held /\ Covered
    BY <1>6 DEF Held, Covered
  <2>3. Readable /\ Stored
    BY <1>2, <1>3 DEF Readable, Stored, Init, Read, Content
  <2>4. UpdatesKept
    BY <1>2, <1>3 DEF UpdatesKept, Init, Read, Content
  <2> QED BY <2>1, <2>2, <2>3, <2>4 DEF FileInv
<1>9. RowInv
  <2>1. kind = "rows" => acked = {}
    BY DEF Init, None
  <2>2. rows = << >> /\ Rows = {}
    BY DEF Init, Rows
  <2>3. kind = "rows" => RowsKept
    BY <2>1, <2>2 DEF RowsKept
  <2>4. << >> \in Seq((1 .. MaxOps) \X Names)
    BY EmptySeq
  <2> QED BY <1>6, <2>2, <2>3, <2>4 DEF RowInv
<1> QED BY <1>5, <1>7, <1>8, <1>9 DEF IInv

-----------------------------------------------------------------------------
(* Steps on a file, whichever they are.                                    *)

LEMMA Working ==
  ASSUME Types, NEW c \in Clients, NEW label, At(c, label), label # "idle"
  PROVE  c \in Busy /\ task[c] \in Task /\ task[c].pc = label
BY DEF Types, At, Busy, Idle

\* Unless another operation was in progress no two are; in project memory
\* two have different temporary names.
LEMMA OwnName ==
  ASSUME Types, Numbers, Alone, NEW c \in Busy, NEW d \in Busy, c # d
  PROVE  kind = "memory" /\ TmpName(c) # TmpName(d)
<1>1. overlap
  BY DEF Numbers
<1>2. kind = "memory"
  BY <1>1 DEF Alone
<1> QED BY <1>2 DEF TmpName, Numbers

LEMMA NameType ==
  ASSUME Types, NEW c \in Busy
  PROVE  TmpName(c) \in 0 .. MaxOps
<1>1. task[c] \in Task
  BY DEF Types, Busy
<1>2. MaxOps \in Nat \ {0}
  BY StateAssumption
<1> QED BY <1>1, <1>2 DEF Task, TmpName

LEMMA OpType ==
  ASSUME Types, Numbers, NEW c \in Busy
  PROVE  task[c].op \in 1 .. MaxOps /\ task[c].op < next /\ task[c].op \in 1 .. next - 1
<1>1. task[c].op \in 2 .. MaxOps /\ next \in 2 .. MaxOps + 1
  BY DEF Types, Task, Busy
<1>2. task[c].op < next
  BY DEF Numbers
<1>3. MaxOps \in Nat \ {0}
  BY StateAssumption
<1> QED BY <1>1, <1>2, <1>3

\* Client c's operation goes on as t, or is over.
FileMove(c, t) ==
  /\ kind # "rows" /\ c \in Busy /\ Becomes(c, t) /\ UNCHANGED <<kind, next, overlap>>
  /\ \/ t = Idle
     \/ /\ t \in Task /\ t.op = task[c].op /\ t.pc \in {"open", "write", "rename", "unlink"}
        /\ t.saving = "first" => kind = "config"

LEMMA FileMoved ==
  ASSUME Types, Numbers, Phases, NEW c \in Clients, NEW t, FileMove(c, t)
  PROVE  /\ task' \in [Clients -> Task \cup {Idle}] /\ task'[c] = t
         /\ Numbers' /\ Phases'
         /\ Busy' \subseteq Busy /\ \A d \in Busy' : d # c => task'[d] = task[d]
         /\ c \in Busy' => t # Idle
<1>1. task \in [Clients -> Task \cup {Idle}]
  BY DEF Types
<1>2. task' \in [Clients -> Task \cup {Idle}] /\ task'[c] = t
  BY <1>1 DEF FileMove, Becomes
<1>3. \A d \in Clients : d # c => task'[d] = task[d]
  BY <1>1 DEF FileMove, Becomes
<1>4. Busy' \subseteq Busy
  BY <1>3 DEF FileMove, Busy
<1>5. c \in Busy' => t # Idle
  BY <1>2 DEF Busy
<1>6. \A d \in Busy' : task'[d].op = task[d].op
  BY <1>2, <1>3, <1>5 DEF FileMove, Busy
<1>7. Numbers'
  BY <1>4, <1>6 DEF Numbers, FileMove
<1>8. Phases'
  <2> SUFFICES ASSUME NEW d \in Busy'
               PROVE  /\ task'[d].pc \in FileLabels /\ kind # "rows"
                      /\ task'[d].pc = "load" => kind \in {"config", "state", "agent"}
                      /\ task'[d].saving = "first" => kind = "config"
    BY DEF Phases, FileMove, FileLabels
  <2>1. CASE d = c
    BY <1>2, <1>5, <2>1 DEF FileMove, FileLabels
  <2>2. CASE d # c
    BY <1>3, <1>4, <2>2 DEF Phases, FileMove, Busy
  <2> QED BY <2>1, <2>2
<1> QED BY <1>2, <1>3, <1>4, <1>5, <1>7, <1>8 DEF Busy

\* A step that leaves the other temporary names alone, and the inodes they
\* lead to, disturbs no other writer.
LEMMA OthersHold ==
  ASSUME Types, Numbers, Held, NEW c \in Busy, NEW t, FileMove(c, t),
         Busy' \subseteq Busy, \A d \in Busy' : d # c => task'[d] = task[d],
         \A n \in 0 .. MaxOps : n # TmpName(c) => temps'[n] = temps[n],
         Alone => \A i \in Inodes :
                    data'[i] = data[i] \/ \A n \in 0 .. MaxOps : temps[n] = i => n = TmpName(c),
         Alone' /\ c \in Busy' => Holds(c)'
  PROVE  Held'
<1> SUFFICES ASSUME Alone', NEW d \in Busy', d # c PROVE Holds(d)'
  BY DEF Held
<1>1. Alone
  BY DEF Alone, FileMove
<1>2. d \in Busy /\ task'[d] = task[d]
  OBVIOUS
<1>3. kind = "memory" /\ TmpName(c) # TmpName(d) /\ TmpName(d) \in 0 .. MaxOps
  BY <1>1, <1>2, OwnName, NameType
<1>4. TmpName(d)' = TmpName(d) /\ Saved(d)' = Saved(d)
  BY <1>2 DEF TmpName, FileMove, Saved
<1>5. temps'[TmpName(d)'] = temps[TmpName(d)]
  BY <1>3, <1>4
<1>6. Holds(d)
  BY <1>1, <1>2 DEF Held
<1>7. task[d].pc \in {"write", "rename"} => data'[task[d].fd] = data[task[d].fd]
  BY <1>1, <1>3, <1>6 DEF Holds
<1> QED BY <1>2, <1>4, <1>5, <1>6, <1>7 DEF Holds

\* What is published stays what it was, and so does what was acknowledged.
LEMMA FileStays ==
  ASSUME Readable, Stored, UpdatesKept, Alone => Read' = Read,
         UNCHANGED <<kind, overlap, published, acked>>, blanked => blanked'
  PROVE  Readable' /\ Stored' /\ UpdatesKept'
<1>1. Alone' => Alone /\ Read' = Read
  BY DEF Alone
<1>2. Readable'
  BY <1>1 DEF Readable
<1>3. Stored'
  BY DEF Stored
<1>4. UpdatesKept'
  <2>1. ~overlap' => Read' = Read
    BY DEF Alone
  <2> QED BY <2>1 DEF UpdatesKept
<1> QED BY <1>2, <1>3, <1>4

LEMMA StaysCovered ==
  ASSUME Covered, NEW c \in Busy, NEW t, FileMove(c, t), task'[c] = t,
         Busy' \subseteq Busy, \A d \in Busy' : d # c => task'[d] = task[d],
         c \in Busy' => t # Idle, blanked => blanked', acked' = acked,
         \/ t = Idle \/ t.pc = "unlink"
         \/ t.loaded = task[c].loaded /\ task[c].pc \in {"open", "write", "rename"}
  PROVE  Covered'
<1> SUFFICES ASSUME ~overlap, ~blanked, kind \notin {"checkpoint", "memory"},
                    NEW d \in Busy', task'[d].pc \in {"open", "write", "rename"}
             PROVE  acked \subseteq task'[d].loaded
  BY DEF Covered, FileMove
<1>1. CASE d = c
  BY <1>1 DEF Covered
<1>2. CASE d # c
  BY <1>2 DEF Covered
<1> QED BY <1>1, <1>2

\* The invariant of the database says nothing of a file.
LEMMA FileKept ==
  ASSUME kind # "rows", kind' = kind, Types', Numbers', Phases',
         Apart', Held', Readable', Stored', Covered', UpdatesKept'
  PROVE  IInv'
BY DEF IInv, FileInv, RowInv

-----------------------------------------------------------------------------
(* The actions on a file.                                                  *)

\* An operation that is over touches nothing.
LEMMA GivenUp ==
  ASSUME IInv, NEW c \in Clients, c \in Busy, kind # "rows", Fails(c), blanked => blanked',
         UNCHANGED <<kind, fileVars, next, overlap>>
  PROVE  IInv'
<1>1. Types /\ Numbers /\ Phases /\ Held /\ Readable /\ Stored /\ Covered /\ UpdatesKept /\ Apart
  BY DEF IInv, FileInv
<1>2. FileMove(c, Idle) /\ UNCHANGED <<published, temps, data, acked>>
  BY DEF FileMove, Fails, fileVars
<1>3. /\ task' \in [Clients -> Task \cup {Idle}] /\ task'[c] = Idle /\ Numbers' /\ Phases'
      /\ Busy' \subseteq Busy /\ \A d \in Busy' : d # c => task'[d] = task[d]
      /\ c \notin Busy'
  BY <1>1, <1>2, FileMoved
<1>4. Types' /\ Apart' /\ Read' = Read
  BY <1>1, <1>2, <1>3 DEF Types, Apart, Read
<1>5. Held'
  BY <1>1, <1>2, <1>3, OthersHold
<1>6. Readable' /\ Stored' /\ UpdatesKept'
  BY <1>1, <1>2, <1>4, FileStays
<1>7. Covered'
  BY <1>1, <1>2, <1>3, StaysCovered
<1> QED BY <1>3, <1>4, <1>5, <1>6, <1>7, FileKept

LEMMA ReadsKeeps ==
  ASSUME IInv, NEW c \in Clients, At(c, "load"), NEW ops, NEW which, Reads(c, ops, which),
         ops \subseteq 0 .. MaxOps, which \in {"first", "own"},
         which = "first" => kind = "config",
         Read.form \in {"absent", "whole"} => Read.ops \subseteq ops,
         UNCHANGED <<kind, fileVars, next, overlap>>
  PROVE  IInv'
<1> DEFINE t == [task[c] EXCEPT !.pc = "open", !.loaded = ops, !.saving = which]
<1>1. Types /\ Numbers /\ Phases
  BY DEF IInv
<1>2. c \in Busy /\ task[c] \in Task /\ task[c].pc = "load" /\ kind # "rows"
  BY <1>1, Working DEF Phases, RowLabels
<1>3. Held /\ Readable /\ Stored /\ Covered /\ UpdatesKept /\ Apart
  BY <1>2 DEF IInv, FileInv
<1>4. t \in Task /\ t.op = task[c].op /\ t.pc = "open" /\ t.saving = which /\ t.loaded = ops
  BY <1>2 DEF Task, FileLabels
<1>5. FileMove(c, t) /\ UNCHANGED <<published, temps, data, acked, blanked>>
  <2>1. Becomes(c, t)
    BY DEF Reads
  <2> HIDE DEF t
  <2> QED BY <1>2, <1>4, <2>1 DEF FileMove, Reads, fileVars
<1> HIDE DEF t
<1>6. /\ task' \in [Clients -> Task \cup {Idle}] /\ task'[c] = t /\ Numbers' /\ Phases'
      /\ Busy' \subseteq Busy /\ \A d \in Busy' : d # c => task'[d] = task[d]
  BY <1>1, <1>5, FileMoved
<1>7. Types' /\ Apart' /\ Read' = Read
  BY <1>1, <1>3, <1>5, <1>6 DEF Types, Apart, Read
<1>8. Held'
  <2>1. Holds(c)'
    BY <1>4, <1>6 DEF Holds
  <2> QED BY <1>1, <1>2, <1>3, <1>5, <1>6, <2>1, OthersHold
<1>9. Readable' /\ Stored' /\ UpdatesKept'
  BY <1>3, <1>5, <1>7, FileStays
<1>10. Covered'
  <2> SUFFICES ASSUME ~overlap, ~blanked, kind \notin {"checkpoint", "memory"},
                      NEW d \in Busy', task'[d].pc \in {"open", "write", "rename"}
               PROVE  acked \subseteq task'[d].loaded
    BY <1>5 DEF Covered, FileMove
  <2>1. acked \subseteq ops
    BY <1>2, <1>3 DEF UpdatesKept
  <2>2. CASE d = c
    BY <2>1, <2>2, <1>4, <1>6
  <2>3. CASE d # c
    BY <2>3, <1>3, <1>6 DEF Covered
  <2> QED BY <2>2, <2>3
<1> QED BY <1>2, <1>5, <1>6, <1>7, <1>8, <1>9, <1>10, FileKept DEF FileMove

LEMMA UnreadKeeps ==
  ASSUME IInv, NEW c \in Clients, At(c, "load"), Unread(c),
         UNCHANGED <<kind, fileVars, next, overlap>>
  PROVE  IInv'
<1> DEFINE t == [task[c] EXCEPT !.pc = "open"]
<1>1. Types /\ Numbers /\ Phases
  BY DEF IInv
<1>2. c \in Busy /\ task[c] \in Task /\ task[c].pc = "load" /\ kind # "rows"
  BY <1>1, Working DEF Phases, RowLabels
<1>3. Held /\ Readable /\ Stored /\ Covered /\ UpdatesKept /\ Apart
  BY <1>2 DEF IInv, FileInv
<1>4. CASE Fails(c)
  BY <1>2, <1>4, GivenUp DEF Unread, Goto
<1>5. CASE Goto(c, "open") /\ blanked' = TRUE /\ UNCHANGED acked
  <2>1. t \in Task /\ t.op = task[c].op /\ t.pc = "open" /\ t.saving = task[c].saving
    BY <1>2 DEF Task, FileLabels
  <2>2. FileMove(c, t) /\ UNCHANGED <<published, temps, data, acked>>
    <3>1. Becomes(c, t)
      BY <1>5 DEF Goto, Becomes
    <3>2. t.saving = "first" => kind = "config"
      BY <1>1, <1>2, <2>1 DEF Phases
    <3> HIDE DEF t
    <3> QED BY <1>2, <1>5, <2>1, <3>1, <3>2 DEF FileMove, fileVars
  <2> HIDE DEF t
  <2>3. /\ task' \in [Clients -> Task \cup {Idle}] /\ task'[c] = t /\ Numbers' /\ Phases'
        /\ Busy' \subseteq Busy /\ \A d \in Busy' : d # c => task'[d] = task[d]
    BY <1>1, <2>2, FileMoved
  <2>4. Types' /\ Apart' /\ Read' = Read
    BY <1>1, <1>3, <2>2, <2>3 DEF Types, Apart, Read
  <2>5. Held'
    <3>1. Holds(c)'
      BY <2>1, <2>3 DEF Holds
    <3> QED BY <1>1, <1>2, <1>3, <2>2, <2>3, <3>1, OthersHold
  <2>6. Readable' /\ Stored' /\ UpdatesKept'
    BY <1>3, <1>5, <2>2, <2>4, FileStays
  <2>7. Covered'
    BY <1>5 DEF Covered
  <2> QED BY <1>2, <2>2, <2>3, <2>4, <2>5, <2>6, <2>7, FileKept
<1> QED BY <1>4, <1>5 DEF Unread

LEMMA LoadKeeps ==
  ASSUME IInv, NEW c \in Clients, Load(c)
  PROVE  IInv'
<1>1. Types /\ At(c, "load") /\ UNCHANGED <<kind, fileVars, next, overlap>>
  BY DEF IInv, Load
<1>2. /\ Read.ops \subseteq 0 .. MaxOps
      /\ Read.form = "absent" => Read.ops = {}
  BY <1>1 DEF Types, Contents, Read, Content
<1>3. MaxOps \in Nat \ {0} /\ next \in 2 .. MaxOps + 1
  BY <1>1, StateAssumption DEF Types
<1>4. CASE kind = "config" /\ LoadConfig(c)
  <2>1. \A ops \in SUBSET (0 .. MaxOps) :
          Loaded(ops) \in SUBSET (0 .. MaxOps) /\ ops \subseteq Loaded(ops)
    BY <1>3 DEF Loaded, Migrated
  <2>2. CASE Read.form = "absent" /\ Reads(c, Loaded({}), "first")
    BY <1>1, <1>2, <1>4, <2>1, <2>2, ReadsKeeps
  <2>3. CASE Read.form = "empty" /\ Reads(c, Loaded({}), "own")
    BY <1>1, <1>2, <1>4, <2>1, <2>3, ReadsKeeps
  <2>4. ASSUME NEW ops \in SUBSET (1 .. next - 1), Read.form = "torn", Reads(c, Loaded(ops), "own")
        PROVE  IInv'
    <3>1. ops \in SUBSET (0 .. MaxOps)
      BY <1>3
    <3> QED BY <1>1, <2>1, <2>4, <3>1, ReadsKeeps
  <2>5. CASE Unread(c)
    BY <1>1, <2>5, UnreadKeeps
  <2>6. CASE Read.form = "whole"
             /\ Reads(c, Loaded(Read.ops), IF Migrated \in Read.ops THEN "own" ELSE "first")
    <3> DEFINE which == IF Migrated \in Read.ops THEN "own" ELSE "first"
    <3>1. which \in {"first", "own"} /\ Reads(c, Loaded(Read.ops), which)
      BY <2>6
    <3>2. Loaded(Read.ops) \in SUBSET (0 .. MaxOps) /\ Read.ops \subseteq Loaded(Read.ops)
      BY <1>2, <2>1
    <3> HIDE DEF which
    <3> QED BY <1>1, <1>4, <3>1, <3>2, ReadsKeeps
  <2> QED BY <1>4, <2>2, <2>3, <2>4, <2>5, <2>6 DEF LoadConfig
<1>5. CASE LoadJSON(c)
  <2>1. CASE Reads(c, Read.ops, "own")
    BY <1>1, <1>2, <2>1, ReadsKeeps
  <2>2. CASE Unread(c)
    BY <1>1, <2>2, UnreadKeeps
  <2> QED BY <1>5, <2>1, <2>2 DEF LoadJSON
<1>6. CASE Unread(c)
  BY <1>1, <1>6, UnreadKeeps
<1> QED BY <1>4, <1>5, <1>6 DEF Load

LEMMA RefuseKeeps ==
  ASSUME IInv, NEW c \in Clients, Refuse(c)
  PROVE  IInv'
<1>1. Types /\ At(c, "open") /\ Fails(c) /\ kind # "rows"
  BY DEF IInv, Refuse
<1>2. c \in Busy
  BY <1>1, Working
<1> QED BY <1>1, <1>2, GivenUp DEF Refuse

LEMMA OpenKeeps ==
  ASSUME IInv, NEW c \in Clients, Open(c)
  PROVE  IInv'
<1>1. Types /\ Numbers /\ Phases
  BY DEF IInv
<1>2. /\ c \in Busy /\ task[c] \in Task /\ task[c].pc = "open" /\ kind # "rows"
      /\ TmpName(c) \in 0 .. MaxOps /\ UNCHANGED <<kind, published, next, overlap, blanked>>
  BY <1>1, Working, NameType DEF Phases, RowLabels, Open
<1>3. Held /\ Readable /\ Stored /\ Covered /\ UpdatesKept /\ Apart
  BY <1>2 DEF IInv, FileInv
<1>4. CASE Fails(c) /\ UNCHANGED <<temps, data>>
  BY <1>2, <1>4, GivenUp DEF fileVars
<1>5. ASSUME UNCHANGED acked,
             NEW i, i = IF temps[TmpName(c)] = None THEN Fresh ELSE temps[TmpName(c)],
             temps' = [temps EXCEPT ![TmpName(c)] = i],
             data' = [data EXCEPT ![i] = Blank],
             Becomes(c, [task[c] EXCEPT !.pc = "write", !.fd = i])
      PROVE  IInv'
  <2> DEFINE t == [task[c] EXCEPT !.pc = "write", !.fd = i]
  <2>1. /\ i \in Inodes /\ i # None /\ i # published
        /\ \A n \in 0 .. MaxOps : temps[n] = i => n = TmpName(c)
    <3>1. Fresh \in Inodes /\ Fresh \notin Used
      BY <1>1, FreshIsFree
    <3>2. Fresh # published /\ \A n \in 0 .. MaxOps : temps[n] # Fresh
      BY <1>1, <3>1 DEF Used, Types
    <3>3. None \notin Inodes
      BY StateAssumption DEF None, Inodes
    <3> QED BY <1>1, <1>2, <1>3, <1>5, <3>1, <3>2, <3>3 DEF Types, Apart
  <2>2. /\ t \in Task /\ t.op = task[c].op /\ t.pc = "write" /\ t.fd = i
        /\ t.saving = task[c].saving /\ t.loaded = task[c].loaded
    BY <1>2, <2>1 DEF Task, FileLabels
  <2>3. FileMove(c, t)
    <3>1. Becomes(c, t)
      BY <1>5
    <3>2. t.saving = "first" => kind = "config"
      BY <1>1, <1>2, <2>2 DEF Phases
    <3> HIDE DEF t
    <3> QED BY <1>2, <2>2, <3>1, <3>2 DEF FileMove
  <2> HIDE DEF t
  <2>4. /\ task' \in [Clients -> Task \cup {Idle}] /\ task'[c] = t /\ Numbers' /\ Phases'
        /\ Busy' \subseteq Busy /\ \A d \in Busy' : d # c => task'[d] = task[d]
        /\ c \in Busy' => t # Idle
    BY <1>1, <2>3, FileMoved
  <2>5. /\ temps' \in [0 .. MaxOps -> Inodes \cup {None}] /\ temps'[TmpName(c)] = i
        /\ \A n \in 0 .. MaxOps : n # TmpName(c) => temps'[n] = temps[n]
    BY <1>1, <1>2, <1>5, <2>1 DEF Types
  <2>6. /\ data' \in [Inodes -> Contents] /\ data'[i] = Blank
        /\ \A k \in Inodes : k # i => data'[k] = data[k]
    BY <1>1, <1>5, <2>1 DEF Types, Blank, Content, Contents
  <2>7. Types'
    BY <1>1, <1>2, <1>5, <2>4, <2>5, <2>6 DEF Types
  <2>8. Apart'
    BY <1>2, <1>3, <2>1, <2>5 DEF Apart
  <2>9. Read' = Read
    BY <1>1, <1>2, <2>1, <2>6 DEF Read, Types
  <2>10. Held'
    <3>1. TmpName(c)' = TmpName(c)
      BY <1>2, <2>2, <2>4 DEF TmpName
    <3>2. Holds(c)'
      BY <2>1, <2>2, <2>4, <2>5, <2>6, <3>1 DEF Holds
    <3> QED BY <1>1, <1>2, <1>3, <2>1, <2>3, <2>4, <2>5, <2>6, <3>2, OthersHold
  <2>11. Readable' /\ Stored' /\ UpdatesKept'
    BY <1>2, <1>3, <1>5, <2>9, FileStays
  <2>12. Covered'
    BY <1>2, <1>3, <1>5, <2>2, <2>3, <2>4, StaysCovered
  <2> QED BY <1>2, <2>4, <2>7, <2>8, <2>10, <2>11, <2>12, FileKept
<1> QED BY <1>4, <1>5 DEF Open

LEMMA SavedType ==
  ASSUME Types, NEW c \in Clients, task[c] \in Task
  PROVE  Saved(c) \in Contents /\ Blank \in Contents /\ Torn \in Contents
BY StateAssumption DEF Saved, Content, Blank, Torn, Contents, Task

\* The inode a writer alone with its name holds is led to by it only, and is
\* not the file.
LEMMA OnlyItsName ==
  ASSUME IInv, NEW c \in Busy, kind # "rows", Alone, task[c].pc \in {"write", "rename"}
  PROVE  /\ task[c].fd \in Inodes /\ task[c].fd # None /\ task[c].fd # published
         /\ temps[TmpName(c)] = task[c].fd
         /\ \A n \in 0 .. MaxOps : temps[n] = task[c].fd => n = TmpName(c)
<1>1. Holds(c) /\ Apart /\ TmpName(c) \in 0 .. MaxOps
  BY NameType DEF IInv, FileInv, Held
<1>2. None \notin Inodes
  BY StateAssumption DEF None, Inodes
<1> QED BY <1>1, <1>2 DEF Holds, Apart

LEMMA WriteKeeps ==
  ASSUME IInv, NEW c \in Clients, Write(c)
  PROVE  IInv'
<1>1. Types /\ Numbers /\ Phases
  BY DEF IInv
<1>2. /\ c \in Busy /\ task[c] \in Task /\ task[c].pc = "write" /\ kind # "rows"
      /\ TmpName(c) \in 0 .. MaxOps /\ UNCHANGED <<kind, published, next, overlap, blanked>>
  BY <1>1, Working, NameType DEF Phases, RowLabels, Write
<1>3. Held /\ Readable /\ Stored /\ Covered /\ UpdatesKept /\ Apart
  BY <1>2 DEF IInv, FileInv
<1>4. /\ data' \in [Inodes -> Contents]
      /\ \A k \in Inodes : k # task[c].fd => data'[k] = data[k]
  <2>1. Saved(c) \in Contents /\ Torn \in Contents
    BY <1>1, <1>2, SavedType
  <2>2. PICK after \in Contents : data' = [data EXCEPT ![task[c].fd] = after]
    BY <2>1 DEF Write
  <2> QED BY <1>1, <2>2 DEF Types
<1>5. /\ temps' \in [0 .. MaxOps -> Inodes \cup {None}]
      /\ \A n \in 0 .. MaxOps : n # TmpName(c) => temps'[n] = temps[n]
      /\ \A n \in 0 .. MaxOps : temps'[n] \in {temps[n], None}
  BY <1>1, <1>2 DEF Types, Write
<1>6. Apart'
  BY <1>2, <1>3, <1>5 DEF Apart
<1>7. Alone => Read' = Read
  <2> SUFFICES ASSUME Alone PROVE Read' = Read
    OBVIOUS
  <2>1. task[c].fd # published
    BY <1>2, OnlyItsName
  <2> QED BY <1>1, <1>2, <1>4, <2>1 DEF Read, Types
<1>8. UNCHANGED acked
  BY DEF Write, Fails
<1>9. Readable' /\ Stored' /\ UpdatesKept'
  BY <1>2, <1>3, <1>7, <1>8, FileStays
<1>10. Alone => \A i \in Inodes :
                  data'[i] = data[i] \/ \A n \in 0 .. MaxOps : temps[n] = i => n = TmpName(c)
  BY <1>2, <1>4, OnlyItsName
<1>11. CASE Fails(c)
  <2>1. FileMove(c, Idle)
    BY <1>2, <1>11 DEF FileMove, Fails
  <2>2. /\ task' \in [Clients -> Task \cup {Idle}] /\ task'[c] = Idle /\ Numbers' /\ Phases'
        /\ Busy' \subseteq Busy /\ \A d \in Busy' : d # c => task'[d] = task[d]
        /\ c \notin Busy'
    BY <1>1, <2>1, FileMoved
  <2>3. Types'
    BY <1>1, <1>2, <1>4, <1>5, <1>8, <2>2 DEF Types
  <2>4. Held'
    BY <1>1, <1>2, <1>3, <1>5, <1>10, <2>1, <2>2, OthersHold
  <2>5. Covered'
    BY <1>2, <1>3, <1>8, <2>1, <2>2, StaysCovered
  <2> QED BY <1>2, <1>6, <1>9, <2>2, <2>3, <2>4, <2>5, FileKept
<1>12. ASSUME Goto(c, "rename"), UNCHANGED temps,
              NEW after \in {Saved(c)} \cup (IF data[task[c].fd] = Blank THEN {} ELSE {Torn}),
              data' = [data EXCEPT ![task[c].fd] = after]
       PROVE  IInv'
  <2> DEFINE t == [task[c] EXCEPT !.pc = "rename"]
  <2>1. /\ t \in Task /\ t.op = task[c].op /\ t.pc = "rename" /\ t.fd = task[c].fd
        /\ t.saving = task[c].saving /\ t.loaded = task[c].loaded
    BY <1>2 DEF Task, FileLabels
  <2>2. FileMove(c, t)
    <3>1. Becomes(c, t)
      BY <1>12 DEF Goto, Becomes
    <3>2. t.saving = "first" => kind = "config"
      BY <1>1, <1>2, <2>1 DEF Phases
    <3> HIDE DEF t
    <3> QED BY <1>2, <2>1, <3>1, <3>2 DEF FileMove
  <2> HIDE DEF t
  <2>3. /\ task' \in [Clients -> Task \cup {Idle}] /\ task'[c] = t /\ Numbers' /\ Phases'
        /\ Busy' \subseteq Busy /\ \A d \in Busy' : d # c => task'[d] = task[d]
        /\ c \in Busy' => t # Idle
    BY <1>1, <2>2, FileMoved
  <2>4. Types'
    BY <1>1, <1>2, <1>4, <1>5, <1>8, <2>3 DEF Types
  <2>5. Alone' => Holds(c)'
    <3> SUFFICES ASSUME Alone PROVE Holds(c)'
      BY <1>2 DEF Alone
    <3>1. task[c].fd \in Inodes /\ temps[TmpName(c)] = task[c].fd /\ data[task[c].fd] = Blank
      BY <1>2, <1>3, OnlyItsName DEF Held, Holds
    <3>2. data'[task[c].fd] = Saved(c)
      BY <1>1, <1>12, <3>1 DEF Types
    <3>3. TmpName(c)' = TmpName(c) /\ Saved(c)' = Saved(c)
      BY <1>2, <2>1, <2>3 DEF TmpName, Saved
    <3> QED BY <1>12, <2>1, <2>3, <3>1, <3>2, <3>3 DEF Holds
  <2>6. Held'
    BY <1>1, <1>2, <1>3, <1>5, <1>10, <2>2, <2>3, <2>5, OthersHold
  <2>7. Covered'
    BY <1>2, <1>3, <1>8, <2>1, <2>2, <2>3, StaysCovered
  <2> QED BY <1>2, <1>6, <1>9, <2>3, <2>4, <2>6, <2>7, FileKept
<1> QED BY <1>11, <1>12 DEF Write

LEMMA UnlinkKeeps ==
  ASSUME IInv, NEW c \in Clients, Unlink(c)
  PROVE  IInv'
<1>1. Types /\ Numbers /\ Phases
  BY DEF IInv
<1>2. /\ c \in Busy /\ task[c] \in Task /\ task[c].pc = "unlink" /\ kind # "rows"
      /\ TmpName(c) \in 0 .. MaxOps
      /\ UNCHANGED <<kind, published, data, acked, next, overlap, blanked>>
  BY <1>1, Working, NameType DEF Phases, RowLabels, Unlink, Fails
<1>3. Held /\ Readable /\ Stored /\ Covered /\ UpdatesKept /\ Apart
  BY <1>2 DEF IInv, FileInv
<1>4. /\ temps' \in [0 .. MaxOps -> Inodes \cup {None}]
      /\ \A n \in 0 .. MaxOps : n # TmpName(c) => temps'[n] = temps[n]
      /\ \A n \in 0 .. MaxOps : temps'[n] \in {temps[n], None}
  BY <1>1, <1>2 DEF Types, Unlink
<1>5. FileMove(c, Idle)
  BY <1>2 DEF FileMove, Fails, Unlink
<1>6. /\ task' \in [Clients -> Task \cup {Idle}] /\ task'[c] = Idle /\ Numbers' /\ Phases'
      /\ Busy' \subseteq Busy /\ \A d \in Busy' : d # c => task'[d] = task[d]
      /\ c \notin Busy'
  BY <1>1, <1>5, FileMoved
<1>7. Types' /\ Apart' /\ Read' = Read
  BY <1>1, <1>2, <1>3, <1>4, <1>6 DEF Types, Apart, Read
<1>8. Held'
  BY <1>1, <1>2, <1>3, <1>4, <1>5, <1>6, OthersHold
<1>9. Readable' /\ Stored' /\ UpdatesKept'
  BY <1>2, <1>3, <1>7, FileStays
<1>10. Covered'
  BY <1>2, <1>3, <1>5, <1>6, StaysCovered
<1> QED BY <1>2, <1>6, <1>7, <1>8, <1>9, <1>10, FileKept

\* The rename took place: what was published is what c had saved.
LEMMA RenamedKeeps ==
  ASSUME IInv, NEW c \in Clients, At(c, "rename"), temps[TmpName(c)] # None, Renamed(c),
         UNCHANGED <<kind, data, next, overlap, blanked>>
  PROVE  IInv'
<1> DEFINE n == TmpName(c)
           own == [task[c] EXCEPT !.pc = "open", !.saving = "own"]
<1>1. Types /\ Numbers /\ Phases
  BY DEF IInv
<1>2. /\ c \in Busy /\ task[c] \in Task /\ task[c].pc = "rename" /\ kind # "rows"
      /\ n \in 0 .. MaxOps
  BY <1>1, Working, NameType DEF Phases, RowLabels
<1>3. Held /\ Readable /\ Stored /\ Covered /\ UpdatesKept /\ Apart
  BY <1>2 DEF IInv, FileInv
<1>4. /\ published' = temps[n] /\ published' \in Inodes
      /\ temps' \in [0 .. MaxOps -> Inodes \cup {None}] /\ temps'[n] = None
      /\ \A m \in 0 .. MaxOps : m # n => temps'[m] = temps[m]
  BY <1>1, <1>2 DEF Types, Renamed
<1>5. Apart'
  BY <1>2, <1>3, <1>4 DEF Apart
<1>6. None \notin Inodes
  BY StateAssumption DEF None, Inodes
<1>7. Alone => Read' = Saved(c)
  <2> SUFFICES ASSUME Alone PROVE Read' = Saved(c)
    OBVIOUS
  <2>1. temps[n] = task[c].fd /\ data[task[c].fd] = Saved(c)
    BY <1>2, <1>3 DEF Held, Holds
  <2> QED BY <1>4, <1>6, <2>1 DEF Read
<1>8. Readable' /\ Stored'
  BY <1>4, <1>6, <1>7 DEF Readable, Stored, Alone, Saved, Content
<1>9. ~overlap /\ ~blanked /\ kind \notin {"checkpoint", "memory"} => acked \subseteq Saved(c).ops
  BY <1>2, <1>3 DEF Covered, Saved, Content
<1>10. CASE task[c].saving = "own" /\ Succeeds(c)
  <2>1. FileMove(c, Idle) /\ acked' = acked \cup {task[c].op}
    BY <1>2, <1>10 DEF FileMove, Succeeds
  <2>2. /\ task' \in [Clients -> Task \cup {Idle}] /\ task'[c] = Idle /\ Numbers' /\ Phases'
        /\ Busy' \subseteq Busy /\ \A d \in Busy' : d # c => task'[d] = task[d]
        /\ c \notin Busy'
    BY <1>1, <2>1, FileMoved
  <2>3. task[c].op \in 1 .. next - 1
    BY <1>1, <1>2, OpType
  <2>4. Types'
    BY <1>1, <1>4, <2>1, <2>2, <2>3 DEF Types
  <2>5. Held'
    BY <1>1, <1>2, <1>3, <1>4, <2>1, <2>2, OthersHold
  <2>6. ~overlap => Busy' = {}
    BY <1>1, <1>2, <2>2 DEF Numbers
  <2>7. Covered'
    BY <2>6 DEF Covered
  <2>8. UpdatesKept'
    <3> SUFFICES ASSUME ~overlap, ~blanked
                 PROVE  /\ Saved(c).form = "whole"
                        /\ \A o \in acked' : IF kind \in {"checkpoint", "memory"}
                                             THEN \E later \in Saved(c).ops : o <= later
                                             ELSE o \in Saved(c).ops
      BY <1>7 DEF UpdatesKept, Alone
    <3>1. Saved(c).form = "whole" /\ task[c].op \in Saved(c).ops
      BY <1>10 DEF Saved, Content
    <3>2. task[c].op = next - 1
      BY <1>1, <1>2 DEF Numbers
    <3>3. \A o \in acked' : o <= task[c].op
      BY <1>1, <2>1, <2>3, <3>2 DEF Types
    <3> QED BY <1>9, <2>1, <3>1, <3>3
  <2> QED BY <1>2, <1>5, <1>8, <2>2, <2>4, <2>5, <2>7, <2>8, FileKept DEF Renamed
<1>11. UNCHANGED acked => UpdatesKept' \/ kind \in {"checkpoint", "memory"}
  BY <1>7, <1>9 DEF UpdatesKept, Alone, Saved, Content
<1>12. CASE task[c].saving # "own" /\ Becomes(c, own) /\ UNCHANGED acked
  <2>1. /\ own \in Task /\ own.op = task[c].op /\ own.pc = "open" /\ own.saving = "own"
        /\ own.loaded = task[c].loaded
    BY <1>2 DEF Task, FileLabels
  <2>2. kind = "config"
    BY <1>1, <1>2, <1>12 DEF Phases, Task
  <2> HIDE DEF own
  <2>3. FileMove(c, own)
    BY <1>2, <1>12, <2>1 DEF FileMove
  <2>4. /\ task' \in [Clients -> Task \cup {Idle}] /\ task'[c] = own /\ Numbers' /\ Phases'
        /\ Busy' \subseteq Busy /\ \A d \in Busy' : d # c => task'[d] = task[d]
        /\ c \in Busy' => own # Idle
    BY <1>1, <2>3, FileMoved
  <2>5. Types'
    BY <1>1, <1>4, <1>12, <2>4 DEF Types
  <2>6. Held'
    <3>1. Holds(c)'
      BY <2>1, <2>4 DEF Holds
    <3> QED BY <1>1, <1>2, <1>3, <1>4, <2>3, <2>4, <3>1, OthersHold
  <2>7. Covered'
    BY <1>2, <1>3, <1>12, <2>1, <2>3, <2>4, StaysCovered
  <2> QED BY <1>2, <1>5, <1>8, <1>11, <1>12, <2>2, <2>4, <2>5, <2>6, <2>7, FileKept
<1>13. CASE kind = "agent" /\ Fails(c)
  <2>1. FileMove(c, Idle) /\ UNCHANGED acked
    BY <1>2, <1>13 DEF FileMove, Fails
  <2>2. /\ task' \in [Clients -> Task \cup {Idle}] /\ task'[c] = Idle /\ Numbers' /\ Phases'
        /\ Busy' \subseteq Busy /\ \A d \in Busy' : d # c => task'[d] = task[d]
        /\ c \notin Busy'
    BY <1>1, <2>1, FileMoved
  <2>3. Types'
    BY <1>1, <1>4, <2>1, <2>2 DEF Types
  <2>4. Held'
    BY <1>1, <1>2, <1>3, <1>4, <2>1, <2>2, OthersHold
  <2>5. Covered'
    BY <1>2, <1>3, <2>1, <2>2, StaysCovered
  <2> QED BY <1>2, <1>5, <1>8, <1>11, <1>13, <2>1, <2>2, <2>3, <2>4, <2>5, FileKept
<1> QED BY <1>10, <1>12, <1>13 DEF Renamed

LEMMA RenameKeeps ==
  ASSUME IInv, NEW c \in Clients, Rename(c)
  PROVE  IInv'
<1> DEFINE t == [task[c] EXCEPT !.pc = "unlink"]
<1>1. Types /\ Numbers /\ Phases
  BY DEF IInv
<1>2. /\ c \in Busy /\ task[c] \in Task /\ task[c].pc = "rename" /\ kind # "rows"
      /\ At(c, "rename") /\ UNCHANGED <<kind, data, next, overlap, blanked>>
  BY <1>1, Working DEF Phases, RowLabels, Rename
<1>3. Held /\ Readable /\ Stored /\ Covered /\ UpdatesKept /\ Apart
  BY <1>2 DEF IInv, FileInv
<1>4. CASE temps[TmpName(c)] # None /\ Renamed(c)
  BY <1>2, <1>4, RenamedKeeps
<1>5. CASE Fails(c) /\ UNCHANGED <<published, temps>>
  BY <1>2, <1>5, GivenUp DEF fileVars
<1>6. CASE Goto(c, "unlink") /\ UNCHANGED <<acked, published, temps>>
  <2>1. t \in Task /\ t.op = task[c].op /\ t.pc = "unlink" /\ t.saving = task[c].saving
    BY <1>2 DEF Task, FileLabels
  <2>2. FileMove(c, t)
    <3>1. Becomes(c, t)
      BY <1>6 DEF Goto, Becomes
    <3>2. t.saving = "first" => kind = "config"
      BY <1>1, <1>2, <2>1 DEF Phases
    <3> HIDE DEF t
    <3> QED BY <1>2, <2>1, <3>1, <3>2 DEF FileMove
  <2> HIDE DEF t
  <2>3. /\ task' \in [Clients -> Task \cup {Idle}] /\ task'[c] = t /\ Numbers' /\ Phases'
        /\ Busy' \subseteq Busy /\ \A d \in Busy' : d # c => task'[d] = task[d]
        /\ c \in Busy' => t # Idle
    BY <1>1, <2>2, FileMoved
  <2>4. Types' /\ Apart' /\ Read' = Read
    BY <1>1, <1>2, <1>3, <1>6, <2>3 DEF Types, Apart, Read
  <2>5. Held'
    <3>1. Holds(c)'
      BY <2>1, <2>3 DEF Holds
    <3> QED BY <1>1, <1>2, <1>3, <1>6, <2>2, <2>3, <3>1, OthersHold
  <2>6. Readable' /\ Stored' /\ UpdatesKept'
    BY <1>2, <1>3, <1>6, <2>4, FileStays
  <2>7. Covered'
    BY <1>2, <1>3, <1>6, <2>1, <2>2, <2>3, StaysCovered
  <2> QED BY <1>2, <2>3, <2>4, <2>5, <2>6, <2>7, FileKept
<1>7. RenameFails(c) => \/ Fails(c) /\ UNCHANGED <<published, temps>>
                        \/ Goto(c, "unlink") /\ UNCHANGED <<acked, published, temps>>
  BY DEF RenameFails
<1>8. RenameFails(c) \/ (temps[TmpName(c)] # None /\ Renamed(c))
  BY DEF Rename
<1> QED BY <1>4, <1>5, <1>6, <1>7, <1>8

-----------------------------------------------------------------------------
(* The actions on the database.                                            *)

LEMMA Appended ==
  ASSUME NEW S, NEW s \in Seq(S), NEW x \in S
  PROVE  /\ Append(s, x) \in Seq(S)
         /\ {Append(s, x)[k] : k \in DOMAIN Append(s, x)} = {s[k] : k \in DOMAIN s} \cup {x}
         /\ (\A j, k \in DOMAIN s : j # k => s[j] # s[k]) /\ x \notin {s[k] : k \in DOMAIN s}
              => \A j, k \in DOMAIN Append(s, x) :
                   j # k => Append(s, x)[j] # Append(s, x)[k]
<1> DEFINE a == Append(s, x)
<1>1. /\ a \in Seq(S) /\ Len(a) = Len(s) + 1
      /\ \A i \in 1 .. Len(s) : a[i] = s[i]
      /\ a[Len(s) + 1] = x
  BY AppendProperties
<1>2. Len(s) \in Nat /\ DOMAIN s = 1 .. Len(s) /\ DOMAIN a = 1 .. Len(a)
  BY <1>1, LenProperties
<1> HIDE DEF a
<1>3. DOMAIN a = DOMAIN s \cup {Len(s) + 1}
  BY <1>1, <1>2
<1>4. {a[k] : k \in DOMAIN a} = {s[k] : k \in DOMAIN s} \cup {x}
  <2>1. \A k \in DOMAIN s : a[k] = s[k]
    BY <1>1, <1>2
  <2> QED BY <1>1, <1>3, <2>1
<1>5. (\A j, k \in DOMAIN s : j # k => s[j] # s[k]) /\ x \notin {s[k] : k \in DOMAIN s}
        => \A j, k \in DOMAIN a : j # k => a[j] # a[k]
  <2>1. \A k \in DOMAIN s : a[k] = s[k]
    BY <1>1, <1>2
  <2> QED BY <1>1, <1>3, <2>1
<1> QED BY <1>1, <1>4, <1>5 DEF a

\* What was reported saved, in terms of the set of rows.
Distinct == \A j, k \in DOMAIN rows : j # k => rows[j] # rows[k]
AckedStored ==
  \A o \in acked : \/ <<o, "message">> \in Rows
                   \/ <<o, "first path">> \in Rows /\ <<o, "second path">> \in Rows

LEMMA RowsKeptBySets ==
  kind = "rows" => (RowsKept <=> Distinct /\ AckedStored)
BY DEF RowsKept, Distinct, AckedStored, Rows

LEMMA RowAdded ==
  ASSUME NEW S, rows \in Seq(S), NEW row \in S, rows' = Append(rows, row)
  PROVE  /\ rows' \in Seq(S) /\ Rows' = Rows \cup {row}
         /\ Distinct /\ row \notin Rows => Distinct'
<1> DEFINE after == Append(rows, row)
<1>1. /\ after \in Seq(S)
      /\ {after[k] : k \in DOMAIN after} = {rows[k] : k \in DOMAIN rows} \cup {row}
      /\ (\A j, k \in DOMAIN rows : j # k => rows[j] # rows[k])
            /\ row \notin {rows[k] : k \in DOMAIN rows}
           => \A j, k \in DOMAIN after : j # k => after[j] # after[k]
  BY Appended
<1>2. rows' = after
  OBVIOUS
<1> HIDE DEF after
<1>3. Rows' = {after[k] : k \in DOMAIN after}
  BY <1>2 DEF Rows
<1>4. Distinct' <=> \A j, k \in DOMAIN after : j # k => after[j] # after[k]
  BY <1>2 DEF Distinct
<1> QED BY <1>1, <1>2, <1>3, <1>4 DEF Rows, Distinct

\* Client c's operation goes on as t, or is over.
RowMove(c, t) ==
  /\ kind = "rows" /\ c \in Busy /\ Becomes(c, t)
  /\ UNCHANGED <<kind, fileVars, next, overlap, blanked>>
  /\ \/ t = Idle
     \/ /\ t \in Task /\ t.op = task[c].op /\ t.way = task[c].way /\ t.saving = task[c].saving
        /\ t.pc \in RowLabels
        /\ t.pc = "second" => t.way = "touched"

LEMMA RowMoved ==
  ASSUME Types, Numbers, Phases, NEW c \in Clients, NEW t, RowMove(c, t)
  PROVE  /\ task' \in [Clients -> Task \cup {Idle}] /\ task'[c] = t
         /\ Numbers' /\ Phases' /\ FileInv'
         /\ Busy' \subseteq Busy /\ \A d \in Busy' : d # c => task'[d] = task[d]
         /\ c \in Busy' => t # Idle
<1>1. task \in [Clients -> Task \cup {Idle}] /\ task[c] \in Task
  BY DEF Types, RowMove, Busy
<1>2. task' \in [Clients -> Task \cup {Idle}] /\ task'[c] = t
  BY <1>1 DEF RowMove, Becomes
<1>3. \A d \in Clients : d # c => task'[d] = task[d]
  BY <1>1 DEF RowMove, Becomes
<1>4. Busy' \subseteq Busy
  BY <1>3 DEF RowMove, Busy
<1>5. c \in Busy' => t # Idle
  BY <1>2 DEF Busy
<1>6. \A d \in Busy' : task'[d].op = task[d].op
  BY <1>2, <1>3, <1>5 DEF RowMove, Busy
<1>7. Numbers'
  BY <1>4, <1>6 DEF Numbers, RowMove
<1>8. Phases'
  <2> SUFFICES ASSUME NEW d \in Busy'
               PROVE  /\ task'[d].pc \in RowLabels /\ task'[d].way \in {"message", "touched"}
                      /\ task'[d].pc = "second" => task'[d].way = "touched"
                      /\ task'[d].saving # "first"
    BY DEF Phases, RowMove, RowLabels
  <2>1. \A e \in Busy : /\ task[e].pc \in RowLabels /\ task[e].way \in {"message", "touched"}
                        /\ task[e].pc = "second" => task[e].way = "touched"
                        /\ task[e].saving # "first"
    BY DEF Phases, RowMove
  <2>2. CASE d = c
    BY <1>2, <1>5, <2>1, <2>2 DEF RowMove
  <2>3. CASE d # c
    BY <1>3, <1>4, <2>1, <2>3 DEF Busy
  <2> QED BY <2>2, <2>3
<1>9. FileInv'
  BY DEF FileInv, RowMove
<1> QED BY <1>2, <1>3, <1>4, <1>5, <1>7, <1>8, <1>9 DEF Busy

\* A row is added once, and an operation is acknowledged when its rows are
\* there.
LEMMA RowStep ==
  ASSUME IInv, NEW c \in Clients, NEW t, RowMove(c, t), NEW name \in Names,
         \/ rows' = rows
         \/ rows' = Append(rows, <<task[c].op, name>>) /\ <<task[c].op, name>> \notin Rows,
         task[c].way = "message" => rows' = rows \/ t = Idle,
         t # Idle /\ t.pc = "second" => <<task[c].op, "first path">> \in Rows',
         \/ acked' = acked
         \/ /\ acked' = acked \cup {task[c].op}
            /\ \/ <<task[c].op, "message">> \in Rows'
               \/ <<task[c].op, "first path">> \in Rows' /\ <<task[c].op, "second path">> \in Rows'
  PROVE  IInv'
<1> DEFINE row == <<task[c].op, name>>
<1>1. Types /\ Numbers /\ Phases
  BY DEF IInv
<1>2. /\ kind = "rows" /\ c \in Busy /\ task[c] \in Task /\ fileVars' = fileVars
      /\ UNCHANGED <<kind, next, overlap, blanked>>
  BY <1>1 DEF RowMove, Types, Busy
<1>3. /\ task' \in [Clients -> Task \cup {Idle}] /\ task'[c] = t
      /\ Numbers' /\ Phases' /\ FileInv'
      /\ Busy' \subseteq Busy /\ \A d \in Busy' : d # c => task'[d] = task[d]
      /\ c \in Busy' => t # Idle
  BY <1>1, RowMoved
<1>4. /\ rows \in Seq((1 .. MaxOps) \X Names) /\ \A r \in Rows : r[1] \in 1 .. next - 1
      /\ \A d \in Busy : task[d].way = "message" => <<task[d].op, "message">> \notin Rows
      /\ \A d \in Busy : task[d].pc = "second" => <<task[d].op, "first path">> \in Rows
      /\ Distinct /\ AckedStored
  BY <1>2, RowsKeptBySets DEF IInv, RowInv
<1>5. task[c].op \in 1 .. MaxOps /\ task[c].op < next /\ task[c].op \in 1 .. next - 1
  BY <1>1, <1>2, OpType
<1>6. Types'
  <2>1. acked' \subseteq acked \cup {task[c].op}
    OBVIOUS
  <2>2. acked' \subseteq 1 .. next - 1
    BY <1>1, <1>5, <2>1, Zenon DEF Types
  <2> QED BY <1>1, <1>2, <1>3, <2>2 DEF Types, fileVars
<1>7. row \in (1 .. MaxOps) \X Names /\ row[1] \in 1 .. next - 1
  <2>1. row \in (1 .. MaxOps) \X Names
    BY <1>5, Zenon
  <2>2. row[1] = task[c].op
    BY Zenon
  <2> QED BY <1>5, <2>1, <2>2, Zenon
<1>8. /\ rows' \in Seq((1 .. MaxOps) \X Names)
      /\ Rows' = Rows \/ Rows' = Rows \cup {row}
      /\ Distinct'
  <2>1. CASE rows' = rows
    BY <2>1, <1>4 DEF Rows, Distinct
  <2>2. CASE rows' = Append(rows, row) /\ row \notin Rows
    <3> HIDE DEF row
    <3> QED BY <2>2, <1>4, <1>7, RowAdded
  <2> QED BY <2>1, <2>2
<1>9. \A r \in Rows' : r[1] \in 1 .. next - 1
  BY <1>4, <1>7, <1>8
<1>10. \A d \in Busy' : task'[d].way = "message" => <<task'[d].op, "message">> \notin Rows'
  <2> SUFFICES ASSUME NEW d \in Busy', task'[d].way = "message"
               PROVE  <<task'[d].op, "message">> \notin Rows'
    OBVIOUS
  <2>1. CASE d = c
    <3>1. t # Idle /\ t.op = task[c].op /\ t.way = task[c].way
      BY <2>1, <1>3 DEF RowMove
    <3>2. rows' = rows /\ Rows' = Rows
      BY <2>1, <1>3, <3>1 DEF Rows
    <3> QED BY <2>1, <1>2, <1>3, <1>4, <3>1, <3>2
  <2>2. CASE d # c
    <3>1. d \in Busy /\ task'[d] = task[d] /\ task[d].op # task[c].op
      BY <2>2, <1>1, <1>2, <1>3 DEF Numbers
    <3>2. <<task[d].op, "message">> # row
      BY <3>1
    <3> HIDE DEF row
    <3> QED BY <1>4, <1>8, <3>1, <3>2
  <2> QED BY <2>1, <2>2
<1>11. \A d \in Busy' : task'[d].pc = "second" => <<task'[d].op, "first path">> \in Rows'
  <2> SUFFICES ASSUME NEW d \in Busy', task'[d].pc = "second"
               PROVE  <<task'[d].op, "first path">> \in Rows'
    OBVIOUS
  <2>1. CASE d = c
    BY <2>1, <1>3 DEF RowMove
  <2>2. CASE d # c
    BY <2>2, <1>3, <1>4, <1>8
  <2> QED BY <2>1, <2>2
<1>12. AckedStored'
  <2>1. \A r \in Rows : r \in Rows'
    BY <1>8
  <2> QED BY <1>4, <2>1 DEF AckedStored
<1>13. RowInv'
  <2>1. (kind = "rows" => (RowsKept <=> Distinct /\ AckedStored))'
    BY RowsKeptBySets, PTL
  <2> QED BY <1>2, <1>8, <1>9, <1>10, <1>11, <1>12, <2>1 DEF RowInv
<1> QED BY <1>3, <1>6, <1>13 DEF IInv

\* An operation on the database at one of its labels.
LEMMA AtRow ==
  ASSUME IInv, NEW c \in Clients, NEW label \in RowLabels, At(c, label)
  PROVE  /\ kind = "rows" /\ c \in Busy /\ task[c] \in Task /\ task[c].pc = label
         /\ task[c].way \in {"message", "touched"}
         /\ task[c].way = "message" => <<task[c].op, "message">> \notin Rows
         /\ label = "second" => task[c].way = "touched" /\ <<task[c].op, "first path">> \in Rows
<1>1. Types /\ Phases
  BY DEF IInv
<1>2. c \in Busy /\ task[c] \in Task /\ task[c].pc = label
  BY <1>1, Working DEF RowLabels
<1>3. kind = "rows"
  BY <1>1, <1>2 DEF Phases, RowLabels, FileLabels
<1> QED BY <1>1, <1>2, <1>3 DEF Phases, IInv, RowInv

LEMMA LockKeeps ==
  ASSUME IInv, NEW c \in Clients, Lock(c)
  PROVE  IInv'
<1> DEFINE t == [task[c] EXCEPT !.pc = "exec"]
<1>1. kind = "rows" /\ c \in Busy /\ task[c] \in Task
  BY AtRow DEF Lock, RowLabels
<1>2. /\ t \in Task /\ t.op = task[c].op /\ t.way = task[c].way /\ t.saving = task[c].saving
      /\ t.pc = "exec"
  BY <1>1 DEF Task, RowLabels
<1>3. Becomes(c, t)
  BY DEF Lock, Goto, Becomes
<1> HIDE DEF t
<1>4. RowMove(c, t)
  BY <1>1, <1>2, <1>3 DEF RowMove, RowLabels, Lock, history
<1>5. rows' = rows /\ acked' = acked /\ "message" \in Names
  BY DEF Lock, history, Names
<1> QED BY <1>2, <1>4, <1>5, RowStep

\* The mutex goes back and the operation fails.
LEMMA RowFails ==
  ASSUME IInv, NEW c \in Clients, NEW label \in RowLabels, At(c, label), Fails(c),
         UNCHANGED <<kind, fileVars, next, overlap, blanked, rows>>
  PROVE  IInv'
<1>1. RowMove(c, Idle)
  BY AtRow DEF RowMove, Fails
<1>2. "message" \in Names
  BY DEF Names
<1> QED BY <1>1, <1>2, RowStep DEF Fails

LEMMA RunAgainKeeps ==
  ASSUME IInv, NEW c \in Clients, NEW label \in RowLabels, At(c, label), RunAgain(c),
         UNCHANGED <<kind, fileVars, next, overlap, blanked>>
  PROVE  IInv'
<1> DEFINE t == [task[c] EXCEPT !.pc = "exec", !.at = (@ + 1) % Attempts]
<1>1. kind = "rows" /\ c \in Busy /\ task[c] \in Task
  BY AtRow
<1>2. CASE Fails(c)
  BY <1>2, RowFails DEF RunAgain
<1>3. CASE Becomes(c, t) /\ UNCHANGED acked
  <2>1. (task[c].at + 1) % Attempts \in Nat
    BY <1>1, StateAssumption DEF Task
  <2>2. /\ t \in Task /\ t.op = task[c].op /\ t.way = task[c].way /\ t.saving = task[c].saving
        /\ t.pc = "exec"
    BY <1>1, <2>1 DEF Task, RowLabels
  <2> HIDE DEF t
  <2>3. RowMove(c, t)
    BY <1>1, <1>3, <2>2 DEF RowMove, RowLabels
  <2>4. rows' = rows /\ "message" \in Names
    BY DEF RunAgain, Names
  <2> QED BY <1>3, <2>2, <2>3, <2>4, RowStep
<1> QED BY <1>2, <1>3 DEF RunAgain, Return

LEMMA StatementNames ==
  ASSUME NEW c, task[c].way \in {"message", "touched"}, NEW i \in {1, 2},
         i = 2 => task[c].way = "touched"
  PROVE  /\ Statements(c)[i] \in Names
         /\ task[c].way = "message" => Statements(c)[i] = "message"
<1>1. CASE task[c].way = "message"
  <2>1. i = 1
    BY <1>1
  <2>2. Statements(c)[1] = "message"
    BY <1>1 DEF Statements
  <2> QED BY <2>1, <2>2 DEF Names
<1>2. CASE task[c].way = "touched"
  <2>1. Statements(c)[1] = "first path" /\ Statements(c)[2] = "second path"
    BY <1>2 DEF Statements
  <2> QED BY <1>2, <2>1 DEF Names
<1> QED BY <1>1, <1>2

\* An insertion: the row is there then, and it was added at most once.
LEMMA InsertedRow ==
  ASSUME IInv, NEW c \in Clients, NEW label \in RowLabels, At(c, label), NEW i \in {1, 2},
         i = 2 => task[c].way = "touched", rows' = Inserted(c, i)
  PROVE  /\ Statements(c)[i] \in Names
         /\ <<task[c].op, Statements(c)[i]>> \in Rows' /\ Rows \subseteq Rows'
         /\ \/ rows' = rows
            \/ /\ rows' = Append(rows, <<task[c].op, Statements(c)[i]>>)
               /\ <<task[c].op, Statements(c)[i]>> \notin Rows
<1> DEFINE name == Statements(c)[i]
           row == <<task[c].op, name>>
<1>1. /\ kind = "rows" /\ task[c].op \in 2 .. MaxOps
      /\ task[c].way \in {"message", "touched"}
      /\ task[c].way = "message" => <<task[c].op, "message">> \notin Rows
  BY AtRow DEF Task
<1>2. name \in Names /\ (task[c].way = "message" => name = "message")
  BY <1>1, StatementNames
<1>3. row \in (1 .. MaxOps) \X Names
  BY <1>1, <1>2
<1>4. task[c].way = "message" => row \notin Rows
  BY <1>1, <1>2
<1>5. \/ rows' = rows /\ row \in Rows
      \/ rows' = Append(rows, row) /\ row \notin Rows
  BY <1>1, <1>4 DEF Inserted, Rows
<1>6. rows \in Seq((1 .. MaxOps) \X Names)
  BY <1>1 DEF IInv, RowInv
<1> HIDE DEF row, name
<1>7. row \in Rows' /\ Rows \subseteq Rows'
  <2>1. CASE rows' = rows /\ row \in Rows
    BY <2>1 DEF Rows
  <2>2. CASE rows' = Append(rows, row)
    BY <2>2, <1>3, <1>6, RowAdded
  <2> QED BY <1>5, <2>1, <2>2
<1> QED BY <1>2, <1>5, <1>7 DEF row, name

LEMMA ExecKeeps ==
  ASSUME IInv, NEW c \in Clients, Exec(c)
  PROVE  IInv'
<1> DEFINE t == [task[c] EXCEPT !.pc = "second"]
           name == Statements(c)[1]
<1>1. /\ At(c, "exec") /\ "exec" \in RowLabels
      /\ UNCHANGED <<kind, fileVars, next, overlap, blanked>>
  BY DEF Exec, RowLabels
<1>2. kind = "rows" /\ c \in Busy /\ task[c] \in Task
  BY <1>1, AtRow
<1>3. CASE RunAgain(c)
  BY <1>1, <1>3, RunAgainKeeps
<1>4. CASE Return(c, FALSE) /\ UNCHANGED rows
  BY <1>1, <1>4, RowFails DEF Return
<1>5. ASSUME rows' = Inserted(c, 1)
      PROVE  /\ name \in Names /\ <<task[c].op, name>> \in Rows'
             /\ \/ rows' = rows
                \/ /\ rows' = Append(rows, <<task[c].op, name>>)
                   /\ <<task[c].op, name>> \notin Rows
  <2>1. 1 \in {1, 2} /\ ~(1 = 2)
    OBVIOUS
  <2> QED BY <1>1, <1>5, <2>1, InsertedRow
<1>6. CASE rows' = Inserted(c, 1) /\ task[c].way = "message" /\ Return(c, TRUE)
  <2>1. name = "message"
    BY <1>6 DEF Statements
  <2>2. RowMove(c, Idle) /\ acked' = acked \cup {task[c].op}
    BY <1>1, <1>2, <1>6 DEF RowMove, Return, Succeeds
  <2> HIDE DEF name
  <2> QED BY <1>5, <1>6, <2>1, <2>2, RowStep
<1>7. CASE rows' = Inserted(c, 1) /\ task[c].way = "touched" /\ Goto(c, "second")
           /\ UNCHANGED <<mu, acked>>
  <2>1. name = "first path"
    BY <1>7 DEF Statements
  <2>2. /\ t \in Task /\ t.op = task[c].op /\ t.way = task[c].way /\ t.saving = task[c].saving
        /\ t.pc = "second"
    BY <1>2 DEF Task, RowLabels
  <2>3. Becomes(c, t)
    BY <1>7 DEF Goto, Becomes
  <2> HIDE DEF t, name
  <2>4. RowMove(c, t)
    BY <1>1, <1>2, <1>7, <2>2, <2>3 DEF RowMove, RowLabels
  <2> QED BY <1>5, <1>7, <2>1, <2>2, <2>4, RowStep
<1> QED BY <1>3, <1>4, <1>6, <1>7 DEF Exec

LEMMA ExecSecondKeeps ==
  ASSUME IInv, NEW c \in Clients, ExecSecond(c)
  PROVE  IInv'
<1> DEFINE name == Statements(c)[2]
<1>1. /\ At(c, "second") /\ "second" \in RowLabels
      /\ UNCHANGED <<kind, fileVars, next, overlap, blanked>>
  BY DEF ExecSecond, RowLabels
<1>2. /\ kind = "rows" /\ c \in Busy /\ task[c] \in Task
      /\ task[c].way = "touched" /\ <<task[c].op, "first path">> \in Rows
  BY <1>1, AtRow
<1>3. CASE RunAgain(c)
  BY <1>1, <1>3, RunAgainKeeps
<1>4. CASE Return(c, FALSE) /\ UNCHANGED rows
  BY <1>1, <1>4, RowFails DEF Return
<1>5. CASE rows' = Inserted(c, 2) /\ Return(c, TRUE)
  <2>1. name = "second path"
    BY <1>2 DEF Statements
  <2>2. RowMove(c, Idle) /\ acked' = acked \cup {task[c].op}
    BY <1>1, <1>2, <1>5 DEF RowMove, Return, Succeeds
  <2>3. /\ name \in Names /\ <<task[c].op, name>> \in Rows' /\ Rows \subseteq Rows'
        /\ \/ rows' = rows
           \/ /\ rows' = Append(rows, <<task[c].op, name>>)
              /\ <<task[c].op, name>> \notin Rows
    BY <1>1, <1>2, <1>5, InsertedRow
  <2>4. <<task[c].op, "first path">> \in Rows'
    BY <1>2, <2>3
  <2> HIDE DEF name
  <2> QED BY <1>2, <2>1, <2>2, <2>3, <2>4, RowStep
<1> QED BY <1>3, <1>4, <1>5 DEF ExecSecond

-----------------------------------------------------------------------------
(* The actions on both, and the theorems.                                  *)

\* A new operation has a number of its own, and overlaps those in progress.
LEMMA StartKeeps ==
  ASSUME IInv, NEW c \in Clients, Start(c)
  PROVE  IInv'
<1>1. PICK w \in Ways[kind] :
        task' = [task EXCEPT ![c] = [Idle EXCEPT !.pc = FirstStep, !.way = w, !.op = next]]
  BY DEF Start, Becomes
<1> DEFINE t == [Idle EXCEPT !.pc = FirstStep, !.way = w, !.op = next]
<1>2. /\ task[c] = Idle /\ next' = next + 1 /\ overlap' = (overlap \/ Busy # {})
      /\ UNCHANGED <<kind, published, temps, data, rows, acked, blanked>>
  BY DEF Start, fileVars
<1>3. Types /\ Numbers /\ Phases /\ FileInv /\ RowInv
  BY DEF IInv
<1>4. next \in 2 .. MaxOps /\ MaxOps \in Nat \ {0} /\ next' \in 2 .. MaxOps + 1
  BY <1>2, <1>3, StateAssumption DEF Start, Types
<1>5. /\ FirstStep \in {"lock", "open", "load"}
      /\ kind = "rows" <=> FirstStep = "lock"
      /\ FirstStep = "load" <=> kind \in {"config", "state", "agent"}
      /\ FirstStep = "open" <=> kind \in {"checkpoint", "memory"}
  BY <1>3 DEF FirstStep, Types, Kinds
<1>6. /\ w \in {"update", "session", "replace", "message", "touched"}
      /\ kind = "rows" => w \in {"message", "touched"}
  BY <1>3 DEF Ways, Types, Kinds
<1>7. /\ t \in Task /\ t # Idle /\ t.pc = FirstStep /\ t.op = next /\ t.way = w
      /\ t.saving = "own"
  BY <1>4, <1>5, <1>6 DEF Idle, Task, FileLabels, RowLabels, None
<1> HIDE DEF t
<1>8. /\ task' \in [Clients -> Task \cup {Idle}] /\ task'[c] = t
      /\ \A d \in Clients : d # c => task'[d] = task[d]
  BY <1>1, <1>3, <1>7 DEF Types, t
<1>9. Busy' = Busy \cup {c} /\ c \notin Busy
  BY <1>2, <1>7, <1>8 DEF Busy
<1>10. \A d \in Busy : task'[d] = task[d]
  BY <1>8, <1>9 DEF Busy
<1>11. Types'
  <2>1. acked' \subseteq 1 .. next' - 1
    BY <1>2, <1>3, <1>4 DEF Types
  <2> QED BY <1>2, <1>3, <1>4, <1>8, <2>1 DEF Types
<1>12. Numbers'
  <2>1. \A d \in Busy : task[d].op \in Int /\ task[d].op < next
    BY <1>3, OpType
  <2>2. \A d \in Busy' : task'[d].op < next'
    BY <1>2, <1>4, <1>7, <1>8, <1>9, <1>10, <2>1
  <2>3. \A d, e \in Busy' : task'[d].op = task'[e].op => d = e
    <3>1. \A d, e \in Busy : task'[d].op = task'[e].op => d = e
      BY <1>3, <1>10 DEF Numbers
    <3>2. task'[c].op = next /\ \A d \in Busy : task'[d].op # next
      BY <1>4, <1>7, <1>8, <1>10, <2>1
    <3> QED BY <1>9, <3>1, <3>2
  <2>4. ~overlap' => \A d \in Busy' : task'[d].op = next' - 1
    <3>1. ~overlap' => Busy' = {c}
      BY <1>2, <1>9
    <3>2. task'[c].op = next' - 1
      BY <1>2, <1>4, <1>7, <1>8
    <3> QED BY <3>1, <3>2
  <2> QED BY <2>2, <2>3, <2>4 DEF Numbers
<1>13. Phases'
  <2> SUFFICES ASSUME NEW d \in Busy'
               PROVE  (/\ IF kind = "rows" THEN /\ task[d].pc \in RowLabels
                                                /\ task[d].way \in {"message", "touched"}
                                           ELSE task[d].pc \in FileLabels
                       /\ task[d].pc = "second" => task[d].way = "touched"
                       /\ task[d].pc = "load" => kind \in {"config", "state", "agent"}
                       /\ task[d].saving = "first" => kind = "config")'
    BY DEF Phases
  <2>1. CASE d = c
    BY <2>1, <1>2, <1>5, <1>6, <1>7, <1>8 DEF RowLabels, FileLabels
  <2>2. CASE d # c
    BY <2>2, <1>2, <1>3, <1>9, <1>10 DEF Phases
  <2> QED BY <2>1, <2>2
<1>14. ASSUME kind # "rows"
       PROVE  Apart' /\ Held' /\ Readable' /\ Stored' /\ Covered' /\ UpdatesKept'
  <2>1. Held /\ Readable /\ Stored /\ Covered /\ UpdatesKept /\ Apart
    BY <1>3, <1>14 DEF FileInv
  <2>2. Apart' /\ Stored' /\ Read' = Read
    BY <1>2, <2>1 DEF Apart, Stored, Read
  <2>3. Alone' => Alone /\ (kind = "memory" \/ Busy = {})
    BY <1>2 DEF Alone
  <2>4. Readable' /\ UpdatesKept'
    BY <1>2, <2>1, <2>2, <2>3 DEF Readable, UpdatesKept
  <2>5. Held'
    <3> SUFFICES ASSUME Alone', NEW d \in Busy' PROVE Holds(d)'
      BY DEF Held
    <3>1. CASE d = c
      BY <3>1, <1>5, <1>7, <1>8 DEF Holds
    <3>2. CASE d # c
      <4>1. d \in Busy /\ task'[d] = task[d] /\ Holds(d)
        BY <3>2, <1>9, <1>10, <2>1, <2>3 DEF Held
      <4>2. TmpName(d)' = TmpName(d) /\ Saved(d)' = Saved(d)
        BY <1>2, <4>1 DEF TmpName, Saved
      <4> QED BY <1>2, <4>1, <4>2 DEF Holds
    <3> QED BY <3>1, <3>2
  <2>6. Covered'
    <3> SUFFICES ASSUME ~overlap', kind \notin {"checkpoint", "memory"}, NEW d \in Busy'
                 PROVE  task'[d].pc \notin {"open", "write", "rename"}
      BY <1>2 DEF Covered
    <3>1. d = c
      BY <1>2, <1>9
    <3> QED BY <3>1, <1>3, <1>5, <1>7, <1>8, <1>14 DEF Types, Kinds
  <2> QED BY <2>1, <2>2, <2>4, <2>5, <2>6
<1>15. ASSUME kind = "rows"
       PROVE  RowInv'
  <2>1. /\ rows \in Seq((1 .. MaxOps) \X Names) /\ \A r \in Rows : r[1] \in 1 .. next - 1
        /\ \A d \in Busy : task[d].way = "message" => <<task[d].op, "message">> \notin Rows
        /\ \A d \in Busy : task[d].pc = "second" => <<task[d].op, "first path">> \in Rows
        /\ RowsKept
    BY <1>3, <1>15 DEF RowInv
  <2>2. Rows' = Rows /\ RowsKept'
    BY <1>2, <2>1 DEF Rows, RowsKept
  <2>3. 1 .. next - 1 \subseteq 1 .. next' - 1 /\ next \notin 1 .. next - 1
    BY <1>2, <1>4
  <2>4. \A r \in Rows : r[1] \in 1 .. next' - 1
    BY <2>1, <2>3
  <2>5. <<next, "message">> \notin Rows
    <3>1. <<next, "message">>[1] = next
      OBVIOUS
    <3> QED BY <2>1, <2>3, <3>1
  <2>6. \A d \in Busy' : task'[d].way = "message" => <<task'[d].op, "message">> \notin Rows'
    BY <1>7, <1>8, <1>9, <1>10, <2>1, <2>2, <2>5
  <2>7. \A d \in Busy' : task'[d].pc = "second" => <<task'[d].op, "first path">> \in Rows'
    BY <1>5, <1>7, <1>8, <1>9, <1>10, <2>1, <2>2
  <2> QED BY <1>2, <2>1, <2>2, <2>4, <2>6, <2>7 DEF RowInv
<1> QED BY <1>2, <1>11, <1>12, <1>13, <1>14, <1>15 DEF IInv, FileInv, RowInv

LEMMA CrashKeeps ==
  ASSUME IInv, NEW p, Crash(p)
  PROVE  IInv'
<1>1. Types /\ Numbers /\ Phases /\ FileInv /\ RowInv
  BY DEF IInv
<1>2. /\ task' = [c \in Clients |-> IF Process(c) = p THEN Idle ELSE task[c]]
      /\ UNCHANGED <<kind, published, temps, data, rows, next, acked, overlap, blanked>>
  BY DEF Crash, fileVars, history
<1>3. /\ task' \in [Clients -> Task \cup {Idle}]
      /\ Busy' \subseteq Busy /\ \A d \in Busy' : task'[d] = task[d]
  BY <1>1, <1>2 DEF Types, Busy
<1>4. Types' /\ Numbers' /\ Phases'
  <2>1. Types'
    BY <1>1, <1>2, <1>3 DEF Types
  <2>2. Numbers'
    BY <1>1, <1>2, <1>3 DEF Numbers
  <2>3. Phases'
    BY <1>1, <1>2, <1>3 DEF Phases
  <2> QED BY <2>1, <2>2, <2>3
<1>5. Read' = Read /\ Rows' = Rows
  BY <1>2 DEF Read, Rows
<1>6. ASSUME kind # "rows"
      PROVE  Apart' /\ Held' /\ Readable' /\ Stored' /\ Covered' /\ UpdatesKept'
  <2>1. Held /\ Readable /\ Stored /\ Covered /\ UpdatesKept /\ Apart
    BY <1>1, <1>6 DEF FileInv
  <2>2. Alone' = Alone
    BY <1>2 DEF Alone
  <2>3. Apart' /\ Readable' /\ Stored' /\ UpdatesKept'
    BY <1>2, <1>5, <2>1, <2>2 DEF Apart, Readable, Stored, UpdatesKept
  <2>4. Covered'
    BY <1>2, <1>3, <2>1 DEF Covered
  <2>5. Held'
    <3> SUFFICES ASSUME Alone', NEW d \in Busy' PROVE Holds(d)'
      BY DEF Held
    <3>1. d \in Busy /\ task'[d] = task[d] /\ Holds(d)
      BY <1>3, <2>1, <2>2 DEF Held
    <3>2. TmpName(d)' = TmpName(d) /\ Saved(d)' = Saved(d)
      BY <1>2, <3>1 DEF TmpName, Saved
    <3> QED BY <1>2, <3>1, <3>2 DEF Holds
  <2> QED BY <2>3, <2>4, <2>5
<1>7. ASSUME kind = "rows"
      PROVE  RowInv'
  <2>1. RowsKept'
    BY <1>1, <1>2, <1>7 DEF RowInv, RowsKept
  <2>2. \A d \in Busy' : task'[d].way = "message" => <<task'[d].op, "message">> \notin Rows'
    BY <1>1, <1>3, <1>5, <1>7 DEF RowInv
  <2>3. \A d \in Busy' : task'[d].pc = "second" => <<task'[d].op, "first path">> \in Rows'
    BY <1>1, <1>3, <1>5, <1>7 DEF RowInv
  <2>4. /\ rows' \in Seq((1 .. MaxOps) \X Names)
        /\ \A r \in Rows' : r[1] \in 1 .. next' - 1
    BY <1>1, <1>2, <1>5, <1>7 DEF RowInv
  <2> QED BY <2>1, <2>2, <2>3, <2>4 DEF RowInv
<1> QED BY <1>2, <1>4, <1>6, <1>7 DEF IInv, FileInv, RowInv

LEMMA Inductive == IInv /\ [Next]_vars => IInv'
<1> SUFFICES ASSUME IInv, [Next]_vars PROVE IInv'
  OBVIOUS
<1>1. ASSUME NEW c \in Clients, Start(c)
      PROVE  IInv'
  BY <1>1, StartKeeps
<1>2. ASSUME NEW c \in Clients, Works(c)
      PROVE  IInv'
  BY <1>2, LoadKeeps, RefuseKeeps, OpenKeeps, WriteKeeps, RenameKeeps, UnlinkKeeps, LockKeeps,
     ExecKeeps, ExecSecondKeeps DEF Works
<1>3. ASSUME NEW p, Crash(p)
      PROVE  IInv'
  BY <1>3, CrashKeeps
<1>4. CASE UNCHANGED vars
  <2>1. UNCHANGED <<kind, published, temps, data, rows, task, next, acked, overlap, blanked>>
    BY <1>4 DEF vars, fileVars, history
  <2>2. Busy' = Busy /\ Read' = Read /\ Rows' = Rows /\ Alone' = Alone
    BY <2>1 DEF Busy, Read, Rows, Alone
  <2>3. Types' /\ Numbers' /\ Phases'
    BY <2>1, <2>2 DEF IInv, Types, Numbers, Phases
  <2>4. Held' = Held
    BY <2>1, <2>2 DEF Held, Holds, TmpName, Saved
  <2>5. FileInv'
    BY <2>1, <2>2, <2>4 DEF IInv, FileInv, Apart, Readable, Stored, Covered, UpdatesKept
  <2>6. RowInv'
    BY <2>1, <2>2 DEF IInv, RowInv, RowsKept
  <2> QED BY <2>3, <2>5, <2>6 DEF IInv
<1> QED BY <1>1, <1>2, <1>3, <1>4 DEF Next

(* What every load, save, insertion and crash keeps.                      *)
THEOREM Invariant == Spec => []IInv
BY Initially, Inductive, PTL DEF Spec

(* Types: an inode, a content and an operation's number are what they      *)
(* should be, and only operations that began are acknowledged.             *)
THEOREM TypeCorrect == Spec => []TypeOK
<1>1. IInv => TypeOK
  <2> SUFFICES ASSUME IInv PROVE TypeOK
    OBVIOUS
  <2>1. next \in 2 .. MaxOps + 1 /\ acked \subseteq 1 .. next - 1 /\ MaxOps \in Nat
    BY StateAssumption DEF IInv, Types
  <2>2. acked \subseteq 1 .. MaxOps
    BY <2>1
  <2> QED BY <2>1, <2>2 DEF IInv, Types, TypeOK, Contents
<1> QED BY Invariant, <1>1, PTL

(* As long as no two operations on a file were in progress at once, it is  *)
(* whole and holds what was acknowledged, whatever crashed or failed       *)
(* (config.go, workspace/store.go, tier4_runtime.go, tool_runtime.go).     *)
THEOREM UpdatesAlwaysKept == Spec => []UpdatesKept
<1>1. IInv => UpdatesKept
  BY DEF IInv, FileInv, UpdatesKept
<1> QED BY Invariant, <1>1, PTL

(* Project memory (platform/memory.go) can be read whatever overlaps,      *)
(* fails or dies, and once there it never goes.                            *)
THEOREM MemoryAlwaysWhole == Spec => []MemoryWhole
<1>1. IInv => MemoryWhole
  <2> SUFFICES ASSUME IInv, kind = "memory"
               PROVE  /\ Read.form \in {"absent", "whole"}
                      /\ acked # {} => Read.form = "whole"
    BY DEF MemoryWhole
  <2>1. Readable /\ Stored /\ Alone /\ Types
    BY DEF IInv, FileInv, Alone
  <2>2. acked # {} => Read.form \in {"whole", "empty", "torn"}
    BY <2>1 DEF Stored, Types, Contents, Read
  <2> QED BY <2>1, <2>2 DEF Readable
<1> QED BY Invariant, <1>1, PTL

(* What session.db (store.go) acknowledged is there, and no repetition of  *)
(* a half-done operation stores anything twice.                            *)
THEOREM RowsAlwaysKept == Spec => []RowsKept
<1>1. IInv => RowsKept
  BY DEF IInv, RowInv, RowsKept
<1> QED BY Invariant, <1>1, PTL
=============================================================================
