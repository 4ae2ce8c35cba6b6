------------------------- MODULE SrBridgeQueues_proofs -------------------------
(***************************************************************************)
(* Theorems about the two GPU queues of sr_bridge.cpp, for any number of   *)
(* frames, command slots, backends and fence values: the shared fence only *)
(* rises, the game gets its own images, and nothing that queued work uses  *)
(* is closed or replaced.                                                  *)
(*                                                                         *)
(* The fence orders everything.  Each queued command has a value the fence *)
(* stays below until the command has run (Bound) and one it has reached    *)
(* before it runs (Need); the two queues never share a Bound.              *)
(***************************************************************************)
EXTENDS SrBridge_proofs

-------------------------------------------------------------------------------
\* Queue commands.  The shared fence stays below Bound(c) until c has run, and reaches Need(c)
\* before c runs.

PlainCommand == [op : {"signal", "wait", "copyIn", "copyOut"}, v : Values]
ListCommand == [op : {"list"}, v : Values, instance : Instance \union {NoInstance}, surfaces : Nat, ok : BOOLEAN]
Command == PlainCommand \union ListCommand

Bound(c) == IF c.op = "copyOut" THEN c.v + 2 ELSE IF c.op \in {"wait", "list"} THEN c.v + 1 ELSE c.v
Need(c) == IF c.op = "copyOut" THEN c.v + 1 ELSE IF c.op = "list" THEN c.v ELSE c.v - 1

\* After c the fence has reached v.
Brings(c, v) == c.op \in {"signal", "wait"} /\ c.v >= v

\* No command of q is late; each waits, or comes after what brings the fence to it; no signal
\* brings the fence to what comes after; the queues do not meet in a Bound.
Bounded(q, f) == \A k \in 1..Len(q) : f < Bound(q[k])
Gated(q, f) == \A k \in 1..Len(q) : q[k].op # "wait" =>
                   f >= Need(q[k]) \/ \E j \in 1..Len(q) : j < k /\ Brings(q[j], Need(q[k]))
Sorted(q) == \A j, k \in 1..Len(q) : j < k /\ q[j].op = "signal" => q[j].v < Bound(q[k])
Rising(q, op) == \A j, k \in 1..Len(q) : j < k /\ q[j].op = op /\ q[k].op = op => q[j].v < q[k].v
Apart(q, p) == \A j \in 1..Len(q), k \in 1..Len(p) : Bound(q[j]) # Bound(p[k])
Has(q, op, n) == \E k \in 1..Len(q) : q[k].op = op /\ q[k].v = n
HasGood(q, n) == \E k \in 1..Len(q) : q[k].op = "list" /\ q[k].v = n /\ q[k].ok


\* Fields of a command.
LEMMA CommandFacts ==
  ASSUME NEW c \in Command
  PROVE  /\ c.v \in Nat /\ c.v \in Values /\ c.op \in {"signal", "wait", "copyIn", "copyOut", "list"}
         /\ Bound(c) \in Int /\ Need(c) \in Int
         /\ c.op \in {"signal", "copyIn"} => Bound(c) = c.v /\ Need(c) = c.v - 1
         /\ c.op = "wait" => Bound(c) = c.v + 1
         /\ c.op = "list" => Bound(c) = c.v + 1 /\ Need(c) = c.v
         /\ c.op = "copyOut" => Bound(c) = c.v + 2 /\ Need(c) = c.v + 1
         /\ c.op # "wait" => Need(c) = Bound(c) - 1
  <1>1. c.v \in Values /\ c.op \in {"signal", "wait", "copyIn", "copyOut", "list"}
    BY DEF Command, PlainCommand, ListCommand
  <1>2. c.v \in Nat
    BY <1>1, BridgeAssumption DEF Values
  <1> QED BY <1>1, <1>2 DEF Bound, Need

\* A queue's commands.
LEMMA QueueFacts ==
  ASSUME NEW q \in Seq(Command)
  PROVE  Len(q) \in Nat /\ \A k \in 1..Len(q) : q[k] \in Command
  OBVIOUS

\* The first command leaves.
LEMMA TailOf ==
  ASSUME NEW q \in Seq(Command), q # <<>>
  PROVE  /\ Tail(q) \in Seq(Command) /\ Len(q) \in Nat /\ Len(q) > 0 /\ Len(Tail(q)) = Len(q) - 1
         /\ Head(q) = q[1] /\ 1 \in 1..Len(q) /\ q[1] \in Command
         /\ \A k \in 1..Len(Tail(q)) : k + 1 \in 1..Len(q) /\ Tail(q)[k] = q[k + 1]
         /\ \A k \in 1..Len(q) : k # 1 => k - 1 \in 1..Len(Tail(q)) /\ Tail(q)[k - 1] = q[k]
  OBVIOUS

\* A fence that has risen still lets through what it let through.
LEMMA RaisedGated ==
  ASSUME NEW q \in Seq(Command), NEW f \in Nat, NEW g \in Nat, f <= g, Gated(q, f)
  PROVE  Gated(q, g)
  <1>1. \A k \in 1..Len(q) : Need(q[k]) \in Int
    BY QueueFacts, CommandFacts
  <1> QED BY <1>1 DEF Gated

\* What is behind the first command.
LEMMA PoppedGated ==
  ASSUME NEW q \in Seq(Command), q # <<>>, NEW f \in Nat, NEW g \in Nat, f <= g, Gated(q, f),
         q[1].op = "wait" => f >= q[1].v, q[1].op = "signal" => g = q[1].v
  PROVE  Gated(Tail(q), g)
  <1> SUFFICES ASSUME NEW k \in 1..Len(Tail(q)), Tail(q)[k].op # "wait"
               PROVE  g >= Need(Tail(q)[k]) \/ \E j \in 1..Len(Tail(q)) : j < k /\ Brings(Tail(q)[j], Need(Tail(q)[k]))
    BY DEF Gated
  <1>1. k + 1 \in 1..Len(q) /\ Tail(q)[k] = q[k + 1] /\ q[k + 1] \in Command /\ q[1] \in Command
    BY TailOf, QueueFacts
  <1>2. Need(q[k + 1]) \in Int /\ q[1].v \in Nat
    BY <1>1, CommandFacts
  <1>3. CASE f >= Need(q[k + 1])
    BY <1>1, <1>2, <1>3
  <1>4. ASSUME NEW j \in 1..Len(q), j < k + 1, Brings(q[j], Need(q[k + 1]))
        PROVE  g >= Need(Tail(q)[k]) \/ \E l \in 1..Len(Tail(q)) : l < k /\ Brings(Tail(q)[l], Need(Tail(q)[k]))
    <2>1. CASE j = 1
      <3>1. g >= q[1].v
        BY <1>2, <1>4, <2>1 DEF Brings
      <3>2. q[1].v >= Need(q[k + 1])
        BY <1>4, <2>1 DEF Brings
      <3> QED BY <1>1, <1>2, <3>1, <3>2
    <2>2. CASE j # 1
      <3>1. j - 1 \in 1..Len(Tail(q)) /\ Tail(q)[j - 1] = q[j] /\ j - 1 < k
        BY <1>4, <2>2, TailOf
      <3> QED BY <1>1, <1>4, <3>1
    <2> QED BY <2>1, <2>2
  <1> QED BY <1>1, <1>3, <1>4 DEF Gated

\* The rest of a queue keeps its order, and its distance from the other.
LEMMA PoppedOrder ==
  ASSUME NEW q \in Seq(Command), q # <<>>
  PROVE  /\ Sorted(q) => Sorted(Tail(q))
         /\ \A op : Rising(q, op) => Rising(Tail(q), op)
         /\ \A p : Apart(q, p) => Apart(Tail(q), p)
         /\ \A f : Bounded(q, f) => Bounded(Tail(q), f)
         /\ \A op, n : Has(Tail(q), op, n) => Has(q, op, n)
         /\ \A op, n : Has(q, op, n) => Has(Tail(q), op, n) \/ (q[1].op = op /\ q[1].v = n)
         /\ \A n : HasGood(q, n) => HasGood(Tail(q), n) \/ (q[1].op = "list" /\ q[1].v = n /\ q[1].ok)
  <1>1. /\ Len(Tail(q)) \in Nat
        /\ \A k \in 1..Len(Tail(q)) : k + 1 \in 1..Len(q) /\ Tail(q)[k] = q[k + 1]
        /\ \A k \in 1..Len(q) : k # 1 => k - 1 \in 1..Len(Tail(q)) /\ Tail(q)[k - 1] = q[k]
    BY TailOf
  <1>2. Sorted(q) => Sorted(Tail(q))
    BY <1>1 DEF Sorted
  <1>3. \A op : Rising(q, op) => Rising(Tail(q), op)
    BY <1>1 DEF Rising
  <1>4. \A p : Apart(q, p) => Apart(Tail(q), p)
    BY <1>1 DEF Apart
  <1>5. \A f : Bounded(q, f) => Bounded(Tail(q), f)
    BY <1>1 DEF Bounded
  <1>6. \A op, n : Has(Tail(q), op, n) => Has(q, op, n)
    BY <1>1 DEF Has
  <1>7. \A op, n : Has(q, op, n) => Has(Tail(q), op, n) \/ (q[1].op = op /\ q[1].v = n)
    BY <1>1 DEF Has
  <1>8. \A n : HasGood(q, n) => HasGood(Tail(q), n) \/ (q[1].op = "list" /\ q[1].v = n /\ q[1].ok)
    BY <1>1 DEF HasGood
  <1> QED BY <1>2, <1>3, <1>4, <1>5, <1>6, <1>7, <1>8

\* The fence around two queues.
Fenced(q, p, f) ==
    /\ Bounded(q, f) /\ Bounded(p, f) /\ Gated(q, f) /\ Gated(p, f)
    /\ Sorted(q) /\ Sorted(p) /\ Apart(q, p)

\* It does not matter which queue is which.
LEMMA FencedBothWays == \A q, p, f : Fenced(q, p, f) <=> Fenced(p, q, f)
  BY DEF Fenced, Apart

\* A signal at the head of one queue raises the fence, and not past what either queue still has.
LEMMA SignalRaises ==
  ASSUME NEW q \in Seq(Command), NEW p \in Seq(Command), NEW f \in Nat, Fenced(q, p, f), q # <<>>, q[1].op = "signal"
  PROVE  f < q[1].v /\ Bounded(Tail(q), q[1].v) /\ Bounded(p, q[1].v)
  <1>1. q[1] \in Command /\ 1 \in 1..Len(q)
    BY TailOf
  <1>2. Bound(q[1]) = q[1].v /\ Need(q[1]) = q[1].v - 1 /\ q[1].v \in Nat
    BY <1>1, CommandFacts
  <1>3. f < q[1].v
    BY <1>1, <1>2 DEF Fenced, Bounded
  <1>4. f >= q[1].v - 1
    <2>1. \A j \in 1..Len(q) : ~(j < 1)
      BY QueueFacts
    <2> QED BY <1>1, <1>2, <2>1 DEF Fenced, Gated
  <1>5. Bounded(Tail(q), q[1].v)
    <2> SUFFICES ASSUME NEW k \in 1..Len(Tail(q)) PROVE q[1].v < Bound(Tail(q)[k])
      BY DEF Bounded
    <2>1. k + 1 \in 1..Len(q) /\ Tail(q)[k] = q[k + 1] /\ 1 < k + 1
      BY TailOf
    <2> QED BY <1>1, <2>1 DEF Fenced, Sorted
  <1>6. Bounded(p, q[1].v)
    <2> SUFFICES ASSUME NEW k \in 1..Len(p) PROVE q[1].v < Bound(p[k])
      BY DEF Bounded
    <2>1. f < Bound(p[k]) /\ Bound(p[k]) \in Int /\ Bound(p[k]) # q[1].v
      <3>1. Bound(p[k]) \in Int
        BY QueueFacts, CommandFacts
      <3>2. Bound(q[1]) # Bound(p[k])
        BY <1>1 DEF Fenced, Apart
      <3> QED BY <1>2, <3>1, <3>2 DEF Fenced, Bounded
    <2> QED BY <1>2, <1>3, <1>4, <2>1
  <1> QED BY <1>3, <1>5, <1>6

\* The head of a queue runs: a signal sets the fence, a wait finds it where it waits for it.
LEMMA HeadRuns ==
  ASSUME NEW q \in Seq(Command), NEW p \in Seq(Command), NEW f \in Nat, NEW g \in Nat, Fenced(q, p, f), q # <<>>,
         q[1].op = "signal" => g = q[1].v, q[1].op # "signal" => g = f, q[1].op = "wait" => f >= q[1].v
  PROVE  f <= g /\ Fenced(Tail(q), p, g)
  <1>1. f <= g /\ Bounded(Tail(q), g) /\ Bounded(p, g)
    <2>1. CASE q[1].op = "signal"
      BY <2>1, SignalRaises
    <2>2. CASE q[1].op # "signal"
      BY <2>2, PoppedOrder DEF Fenced
    <2> QED BY <2>1, <2>2
  <1>2. Gated(Tail(q), g)
    BY <1>1, PoppedGated DEF Fenced
  <1>3. Gated(p, g)
    BY <1>1, RaisedGated DEF Fenced
  <1>4. Sorted(Tail(q)) /\ Sorted(p) /\ Apart(Tail(q), p)
    BY PoppedOrder DEF Fenced
  <1> QED BY <1>1, <1>2, <1>3, <1>4 DEF Fenced

-------------------------------------------------------------------------------
\* What an evaluation queues.

\* q is continued by the first n commands of the batch.
Extends(q, new, batch, n) ==
    /\ new \in Seq(Command) /\ Len(new) = Len(q) + n
    /\ \A k \in 1..Len(q) : new[k] = q[k]
    /\ \A k \in 1..n : new[Len(q) + k] = batch[k]

\* All that an evaluation whose inputs are tick r may queue.
Batch11(r) == <<CopyIn(r), Signal(r), Wait(r + 1), CopyOut(r), Signal(r + 2)>>
Batch12(r, list) == <<Wait(r), list, Signal(r + 1)>>

\* The steps are told apart by their names.
LEMMA StepNames ==
  /\ \A i, j \in 1..7 : Steps[i] = Steps[j] => i = j
  /\ DOMAIN Steps = 1..7
  /\ Steps[1] = "signal" /\ Steps[2] = "wait12" /\ Steps[3] = "close" /\ Steps[4] = "signal12"
  /\ Steps[5] = "wait11" /\ Steps[6] = "copied" /\ Steps[7] = "none"
  BY DEF Steps

\* An evaluation that fails at one step has reached the ones before.
LEMMA ReachesOf ==
  ASSUME NEW x \in 1..7, NEW i \in 1..7
  PROVE  Reaches(Steps[x], Steps[i]) <=> i < x
  BY StepNames DEF Reaches

\* Two sequences of commands in a row.
LEMMA Concatenated ==
  ASSUME NEW a \in Seq(Command), NEW b \in Seq(Command)
  PROVE  /\ (a \o b) \in Seq(Command) /\ Len(a \o b) = Len(a) + Len(b) /\ Len(a) \in Nat /\ Len(b) \in Nat
         /\ \A k \in 1..Len(a) : (a \o b)[k] = a[k]
         /\ \A k \in 1..Len(b) : (a \o b)[Len(a) + k] = b[k]
  OBVIOUS

\* One command, if it is queued.
LEMMA IfFacts ==
  ASSUME NEW c \in Command, NEW condition
  PROVE  /\ If(condition, <<c>>) \in Seq(Command)
         /\ Len(If(condition, <<c>>)) = IF condition THEN 1 ELSE 0
         /\ condition => If(condition, <<c>>)[1] = c
  BY DEF If

\* A queue and what was put behind it.
LEMMA ExtendsBy ==
  ASSUME NEW q \in Seq(Command), NEW b \in Seq(Command), NEW batch, NEW n \in Nat, Len(b) = n,
         \A k \in 1..n : b[k] = batch[k]
  PROVE  Extends(q, q \o b, batch, n)
  <1>1. q \o b \in Seq(Command) /\ Len(q \o b) = Len(q) + n /\ Len(q) \in Nat
    OBVIOUS
  <1>2. \A k \in 1..Len(q) : (q \o b)[k] = q[k]
    OBVIOUS
  <1>3. \A k \in 1..n : (q \o b)[Len(q) + k] = b[k]
    OBVIOUS
  <1> QED BY <1>1, <1>2, <1>3 DEF Extends

\* In two parts.
LEMMA ExtendsTwice ==
  ASSUME NEW q \in Seq(Command), NEW a \in Seq(Command), NEW b \in Seq(Command), NEW batch, NEW n \in Nat, NEW m \in Nat,
         Len(a) = n, Len(b) = m, \A k \in 1..n : a[k] = batch[k], \A k \in 1..m : b[k] = batch[n + k]
  PROVE  Extends(q, (q \o a) \o b, batch, n + m)
  <1> DEFINE c == q \o a
  <1>1. c \in Seq(Command) /\ Len(c) = Len(q) + n /\ Len(q) \in Nat
        /\ (\A k \in 1..Len(q) : c[k] = q[k]) /\ (\A k \in 1..n : c[Len(q) + k] = batch[k])
    BY ExtendsBy, SMTT(30) DEF Extends
  <1> HIDE DEF c
  <1>2. c \o b \in Seq(Command) /\ Len(c \o b) = Len(c) + m
        /\ (\A k \in 1..Len(c) : (c \o b)[k] = c[k]) /\ (\A k \in 1..m : (c \o b)[Len(c) + k] = b[k])
    <2>1. \A k \in 1..m : b[k] = b[k]
      OBVIOUS
    <2>2. Extends(c, c \o b, b, m)
      BY <1>1, <2>1, ExtendsBy
    <2> QED BY <2>2 DEF Extends
  <1>3. \A k \in 1..Len(q) : (c \o b)[k] = q[k]
    BY <1>1, <1>2
  <1>4. ASSUME NEW k \in 1..(n + m) PROVE (c \o b)[Len(q) + k] = batch[k]
    <2>1. CASE k <= n
      <3>1. Len(q) + k \in 1..Len(c) /\ k \in 1..n
        BY <1>1, <2>1
      <3>2. (c \o b)[Len(q) + k] = c[Len(q) + k]
        BY <1>2, <3>1
      <3>3. c[Len(q) + k] = batch[k]
        BY <1>1, <3>1
      <3> QED BY <3>2, <3>3
    <2>2. CASE k > n
      <3>1. k - n \in 1..m /\ Len(c) + (k - n) = Len(q) + k /\ n + (k - n) = k
        BY <1>1, <2>2
      <3>2. (c \o b)[Len(c) + (k - n)] = b[k - n]
        BY <1>2, <3>1
      <3>3. b[k - n] = batch[n + (k - n)]
        BY <3>1
      <3>4. (c \o b)[Len(q) + k] = b[k - n]
        BY <3>1, <3>2, Zenon
      <3>5. b[k - n] = batch[k]
        BY <3>1, <3>3, Zenon
      <3> QED BY <3>4, <3>5
    <2>3. k <= n \/ k > n
      OBVIOUS
    <2> QED BY <2>1, <2>2, <2>3, Zenon
  <1>5. Len(c \o b) = Len(q) + (n + m)
    BY <1>1, <1>2
  <1> QED BY <1>2, <1>3, <1>4, <1>5 DEF Extends, c

\* How far an evaluation that fails at step x, whose list is good or not, gets on each queue, and
\* what bridge.tick then is.
Length11(x, ok) == IF x = 1 THEN 1 ELSE IF x < 6 THEN 2 ELSE IF x = 6 THEN 4 ELSE IF ok THEN 5 ELSE 3
Length12(x) == IF x < 3 THEN 0 ELSE IF x > 4 THEN 3 ELSE x - 2
TickOf(x, ok, r) == IF x > 5 /\ ok THEN r + 2 ELSE IF x > 3 THEN r + 1 ELSE r

\* The queues after it.
LEMMA QueueShape ==
  ASSUME TypeOK, q11 \in Seq(Command), q12 \in Seq(Command), NEW x \in 1..7, NEW ok \in BOOLEAN, x = 6 => ok,
         NEW r \in Nat, r + 2 <= MaxTick, Queue(Steps[x], ok, r)
  PROVE  /\ Extends(q11, q11', Batch11(r), Length11(x, ok))
         /\ Extends(q12, q12', Batch12(r, List(r, session.backend, bridge.surfaces, ok)), Length12(x))
         /\ flushed' \in 0..Len(q11')
         /\ bridge'.tick = TickOf(x, ok, r) /\ bridge'.faulted = (x # 7)
         /\ UNCHANGED <<bridge.state, bridge.size, bridge.surfaces>>
  <1> DEFINE list == List(r, session.backend, bridge.surfaces, ok)
             at == Steps[x]
  <1>0. /\ r \in Values /\ r + 1 \in Values /\ r + 2 \in Values
        /\ bridge.surfaces \in Nat /\ session.backend \in Instance \union {NoInstance}
    <2>1. r \in Values /\ r + 1 \in Values /\ r + 2 \in Values
      BY BridgeAssumption DEF Values
    <2>2. bridge.surfaces \in Nat
      BY DEF TypeOK
    <2>3. session.backend \in Instance \union {NoInstance}
      BY DEF TypeOK, SessionTypeOK
    <2> QED BY <2>1, <2>2, <2>3
  <1>1. /\ CopyIn(r) \in Command /\ Signal(r) \in Command /\ Wait(r + 1) \in Command /\ CopyOut(r) \in Command
        /\ Signal(r + 2) \in Command /\ Wait(r) \in Command /\ Signal(r + 1) \in Command
    BY <1>0 DEF CopyIn, Signal, Wait, CopyOut, Command, PlainCommand
  <1>2. list \in Command
    BY <1>0 DEF List, Command, ListCommand
  <1>3. /\ Reaches(at, "signal") <=> 1 < x
        /\ Reaches(at, "wait12") <=> 2 < x
        /\ Reaches(at, "close") <=> 3 < x
        /\ Reaches(at, "signal12") <=> 4 < x
        /\ Reaches(at, "wait11") <=> 5 < x
        /\ Reaches(at, "copied") <=> 6 < x
        /\ at = "none" <=> x = 7
    BY ReachesOf, StepNames
  <1> DEFINE first == Queue11First(at, r)
             then == Queue11Then(at, r, ok)
             twelve == Queue12(at, r, list)
  <1>4. q11' = (q11 \o first) \o then /\ q12' = q12 \o twelve
        /\ flushed' = IF Reaches(at, "signal") THEN Len(q11 \o first) ELSE flushed
    BY DEF Queue
  <1> HIDE DEF list, at
  <1>5. /\ twelve \in Seq(Command) /\ Len(twelve) = Length12(x)
        /\ \A k \in 1..Length12(x) : twelve[k] = Batch12(r, list)[k]
    <2> DEFINE w == If(Reaches(at, "wait12"), <<Wait(r)>>)
               l == If(Reaches(at, "close"), <<list>>)
               s == If(Reaches(at, "signal12"), <<Signal(r + 1)>>)
    <2>1. /\ w \in Seq(Command) /\ Len(w) = (IF 2 < x THEN 1 ELSE 0) /\ (2 < x => w[1] = Wait(r))
          /\ l \in Seq(Command) /\ Len(l) = (IF 3 < x THEN 1 ELSE 0) /\ (3 < x => l[1] = list)
          /\ s \in Seq(Command) /\ Len(s) = (IF 4 < x THEN 1 ELSE 0) /\ (4 < x => s[1] = Signal(r + 1))
      BY <1>1, <1>2, <1>3, IfFacts
    <2>2. twelve = (w \o l) \o s
      BY DEF Queue12
    <2> HIDE DEF w, l, s, twelve
    <2>3. (w \o l) \in Seq(Command) /\ Len(w \o l) = Len(w) + Len(l)
          /\ (2 < x => (w \o l)[1] = Wait(r)) /\ (3 < x => (w \o l)[2] = list)
      <3>1. \A k \in 1..Len(w) : (w \o l)[k] = w[k]
        BY <2>1, Concatenated
      <3>2. \A k \in 1..Len(l) : (w \o l)[Len(w) + k] = l[k]
        BY <2>1, Concatenated
      <3>3. (w \o l) \in Seq(Command) /\ Len(w \o l) = Len(w) + Len(l)
        BY <2>1, Concatenated
      <3> QED BY <2>1, <3>1, <3>2, <3>3, SMTT(30)
    <2>4. twelve \in Seq(Command) /\ Len(twelve) = Len(w \o l) + Len(s)
          /\ (2 < x => twelve[1] = Wait(r)) /\ (3 < x => twelve[2] = list) /\ (4 < x => twelve[3] = Signal(r + 1))
      <3> DEFINE wl == w \o l
      <3>0. /\ wl \in Seq(Command) /\ Len(wl) = (IF 2 < x THEN 1 ELSE 0) + (IF 3 < x THEN 1 ELSE 0)
            /\ (2 < x => wl[1] = Wait(r)) /\ (3 < x => wl[2] = list)
        BY <2>1, <2>3
      <3> HIDE DEF wl
      <3>1. \A k \in 1..Len(wl) : (wl \o s)[k] = wl[k]
        BY <2>1, <3>0, Concatenated
      <3>2. \A k \in 1..Len(s) : (wl \o s)[Len(wl) + k] = s[k]
        BY <2>1, <3>0, Concatenated
      <3>3. (wl \o s) \in Seq(Command) /\ Len(wl \o s) = Len(wl) + Len(s)
        BY <2>1, <3>0, Concatenated
      <3>4. twelve = wl \o s
        BY <2>2 DEF wl
      <3> QED BY <2>1, <3>0, <3>1, <3>2, <3>3, <3>4, SMTT(30) DEF wl
    <2>5. Len(twelve) = Length12(x)
      BY <2>1, <2>3, <2>4, SMTT(30) DEF Length12
    <2>6. Batch12(r, list)[1] = Wait(r) /\ Batch12(r, list)[2] = list /\ Batch12(r, list)[3] = Signal(r + 1)
      BY DEF Batch12
    <2>7. \A k \in 1..Length12(x) : (k = 1 /\ 2 < x) \/ (k = 2 /\ 3 < x) \/ (k = 3 /\ 4 < x)
      BY DEF Length12
    <2> QED BY <2>4, <2>5, <2>6, <2>7
  <1>6. /\ first \in Seq(Command) /\ Len(first) = (IF x = 1 THEN 1 ELSE 2)
        /\ first[1] = CopyIn(r) /\ (x # 1 => first[2] = Signal(r))
    <2> DEFINE c == <<CopyIn(r)>>
               s == If(Reaches(at, "signal"), <<Signal(r)>>)
    <2>1. /\ c \in Seq(Command) /\ Len(c) = 1 /\ c[1] = CopyIn(r)
          /\ s \in Seq(Command) /\ Len(s) = (IF 1 < x THEN 1 ELSE 0) /\ (1 < x => s[1] = Signal(r))
      BY <1>1, <1>3, IfFacts
    <2>2. first = c \o s
      BY DEF Queue11First
    <2> HIDE DEF c, s, first
    <2>3. (\A k \in 1..Len(c) : (c \o s)[k] = c[k]) /\ (\A k \in 1..Len(s) : (c \o s)[Len(c) + k] = s[k])
      BY <2>1, Concatenated
    <2>4. (c \o s) \in Seq(Command) /\ Len(c \o s) = Len(c) + Len(s)
      BY <2>1, Concatenated
    <2> QED BY <2>1, <2>2, <2>3, <2>4
  <1>7. /\ then \in Seq(Command) /\ Len(then) = (IF x < 6 THEN 0 ELSE IF x = 6 THEN 2 ELSE IF ok THEN 3 ELSE 1)
        /\ (5 < x => then[1] = Wait(r + 1)) /\ (5 < x /\ ok => then[2] = CopyOut(r))
        /\ (6 < x /\ ok => then[3] = Signal(r + 2))
    <2> DEFINE w == <<Wait(r + 1)>>
               o == If(ok, <<CopyOut(r)>>)
               wo == w \o o
               y == If(Reaches(at, "wait11"), wo)
               s == If(ok /\ Reaches(at, "copied"), <<Signal(r + 2)>>)
    <2>1. /\ w \in Seq(Command) /\ Len(w) = 1 /\ w[1] = Wait(r + 1)
          /\ o \in Seq(Command) /\ Len(o) = (IF ok THEN 1 ELSE 0) /\ (ok => o[1] = CopyOut(r))
          /\ s \in Seq(Command) /\ Len(s) = (IF ok /\ 6 < x THEN 1 ELSE 0) /\ (ok /\ 6 < x => s[1] = Signal(r + 2))
      <3>1. w \in Seq(Command) /\ Len(w) = 1 /\ w[1] = Wait(r + 1)
        BY <1>1
      <3>2. o \in Seq(Command) /\ Len(o) = (IF ok THEN 1 ELSE 0) /\ (ok => o[1] = CopyOut(r))
        BY <1>1, IfFacts
      <3>3. (ok /\ Reaches(at, "copied")) <=> (ok /\ 6 < x)
        BY <1>3
      <3>4. /\ s \in Seq(Command) /\ Len(s) = (IF ok /\ Reaches(at, "copied") THEN 1 ELSE 0)
            /\ (ok /\ Reaches(at, "copied") => s[1] = Signal(r + 2))
        BY <1>1, IfFacts
      <3> HIDE DEF w, o, s
      <3> QED BY <3>1, <3>2, <3>3, <3>4
    <2>2. then = y \o s
      BY DEF Queue11Then
    <2>3. y = IF 5 < x THEN wo ELSE <<>>
      BY <1>3 DEF If
    <2>4. wo = w \o o
      OBVIOUS
    <2> HIDE DEF w, o, wo, y, s, then
    <2>5. /\ wo \in Seq(Command) /\ Len(wo) = (IF ok THEN 2 ELSE 1)
          /\ wo[1] = Wait(r + 1) /\ (ok => wo[2] = CopyOut(r))
      <3>1. (\A k \in 1..Len(w) : (w \o o)[k] = w[k]) /\ (\A k \in 1..Len(o) : (w \o o)[Len(w) + k] = o[k])
        BY <2>1, Concatenated
      <3>2. (w \o o) \in Seq(Command) /\ Len(w \o o) = Len(w) + Len(o)
        BY <2>1, Concatenated
      <3> QED BY <2>1, <2>4, <3>1, <3>2, SMTT(30)
    <2>6. /\ y \in Seq(Command) /\ Len(y) = (IF 5 < x THEN IF ok THEN 2 ELSE 1 ELSE 0)
          /\ (5 < x => y[1] = Wait(r + 1)) /\ (5 < x /\ ok => y[2] = CopyOut(r))
      <3>1. CASE 5 < x
        <4>1. y = wo
          BY <2>3, <3>1
        <4> QED BY <2>5, <3>1, <4>1
      <3>2. CASE ~(5 < x)
        <4>1. y = <<>>
          BY <2>3, <3>2
        <4> QED BY <3>2, <4>1
      <3> QED BY <3>1, <3>2
    <2>7. (\A k \in 1..Len(y) : (y \o s)[k] = y[k]) /\ (\A k \in 1..Len(s) : (y \o s)[Len(y) + k] = s[k])
      BY <2>1, <2>6, Concatenated
    <2>8. (y \o s) \in Seq(Command) /\ Len(y \o s) = Len(y) + Len(s)
      BY <2>1, <2>6, Concatenated
    <2>9. Len(then) = (IF x < 6 THEN 0 ELSE IF x = 6 THEN 2 ELSE IF ok THEN 3 ELSE 1)
      <3>1. CASE 6 < x
        BY <2>1, <2>2, <2>6, <2>8, <3>1
      <3>2. CASE x = 6
        BY <2>1, <2>2, <2>6, <2>8, <3>2
      <3>3. CASE x < 6
        BY <2>1, <2>2, <2>6, <2>8, <3>3
      <3> QED BY <3>1, <3>2, <3>3
    <2>10. ASSUME 5 < x PROVE then[1] = Wait(r + 1) /\ (ok => then[2] = CopyOut(r))
      BY <2>2, <2>6, <2>7, <2>10
    <2>11. ASSUME 6 < x, ok PROVE then[3] = Signal(r + 2)
      <3>1. Len(y) = 2 /\ Len(s) = 1 /\ s[1] = Signal(r + 2)
        BY <2>1, <2>6, <2>11
      <3>0. 1 \in 1..Len(s)
        BY <3>1
      <3>2. (y \o s)[Len(y) + 1] = s[1]
        BY <2>7, <3>0, Zenon
      <3>3. Len(y) + 1 = 3
        BY <3>1
      <3> QED BY <2>2, <3>1, <3>2, <3>3, Zenon
    <2> QED BY <2>2, <2>8, <2>9, <2>10, <2>11
  <1> HIDE DEF first, then, twelve
  <1>8. /\ Batch11(r)[1] = CopyIn(r) /\ Batch11(r)[2] = Signal(r) /\ Batch11(r)[3] = Wait(r + 1)
        /\ Batch11(r)[4] = CopyOut(r) /\ Batch11(r)[5] = Signal(r + 2)
    BY DEF Batch11
  <1>9. Extends(q11, q11', Batch11(r), Length11(x, ok))
    <2>1. \A k \in 1..Len(first) : first[k] = Batch11(r)[k]
      <3>1. \A k \in 1..Len(first) : k = 1 \/ (k = 2 /\ x # 1)
        BY <1>6
      <3> QED BY <1>6, <1>8, <3>1
    <2>2. \A k \in 1..Len(then) : then[k] = Batch11(r)[Len(first) + k]
      <3>1. \A k \in 1..Len(then) : \/ k = 1 /\ 5 < x
                                    \/ k = 2 /\ 5 < x /\ ok
                                    \/ k = 3 /\ 6 < x /\ ok
        BY <1>7
      <3> SUFFICES ASSUME NEW k \in 1..Len(then) PROVE then[k] = Batch11(r)[Len(first) + k]
        OBVIOUS
      <3>2. Len(first) = 2
        BY <1>6, <3>1
      <3>3. CASE k = 1
        <4>1. Len(first) + k = 3 /\ then[1] = Wait(r + 1)
          BY <1>7, <3>1, <3>2, <3>3
        <4> QED BY <1>8, <3>3, <4>1
      <3>4. CASE k = 2
        <4>1. Len(first) + k = 4 /\ then[2] = CopyOut(r)
          BY <1>7, <3>1, <3>2, <3>4
        <4> QED BY <1>8, <3>4, <4>1
      <3>5. CASE k = 3
        <4>1. Len(first) + k = 5 /\ then[3] = Signal(r + 2)
          BY <1>7, <3>1, <3>2, <3>5
        <4> QED BY <1>8, <3>5, <4>1
      <3> QED BY <3>1, <3>3, <3>4, <3>5
    <2>3. Len(first) + Len(then) = Length11(x, ok) /\ Len(first) \in Nat /\ Len(then) \in Nat
      BY <1>6, <1>7 DEF Length11
    <2>4. Extends(q11, (q11 \o first) \o then, Batch11(r), Len(first) + Len(then))
      BY <1>6, <1>7, <2>1, <2>2, <2>3, ExtendsTwice
    <2> QED BY <1>4, <2>3, <2>4
  <1>10. Extends(q12, q12', Batch12(r, list), Length12(x))
    <2>1. Length12(x) \in Nat
      BY DEF Length12
    <2> QED BY <1>4, <1>5, <2>1, ExtendsBy
  <1>11. flushed' \in 0..Len(q11')
    <2>1. Len(q11 \o first) = Len(q11) + Len(first) /\ Len(q11) \in Nat
      BY <1>6, Concatenated
    <2>2. Len(q11') = Len(q11) + Length11(x, ok)
      BY <1>9 DEF Extends
    <2>3. Len(first) <= Length11(x, ok) /\ Len(first) \in Nat /\ Length11(x, ok) \in Nat
      BY <1>6 DEF Length11
    <2>4. flushed \in 0..Len(q11)
      BY DEF TypeOK
    <2> QED BY <1>4, <2>1, <2>2, <2>3, <2>4
  <1>12. /\ bridge'.tick = TickOf(x, ok, r) /\ bridge'.faulted = (x # 7)
         /\ UNCHANGED <<bridge.state, bridge.size, bridge.surfaces>>
    <2>1. TickAt(at, r, ok) = TickOf(x, ok, r)
      BY <1>3 DEF TickAt, TickOf
    <2>2. at = "none" <=> x = 7
      BY <1>3
    <2>3. /\ bridge'.tick = TickAt(at, r, ok) /\ bridge'.faulted = (at # "none")
          /\ UNCHANGED <<bridge.state, bridge.size, bridge.surfaces>>
      BY DEF Queue, TypeOK, at
    <2> QED BY <2>1, <2>2, <2>3
  <1> QED BY <1>9, <1>10, <1>11, <1>12 DEF list

\* Where a command of the new queue comes from.
LEMMA ExtendedIndex ==
  ASSUME NEW q \in Seq(Command), NEW new, NEW batch, NEW n \in Nat, Extends(q, new, batch, n)
  PROVE  /\ new \in Seq(Command) /\ Len(q) \in Nat /\ Len(new) = Len(q) + n
         /\ \A k \in 1..Len(q) : k \in 1..Len(new) /\ new[k] = q[k]
         /\ \A i \in 1..n : Len(q) + i \in 1..Len(new) /\ new[Len(q) + i] = batch[i] /\ batch[i] \in Command
         /\ \A k \in 1..Len(new) : k \in 1..Len(q) \/ (k - Len(q) \in 1..n /\ k = Len(q) + (k - Len(q)))
  <1>1. /\ new \in Seq(Command) /\ Len(q) \in Nat /\ Len(new) = Len(q) + n
        /\ (\A k \in 1..Len(q) : new[k] = q[k]) /\ (\A i \in 1..n : new[Len(q) + i] = batch[i])
    BY DEF Extends
  <1>2. \A k \in 1..Len(q) : k \in 1..Len(new)
    BY <1>1
  <1>3. \A i \in 1..n : Len(q) + i \in 1..Len(new)
    BY <1>1
  <1>4. \A k \in 1..Len(new) : k \in 1..Len(q) \/ (k - Len(q) \in 1..n /\ k = Len(q) + (k - Len(q)))
    BY <1>1
  <1>5. \A i \in 1..n : batch[i] \in Command
    <2>1. \A k \in 1..Len(new) : new[k] \in Command
      BY <1>1
    <2> QED BY <1>1, <1>3, <2>1
  <1> QED BY <1>1, <1>2, <1>3, <1>4, <1>5

\* What comes behind a gated queue is gated by it, or by itself.
LEMMA ExtendedGated ==
  ASSUME NEW q \in Seq(Command), NEW new, NEW batch, NEW n \in Nat, Extends(q, new, batch, n), NEW f \in Nat, Gated(q, f),
         \A i \in 1..n : batch[i].op # "wait" =>
            \/ f >= Need(batch[i])
            \/ \E k \in 1..Len(q) : Brings(q[k], Need(batch[i]))
            \/ \E j \in 1..n : j < i /\ Brings(batch[j], Need(batch[i]))
  PROVE  Gated(new, f)
  <1> SUFFICES ASSUME NEW k \in 1..Len(new), new[k].op # "wait"
               PROVE  f >= Need(new[k]) \/ \E j \in 1..Len(new) : j < k /\ Brings(new[j], Need(new[k]))
    BY DEF Gated
  <1>0. /\ Len(q) \in Nat /\ (\A l \in 1..Len(q) : l \in 1..Len(new) /\ new[l] = q[l])
        /\ \A i \in 1..n : new[Len(q) + i] = batch[i]
    BY DEF Extends
  <1>1. CASE k \in 1..Len(q)
    <2>1. new[k] = q[k]
      BY <1>0, <1>1
    <2>2. f >= Need(q[k]) \/ \E j \in 1..Len(q) : j < k /\ Brings(q[j], Need(q[k]))
      BY <1>1, <2>1 DEF Gated
    <2> QED BY <1>0, <2>1, <2>2
  <1>2. ASSUME NEW i \in 1..n, k = Len(q) + i
        PROVE  f >= Need(new[k]) \/ \E j \in 1..Len(new) : j < k /\ Brings(new[j], Need(new[k]))
    <2>1. new[k] = batch[i]
      BY <1>0, <1>2
    <2>2. CASE f >= Need(batch[i])
      BY <2>1, <2>2
    <2>3. ASSUME NEW l \in 1..Len(q), Brings(q[l], Need(batch[i])) PROVE \E j \in 1..Len(new) : j < k /\ Brings(new[j], Need(new[k]))
      <3>1. l < k
        BY <1>0, <1>2
      <3> QED BY <1>0, <2>1, <2>3, <3>1
    <2>4. ASSUME NEW j \in 1..n, j < i, Brings(batch[j], Need(batch[i]))
          PROVE  \E l \in 1..Len(new) : l < k /\ Brings(new[l], Need(new[k]))
      <3>1. Len(q) + j \in 1..Len(new) /\ new[Len(q) + j] = batch[j]
        BY ExtendedIndex
      <3>2. Len(q) + j < k
        BY <1>0, <1>2, <2>4
      <3> QED BY <2>1, <2>4, <3>1, <3>2
    <2> QED BY <2>1, <2>2, <2>3, <2>4
  <1>3. k \in 1..Len(q) \/ (k - Len(q) \in 1..n /\ k = Len(q) + (k - Len(q)))
    BY ExtendedIndex
  <1> QED BY <1>1, <1>2, <1>3, Zenon

\* What comes behind a queue whose signals are below it.
LEMMA ExtendedSorted ==
  ASSUME NEW q \in Seq(Command), NEW new, NEW batch, NEW n \in Nat, Extends(q, new, batch, n), Sorted(q),
         \A k \in 1..Len(q), i \in 1..n : q[k].op = "signal" => q[k].v < Bound(batch[i]),
         \A j, i \in 1..n : j < i /\ batch[j].op = "signal" => batch[j].v < Bound(batch[i])
  PROVE  Sorted(new)
  <1> SUFFICES ASSUME NEW j \in 1..Len(new), NEW k \in 1..Len(new), j < k, new[j].op = "signal"
               PROVE  new[j].v < Bound(new[k])
    BY DEF Sorted
  <1>0. /\ Len(q) \in Nat /\ (\A l \in 1..Len(q) : new[l] = q[l]) /\ (\A i \in 1..n : new[Len(q) + i] = batch[i])
    BY DEF Extends
  <1>1. CASE k \in 1..Len(q)
    <2>1. j \in 1..Len(q)
      BY <1>0, <1>1
    <2> QED BY <1>0, <1>1, <2>1 DEF Sorted
  <1>2. ASSUME NEW i \in 1..n, k = Len(q) + i PROVE new[j].v < Bound(new[k])
    <2>1. CASE j \in 1..Len(q)
      BY <1>0, <1>2, <2>1
    <2>2. ASSUME NEW l \in 1..n, j = Len(q) + l PROVE new[j].v < Bound(new[k])
      <3>1. l < i
        BY <1>0, <1>2, <2>2
      <3>2. new[j] = batch[l] /\ new[k] = batch[i]
        BY <1>0, <1>2, <2>2
      <3> QED BY <3>1, <3>2
    <2>3. j \in 1..Len(q) \/ (j - Len(q) \in 1..n /\ j = Len(q) + (j - Len(q)))
      BY ExtendedIndex
    <2> QED BY <2>1, <2>2, <2>3, Zenon
  <1>3. k \in 1..Len(q) \/ (k - Len(q) \in 1..n /\ k = Len(q) + (k - Len(q)))
    BY ExtendedIndex
  <1> QED BY <1>1, <1>2, <1>3, Zenon

\* A property of every command.
LEMMA ExtendedBounded ==
  ASSUME NEW q \in Seq(Command), NEW new, NEW batch, NEW n \in Nat, Extends(q, new, batch, n), NEW f \in Nat, Bounded(q, f),
         \A i \in 1..n : f < Bound(batch[i])
  PROVE  Bounded(new, f)
  <1> SUFFICES ASSUME NEW k \in 1..Len(new) PROVE f < Bound(new[k])
    BY DEF Bounded
  <1>0. (\A l \in 1..Len(q) : new[l] = q[l]) /\ (\A i \in 1..n : new[Len(q) + i] = batch[i])
    BY DEF Extends
  <1>1. CASE k \in 1..Len(q)
    BY <1>0, <1>1 DEF Bounded
  <1>2. ASSUME NEW i \in 1..n, k = Len(q) + i PROVE f < Bound(new[k])
    <2>1. new[k] = batch[i]
      BY <1>0, <1>2
    <2> QED BY <2>1
  <1>3. k \in 1..Len(q) \/ (k - Len(q) \in 1..n /\ k = Len(q) + (k - Len(q)))
    BY ExtendedIndex
  <1> QED BY <1>1, <1>2, <1>3, Zenon

\* Where a command itself comes from.
LEMMA ExtendedCommand ==
  ASSUME NEW q \in Seq(Command), NEW new, NEW batch, NEW n \in Nat, Extends(q, new, batch, n)
  PROVE  \A k \in 1..Len(new) : (k \in 1..Len(q) /\ new[k] = q[k]) \/ \E i \in 1..n : new[k] = batch[i]
  <1> SUFFICES ASSUME NEW k \in 1..Len(new), k \notin 1..Len(q) PROVE \E i \in 1..n : new[k] = batch[i]
    BY ExtendedIndex
  <1>1. k - Len(q) \in 1..n /\ k = Len(q) + (k - Len(q))
    BY ExtendedIndex
  <1>2. new[Len(q) + (k - Len(q))] = batch[k - Len(q)]
    BY <1>1, ExtendedIndex
  <1>3. new[k] = batch[k - Len(q)]
    BY <1>1, <1>2, Zenon
  <1> QED BY <1>1, <1>3

\* What an evaluation may queue, command by command.
LEMMA BatchFacts ==
  ASSUME NEW r \in Nat, NEW list \in ListCommand, list.v = r
  PROVE  /\ Batch11(r)[1].op = "copyIn" /\ Batch11(r)[1].v = r /\ Bound(Batch11(r)[1]) = r
         /\ Batch11(r)[2].op = "signal" /\ Batch11(r)[2].v = r /\ Bound(Batch11(r)[2]) = r
         /\ Batch11(r)[3].op = "wait" /\ Batch11(r)[3].v = r + 1 /\ Bound(Batch11(r)[3]) = r + 2
         /\ Batch11(r)[4].op = "copyOut" /\ Batch11(r)[4].v = r /\ Bound(Batch11(r)[4]) = r + 2
         /\ Batch11(r)[5].op = "signal" /\ Batch11(r)[5].v = r + 2 /\ Bound(Batch11(r)[5]) = r + 2
         /\ Batch12(r, list)[1].op = "wait" /\ Batch12(r, list)[1].v = r /\ Bound(Batch12(r, list)[1]) = r + 1
         /\ Batch12(r, list)[2] = list /\ list.op = "list" /\ Bound(list) = r + 1
         /\ Batch12(r, list)[3].op = "signal" /\ Batch12(r, list)[3].v = r + 1 /\ Bound(Batch12(r, list)[3]) = r + 1
  BY DEF Batch11, Batch12, CopyIn, Signal, Wait, CopyOut, Bound, ListCommand

\* D3D11's part: the wait for the list lets the output copy and the last signal through.
LEMMA Batch11Order ==
  ASSUME NEW r \in Nat
  PROVE  /\ \A i \in 1..5 : Bound(Batch11(r)[i]) \in {r, r + 2}
         /\ \A i \in 1..5 : Batch11(r)[i].op # "wait" =>
               Need(Batch11(r)[i]) = r - 1 \/ (3 < i /\ Brings(Batch11(r)[3], Need(Batch11(r)[i])))
         /\ \A j, i \in 1..5 : j < i /\ Batch11(r)[j].op = "signal" => Batch11(r)[j].v < Bound(Batch11(r)[i])
  <1> DEFINE a == Batch11(r)
  <1>1. /\ a[1] = CopyIn(r) /\ a[2] = Signal(r) /\ a[3] = Wait(r + 1) /\ a[4] = CopyOut(r) /\ a[5] = Signal(r + 2)
    BY DEF Batch11
  <1> HIDE DEF a
  <1>2. /\ a[1].op = "copyIn" /\ Bound(a[1]) = r /\ Need(a[1]) = r - 1
        /\ a[2].op = "signal" /\ a[2].v = r /\ Bound(a[2]) = r /\ Need(a[2]) = r - 1
        /\ a[3].op = "wait" /\ a[3].v = r + 1 /\ Bound(a[3]) = r + 2
        /\ a[4].op = "copyOut" /\ Bound(a[4]) = r + 2 /\ Need(a[4]) = r + 1
        /\ a[5].op = "signal" /\ Bound(a[5]) = r + 2 /\ Need(a[5]) = r + 1
    BY <1>1 DEF CopyIn, Signal, Wait, CopyOut, Bound, Need
  <1>3. \A i \in 1..5 : i = 1 \/ i = 2 \/ i = 3 \/ i = 4 \/ i = 5
    OBVIOUS
  <1>4. Brings(a[3], r + 1)
    BY <1>2 DEF Brings
  <1>5. \A i \in 1..5 : Bound(a[i]) \in {r, r + 2}
    BY <1>2, <1>3
  <1>6. \A i \in 1..5 : a[i].op # "wait" => Need(a[i]) = r - 1 \/ (3 < i /\ Brings(a[3], Need(a[i])))
    BY <1>2, <1>3, <1>4
  <1>7. \A j, i \in 1..5 : j < i /\ a[j].op = "signal" => a[j].v < Bound(a[i])
    <2> SUFFICES ASSUME NEW j \in 1..5, NEW i \in 1..5, j < i, a[j].op = "signal" PROVE a[j].v < Bound(a[i])
      OBVIOUS
    <2>1. j = 2 /\ (i = 3 \/ i = 4 \/ i = 5)
      BY <1>2, <1>3
    <2> QED BY <1>2, <2>1
  <1> QED BY <1>5, <1>6, <1>7 DEF a

\* D3D12's part: the wait for the inputs lets the list and its signal through.
LEMMA Batch12Order ==
  ASSUME NEW r \in Nat, NEW list \in ListCommand, list.v = r
  PROVE  /\ \A i \in 1..3 : Bound(Batch12(r, list)[i]) = r + 1
         /\ \A i \in 1..3 : Batch12(r, list)[i].op # "wait" => 1 < i /\ Brings(Batch12(r, list)[1], Need(Batch12(r, list)[i]))
         /\ \A j, i \in 1..3 : j < i => Batch12(r, list)[j].op # "signal"
  <1> DEFINE b == Batch12(r, list)
  <1>1. b[1] = Wait(r) /\ b[2] = list /\ b[3] = Signal(r + 1)
    BY DEF Batch12
  <1> HIDE DEF b
  <1>2. /\ b[1].op = "wait" /\ b[1].v = r /\ Bound(b[1]) = r + 1
        /\ b[2].op = "list" /\ Bound(b[2]) = r + 1 /\ Need(b[2]) = r
        /\ b[3].op = "signal" /\ Bound(b[3]) = r + 1 /\ Need(b[3]) = r
    BY <1>1 DEF Signal, Wait, ListCommand, Bound, Need
  <1>3. \A i \in 1..3 : i = 1 \/ i = 2 \/ i = 3
    OBVIOUS
  <1>4. Brings(b[1], r)
    BY <1>2 DEF Brings
  <1>5. \A i \in 1..3 : b[i].op # "wait" => 1 < i /\ Brings(b[1], Need(b[i]))
    BY <1>2, <1>3, <1>4
  <1>6. \A j, i \in 1..3 : j < i => b[j].op # "signal"
    BY <1>2, <1>3
  <1> QED BY <1>2, <1>3, <1>5, <1>6 DEF b

\* An evaluation's commands come behind what the fence has passed or will have passed.
LEMMA FencedExtended ==
  ASSUME NEW q \in Seq(Command), NEW p \in Seq(Command), NEW f \in Nat, Fenced(q, p, f),
         NEW r \in Nat, f < r, NEW list \in ListCommand, list.v = r,
         \A k \in 1..Len(q) : Bound(q[k]) <= r /\ (q[k].op = "signal" => q[k].v < r),
         \A k \in 1..Len(p) : Bound(p[k]) < r,
         f >= r - 1 \/ \E k \in 1..Len(q) : Brings(q[k], r - 1),
         NEW new, NEW n \in 1..5, Extends(q, new, Batch11(r), n),
         NEW newp, NEW m \in 0..3, Extends(p, newp, Batch12(r, list), m)
  PROVE  Fenced(new, newp, f)
  <1> DEFINE a == Batch11(r)
             b == Batch12(r, list)
  <1>0. n \in Nat /\ m \in Nat /\ (\A i \in 1..n : i \in 1..5) /\ (\A i \in 1..m : i \in 1..3)
    OBVIOUS
  <1>a. /\ \A i \in 1..n : Bound(a[i]) \in {r, r + 2}
        /\ \A i \in 1..n : a[i].op # "wait" => Need(a[i]) = r - 1 \/ (3 < i /\ Brings(a[3], Need(a[i])))
        /\ \A j, i \in 1..n : j < i /\ a[j].op = "signal" => a[j].v < Bound(a[i])
    BY <1>0, Batch11Order
  <1>b. /\ \A i \in 1..m : Bound(b[i]) = r + 1
        /\ \A i \in 1..m : b[i].op # "wait" => 1 < i /\ Brings(b[1], Need(b[i]))
        /\ \A j, i \in 1..m : j < i => b[j].op # "signal"
    BY <1>0, Batch12Order
  <1>c. Extends(q, new, a, n) /\ Extends(p, newp, b, m)
    OBVIOUS
  <1> HIDE DEF a, b
  <1>1. Bounded(new, f)
    BY <1>0, <1>a, <1>c, ExtendedBounded DEF Fenced
  <1>2. Bounded(newp, f)
    BY <1>0, <1>b, <1>c, ExtendedBounded DEF Fenced
  <1>3. Gated(new, f)
    <2>1. ASSUME NEW i \in 1..n, a[i].op # "wait"
          PROVE  \/ f >= Need(a[i])
                 \/ \E k \in 1..Len(q) : Brings(q[k], Need(a[i]))
                 \/ \E j \in 1..n : j < i /\ Brings(a[j], Need(a[i]))
      <3>1. CASE Need(a[i]) = r - 1
        BY <3>1
      <3>2. CASE 3 < i /\ Brings(a[3], Need(a[i]))
        <4>1. 3 \in 1..n
          BY <3>2
        <4> QED BY <3>2, <4>1
      <3> QED BY <1>a, <2>1, <3>1, <3>2
    <2> QED BY <1>0, <1>c, <2>1, ExtendedGated DEF Fenced
  <1>4. Gated(newp, f)
    <2>1. ASSUME NEW i \in 1..m, b[i].op # "wait" PROVE \E j \in 1..m : j < i /\ Brings(b[j], Need(b[i]))
      <3>1. 1 < i /\ 1 \in 1..m /\ Brings(b[1], Need(b[i]))
        BY <1>b, <2>1
      <3> QED BY <3>1
    <2> QED BY <1>0, <1>c, <2>1, ExtendedGated DEF Fenced
  <1>5. Sorted(new)
    <2>1. \A k \in 1..Len(q), i \in 1..n : q[k].op = "signal" => q[k].v < Bound(a[i])
      <3>1. \A k \in 1..Len(q) : q[k].v \in Nat
        BY QueueFacts, CommandFacts
      <3> QED BY <1>a, <3>1, SMTT(30)
    <2> QED BY <1>0, <1>a, <1>c, <2>1, ExtendedSorted DEF Fenced
  <1>6. Sorted(newp)
    <2>1. \A k \in 1..Len(p), i \in 1..m : p[k].op = "signal" => p[k].v < Bound(b[i])
      <3>1. \A k \in 1..Len(p) : p[k].v \in Nat /\ (p[k].op = "signal" => Bound(p[k]) = p[k].v)
        BY QueueFacts, CommandFacts
      <3>2. \A k \in 1..Len(p) : p[k].op = "signal" => p[k].v < r
        BY <3>1
      <3>3. \A i \in 1..m : Bound(b[i]) = r + 1
        BY <1>b
      <3> QED BY <3>1, <3>2, <3>3, SMTT(30)
    <2> QED BY <1>0, <1>b, <1>c, <2>1, ExtendedSorted DEF Fenced
  <1>7. Apart(new, newp)
    <2> SUFFICES ASSUME NEW j \in 1..Len(new), NEW k \in 1..Len(newp) PROVE Bound(new[j]) # Bound(newp[k])
      BY DEF Apart
    <2>1. (j \in 1..Len(q) /\ new[j] = q[j]) \/ Bound(new[j]) \in {r, r + 2}
      <3>1. \A l \in 1..Len(new) : (l \in 1..Len(q) /\ new[l] = q[l]) \/ \E i \in 1..n : new[l] = a[i]
        BY <1>0, <1>c, ExtendedCommand
      <3> QED BY <1>a, <3>1
    <2>2. (k \in 1..Len(p) /\ newp[k] = p[k]) \/ Bound(newp[k]) = r + 1
      <3>1. \A l \in 1..Len(newp) : (l \in 1..Len(p) /\ newp[l] = p[l]) \/ \E i \in 1..m : newp[l] = b[i]
        BY <1>0, <1>c, ExtendedCommand
      <3> QED BY <1>b, <3>1
    <2>3. j \in 1..Len(q) => Bound(q[j]) \in Int /\ Bound(q[j]) <= r
      BY QueueFacts, CommandFacts
    <2>4. k \in 1..Len(p) => Bound(p[k]) \in Int /\ Bound(p[k]) < r
      BY QueueFacts, CommandFacts
    <2>5. j \in 1..Len(q) /\ k \in 1..Len(p) => Bound(q[j]) # Bound(p[k])
      BY DEF Fenced, Apart
    <2> QED BY <2>1, <2>2, <2>3, <2>4, <2>5, SMTT(30)
  <1> QED BY <1>1, <1>2, <1>3, <1>4, <1>5, <1>6, <1>7 DEF Fenced

-------------------------------------------------------------------------------
\* The inductive invariant.

BridgeRecord ==
    [state : {"open", "destroyed", "retained"}, tick : Values, next : SlotIndex,
     complete : [SlotIndex -> Values], size : 0 .. MaxGeneration, surfaces : Nat,
     faulted : BOOLEAN, unflushed : BOOLEAN]
CallRecord ==
    [op : {"none", "select", "exposure", "resize", "evaluate", "destroy"}, waits : BOOLEAN,
     value : Values, choice : Choices \union {NoChoice}, exposure : BOOLEAN, frame : Frame]
EventRecord == [set : BOOLEAN, armed : SUBSET Values]

\* TypeOK without the session's part.
RestTypes ==
    /\ bridge \in BridgeRecord /\ call \in CallRecord
    /\ event.set \in BOOLEAN /\ event.armed \subseteq Values
    /\ fence \in Values /\ flushed \in 0 .. Len(q11) /\ running \in BOOLEAN
    /\ inputs \in Values /\ outputs \in Values /\ delivered \in [n : Values, image : Values]
    /\ hung \in BOOLEAN

QueueTypes ==
    /\ q11 \in Seq(Command) /\ q12 \in Seq(Command) /\ event \in EventRecord
    /\ running => q12 # <<>> /\ q12[1].op = "list"

\* The fence, and the two queues around it.
FenceInv == Fenced(q11, q12, fence)

\* The queues' commands are of the ticks so far.  The fence, or what D3D11 has queued, gets to the
\* last tick unless an evaluation failed on its way.
TickInv ==
    /\ \A k \in 1..Len(q11) : q11[k].op # "list" /\ (q11[k].op # "wait" => Bound(q11[k]) <= bridge.tick)
    /\ \A k \in 1..Len(q12) : /\ q12[k].op \in {"signal", "wait", "list"}
                              /\ q12[k].op # "wait" => Bound(q12[k]) <= bridge.tick
    /\ ~bridge.faulted =>
          /\ fence >= bridge.tick \/ \E k \in 1..Len(q11) : Brings(q11[k], bridge.tick)
          /\ \A k \in 1..Len(q11) : Bound(q11[k]) <= bridge.tick + 1
          /\ \A k \in 1..Len(q12) : Bound(q12[k]) <= bridge.tick
    /\ inputs <= bridge.tick /\ outputs <= bridge.tick /\ fence <= bridge.tick

\* A call between its start and its return.
ArgumentInv ==
    /\ call.op \in {"resize", "evaluate", "exposure"} => ~bridge.faulted
    /\ call.op \in {"resize", "evaluate"} => bridge.tick + 3 <= MaxTick /\ call.frame.generation \in 1..MaxGeneration
    /\ call.op = "evaluate" => bridge.size # 0
    /\ call.op \in {"select", "exposure", "resize", "destroy"} => call.value = bridge.tick
    /\ call.op = "none" => ~call.waits
    /\ call.op \in {"select", "exposure", "resize", "destroy"} /\ ~call.waits => fence >= call.value

CoreInv == RestTypes /\ QueueTypes /\ FenceInv /\ TickInv /\ ArgumentInv

MainInv == BridgeInv /\ OwnedInv /\ SessionTypeOK /\ CoreInv

\* What the steps need of the types.
LEMMA CoreFacts ==
  ASSUME CoreInv
  PROVE  /\ bridge \in BridgeRecord /\ bridge.tick \in Nat /\ bridge.tick \in Values /\ bridge.faulted \in BOOLEAN
         /\ fence \in Nat /\ inputs \in Nat /\ outputs \in Nat
         /\ call \in CallRecord /\ call.waits \in BOOLEAN /\ call.value \in Nat
         /\ event \in EventRecord
         /\ q11 \in Seq(Command) /\ q12 \in Seq(Command) /\ Len(q11) \in Nat /\ Len(q12) \in Nat
  <1>1. Values \subseteq Nat
    BY BridgeAssumption DEF Values
  <1>2. /\ bridge \in BridgeRecord /\ call \in CallRecord /\ fence \in Values /\ inputs \in Values /\ outputs \in Values
        /\ event \in EventRecord /\ q11 \in Seq(Command) /\ q12 \in Seq(Command)
    BY DEF CoreInv, RestTypes, QueueTypes
  <1>3. bridge.tick \in Values /\ bridge.faulted \in BOOLEAN
    BY <1>2 DEF BridgeRecord
  <1>4. call.waits \in BOOLEAN /\ call.value \in Values
    BY <1>2 DEF CallRecord
  <1> QED BY <1>1, <1>2, <1>3, <1>4, QueueFacts

\* An idle call.
LEMMA IdleType == Idle \in CallRecord
  BY NoFrameType, BridgeAssumption DEF Idle, CallRecord, Values

\* Steps that leave the queues and the fence alone.
LEMMA QueuesKept ==
  ASSUME CoreInv, UNCHANGED <<q11, q12, running, fence>>, bridge'.tick = bridge.tick,
         bridge.faulted => bridge'.faulted, event' \in EventRecord,
         inputs' <= bridge.tick, outputs' <= bridge.tick
  PROVE  QueueTypes' /\ FenceInv' /\ TickInv'
  <1>1. QueueTypes'
    BY DEF CoreInv, QueueTypes
  <1>2. FenceInv'
    BY DEF CoreInv, FenceInv
  <1>3. TickInv'
    BY DEF CoreInv, TickInv
  <1> QED BY <1>1, <1>2, <1>3

\* A call starts.
LEMMA StartStep ==
  ASSUME CoreInv, NEW op \in {"select", "exposure", "resize", "evaluate", "destroy"}, NEW value \in Values,
         NEW arguments \in CallRecord, Start(op, value, arguments),
         op \in {"resize", "evaluate", "exposure"} => ~bridge.faulted,
         op \in {"resize", "evaluate"} => bridge.tick + 3 <= MaxTick /\ arguments.frame.generation \in 1..MaxGeneration,
         op = "evaluate" => bridge.size # 0,
         op # "evaluate" => value = bridge.tick
  PROVE  CoreInv'
  <1>1. call' = [arguments EXCEPT !.op = op, !.value = value, !.waits = fence < value]
    BY DEF Start
  <1>2. call' \in CallRecord /\ call'.op = op /\ call'.value = value /\ call'.waits = (fence < value)
        /\ call'.frame = arguments.frame
    <2>2. (fence < value) \in BOOLEAN
      OBVIOUS
    <2> DEFINE late == fence < value
    <2> HIDE DEF late
    <2>3. /\ [arguments EXCEPT !.op = op, !.value = value, !.waits = late] \in CallRecord
          /\ [arguments EXCEPT !.op = op, !.value = value, !.waits = late].op = op
          /\ [arguments EXCEPT !.op = op, !.value = value, !.waits = late].value = value
          /\ [arguments EXCEPT !.op = op, !.value = value, !.waits = late].waits = late
          /\ [arguments EXCEPT !.op = op, !.value = value, !.waits = late].frame = arguments.frame
      <3>1. late \in BOOLEAN
        BY <2>2 DEF late
      <3>2. arguments \in [op : {"none", "select", "exposure", "resize", "evaluate", "destroy"}, waits : BOOLEAN,
               value : Values, choice : Choices \union {NoChoice}, exposure : BOOLEAN, frame : Frame]
        BY DEF CallRecord
      <3>3. [arguments EXCEPT !.op = op, !.value = value, !.waits = late] \in CallRecord
        BY <3>1, <3>2 DEF CallRecord
      <3>4. [arguments EXCEPT !.op = op, !.value = value, !.waits = late].waits = late
        BY <3>2, Zenon
      <3> QED BY <3>2, <3>3, <3>4
    <2> QED BY <1>1, <2>3, Zenon DEF late
  <1>3. event' \in EventRecord
    BY CoreFacts DEF Start, EventRecord
  <1>4. /\ bridge' \in BridgeRecord /\ bridge'.tick = bridge.tick /\ bridge'.faulted = bridge.faulted
        /\ bridge'.size = bridge.size
    <2>1. bridge' = bridge \/ bridge' = [bridge EXCEPT !.unflushed = FALSE]
      BY DEF Start, FlushFor
    <2> QED BY <2>1, CoreFacts DEF BridgeRecord
  <1>5. flushed' \in 0 .. Len(q11)
    <2>1. flushed' = flushed \/ flushed' = Len(q11)
      BY DEF Start, FlushFor
    <2> QED BY <2>1, CoreFacts DEF CoreInv, RestTypes
  <1>6. UNCHANGED <<q11, q12, running, fence, inputs, outputs, delivered, hung>>
    BY DEF Start, imageVars
  <1>7. QueueTypes' /\ FenceInv' /\ TickInv'
    <2>1. inputs' <= bridge.tick /\ outputs' <= bridge.tick
      BY <1>6 DEF CoreInv, TickInv
    <2> QED BY <1>3, <1>4, <1>6, <2>1, QueuesKept
  <1>8. RestTypes'
    BY <1>2, <1>3, <1>4, <1>5, <1>6 DEF CoreInv, RestTypes, EventRecord
  <1>9. ArgumentInv'
    <2>1. value \in Nat /\ fence \in Nat
      BY CoreFacts, BridgeAssumption DEF Values
    <2>2. op \in {"resize", "evaluate", "exposure"} => ~bridge'.faulted
      BY <1>4
    <2>3. op \in {"resize", "evaluate"} => bridge'.tick + 3 <= MaxTick /\ call'.frame.generation \in 1..MaxGeneration
      BY <1>2, <1>4
    <2>4. op = "evaluate" => bridge'.size # 0
      BY <1>4
    <2>5. op # "evaluate" => call'.value = bridge'.tick
      BY <1>2, <1>4
    <2>6. call'.waits \/ fence' >= call'.value
      <3>1. CASE fence < value
        BY <1>2, <3>1, Zenon
      <3>2. CASE ~(fence < value)
        <4>1. fence' = fence /\ call'.value = value
          BY <1>2, <1>6
        <4> QED BY <2>1, <3>2, <4>1
      <3> QED BY <3>1, <3>2
    <2>7. op # "none"
      OBVIOUS
    <2> QED BY <1>2, <2>2, <2>3, <2>4, <2>5, <2>6, <2>7 DEF ArgumentInv
  <1> QED BY <1>7, <1>8, <1>9 DEF CoreInv

\* A call returns, or gives up.
LEMMA ReturnStep ==
  ASSUME CoreInv, call' = Idle, UNCHANGED <<q11, flushed, q12, running, fence, inputs, outputs, delivered>>,
         bridge' \in BridgeRecord, bridge'.tick = bridge.tick, bridge.faulted => bridge'.faulted,
         event' \in EventRecord, hung' \in BOOLEAN
  PROVE  CoreInv'
  <1>1. QueueTypes' /\ FenceInv' /\ TickInv'
    <2>1. inputs' <= bridge.tick /\ outputs' <= bridge.tick
      BY DEF CoreInv, TickInv
    <2> QED BY <2>1, QueuesKept
  <1>2. RestTypes'
    BY IdleType DEF CoreInv, RestTypes, EventRecord
  <1>3. ArgumentInv'
    BY DEF ArgumentInv, Idle
  <1> QED BY <1>1, <1>2, <1>3 DEF CoreInv

\* Returning takes the event.
LEMMA ReturnsEvent ==
  ASSUME CoreInv, NEW op, Returns(op)
  PROVE  event' \in EventRecord
  BY CoreFacts DEF Returns, EventRecord

\* Other extents: new surfaces, or none.
LEMMA ResizeStep ==
  ASSUME CoreInv, Resize
  PROVE  CoreInv'
  <1>0. event' \in EventRecord /\ call.op = "resize" /\ ArgumentInv /\ bridge.tick \in Nat
    BY ReturnsEvent, CoreFacts DEF Resize, Returns, CoreInv
  <1>1. UNCHANGED <<q11, flushed, q12, running, fence, delivered, hung>>
    BY DEF Resize, gpuVars
  <1>2. CASE /\ bridge' = [bridge EXCEPT !.size = call.frame.generation, !.surfaces = @ + 1]
             /\ call' = [call EXCEPT !.op = "evaluate", !.waits = FALSE]
             /\ inputs' = 0 /\ outputs' = 0
    <2>1. call.frame.generation \in 1..MaxGeneration /\ ~bridge.faulted /\ bridge.tick + 3 <= MaxTick
      BY <1>0 DEF ArgumentInv
    <2>2. /\ bridge' \in BridgeRecord /\ bridge'.tick = bridge.tick /\ bridge'.faulted = bridge.faulted
          /\ bridge'.size = call.frame.generation
      <3>0. bridge \in BridgeRecord
        BY CoreFacts
      <3>1. bridge.surfaces + 1 \in Nat /\ call.frame.generation \in 0..MaxGeneration
        BY <2>1, <3>0, BridgeAssumption DEF BridgeRecord
      <3>2. bridge' \in BridgeRecord
        BY <1>2, <3>0, <3>1 DEF BridgeRecord
      <3> QED BY <1>2, <3>0, <3>2 DEF BridgeRecord
    <2>3. call' \in CallRecord /\ call'.op = "evaluate" /\ call'.frame = call.frame /\ call'.waits = FALSE
      BY <1>2, CoreFacts DEF CallRecord
    <2>4. QueueTypes' /\ FenceInv' /\ TickInv'
      BY <1>0, <1>1, <1>2, <2>2, QueuesKept
    <2>5. RestTypes'
      BY <1>0, <1>1, <1>2, <2>2, <2>3, BridgeAssumption DEF CoreInv, RestTypes, EventRecord, Values
    <2>6. ArgumentInv'
      BY <2>1, <2>2, <2>3 DEF ArgumentInv
    <2> QED BY <2>4, <2>5, <2>6 DEF CoreInv
  <1>3. CASE bridge' = [bridge EXCEPT !.size = 0] /\ call' = Idle /\ UNCHANGED <<inputs, outputs>>
    <2>1. bridge' \in BridgeRecord /\ bridge'.tick = bridge.tick /\ bridge'.faulted = bridge.faulted
      <3>1. bridge \in BridgeRecord /\ 0 \in 0..MaxGeneration
        BY CoreFacts, BridgeAssumption
      <3>2. bridge' \in BridgeRecord
        BY <1>3, <3>1 DEF BridgeRecord
      <3> QED BY <1>3, <3>1, <3>2 DEF BridgeRecord
    <2>2. hung' \in BOOLEAN
      BY <1>1 DEF CoreInv, RestTypes
    <2> QED BY <1>0, <1>1, <1>3, <2>1, <2>2, ReturnStep
  <1> QED BY <1>2, <1>3 DEF Resize

\* The bridge's own record of an evaluation.
LEMMA EvaluatedBridge ==
  ASSUME CoreInv, NEW at, NEW ok \in BOOLEAN, NEW r \in Nat, r + 2 <= MaxTick, Queue(at, ok, r)
  PROVE  bridge' \in BridgeRecord
  <1> DEFINE tick == TickAt(at, r, ok)
             complete == IF Reaches(at, "signal12") THEN [bridge.complete EXCEPT ![bridge.next] = r + 1] ELSE bridge.complete
             next == IF Reaches(at, "signal12") THEN (bridge.next + 1) % Slots ELSE bridge.next
             faulted == at # "none"
             unflushed == IF Reaches(at, "signal") THEN ok /\ at = "none" ELSE bridge.unflushed
  <1>0. bridge \in BridgeRecord
    BY CoreFacts
  <1>1. bridge' = [bridge EXCEPT !.tick = tick, !.complete = complete, !.next = next,
                                 !.faulted = faulted, !.unflushed = unflushed]
    BY DEF Queue
  <1>2. tick \in Values
    <2>1. r \in Values /\ r + 1 \in Values /\ r + 2 \in Values
      BY BridgeAssumption DEF Values
    <2> QED BY <2>1 DEF TickAt
  <1>3. complete \in [SlotIndex -> Values]
    <2>1. r + 1 \in Values /\ bridge.complete \in [SlotIndex -> Values]
      BY <1>0, BridgeAssumption DEF Values, BridgeRecord
    <2> QED BY <2>1
  <1>4. next \in SlotIndex
    <2>1. bridge.next \in SlotIndex
      BY <1>0 DEF BridgeRecord
    <2>2. (bridge.next + 1) % Slots \in SlotIndex
      BY <2>1, BridgeAssumption DEF SlotIndex
    <2> QED BY <2>1, <2>2
  <1>5. faulted \in BOOLEAN /\ unflushed \in BOOLEAN
    <2>1. bridge.unflushed \in BOOLEAN
      BY <1>0 DEF BridgeRecord
    <2>2. (at # "none") \in BOOLEAN /\ (ok /\ at = "none") \in BOOLEAN
      OBVIOUS
    <2> QED BY <2>1, <2>2, Zenon
  <1> HIDE DEF tick, complete, next, faulted, unflushed
  <1> QED BY <1>0, <1>1, <1>2, <1>3, <1>4, <1>5 DEF BridgeRecord

\* What was queued before an evaluation is behind its inputs' tick.
LEMMA EvaluatedFence ==
  ASSUME CoreInv, ~bridge.faulted, NEW r \in Nat, r = bridge.tick + 1, NEW list \in ListCommand, list.v = r,
         NEW new, NEW n \in 1..5, Extends(q11, new, Batch11(r), n),
         NEW newp, NEW m \in 0..3, Extends(q12, newp, Batch12(r, list), m)
  PROVE  Fenced(new, newp, fence)
  <1>1. q11 \in Seq(Command) /\ q12 \in Seq(Command) /\ fence \in Nat /\ bridge.tick \in Nat
    BY CoreFacts
  <1>2. Fenced(q11, q12, fence) /\ TickInv
    BY DEF CoreInv, FenceInv
  <1>3. \A k \in 1..Len(q11) : q11[k] \in Command /\ q11[k].v \in Nat /\ Bound(q11[k]) \in Int
                                 /\ (q11[k].op = "signal" => Bound(q11[k]) = q11[k].v)
    BY <1>1, QueueFacts, CommandFacts
  <1>4. \A k \in 1..Len(q12) : Bound(q12[k]) \in Int
    BY <1>1, QueueFacts, CommandFacts
  <1>5. fence < r
    BY <1>1, <1>2 DEF TickInv
  <1>6. \A k \in 1..Len(q11) : Bound(q11[k]) <= r /\ (q11[k].op = "signal" => q11[k].v < r)
    BY <1>1, <1>2, <1>3 DEF TickInv
  <1>7. \A k \in 1..Len(q12) : Bound(q12[k]) < r
    BY <1>1, <1>2, <1>4, SMTT(30) DEF TickInv
  <1>8. fence >= r - 1 \/ \E k \in 1..Len(q11) : Brings(q11[k], r - 1)
    <2>1. r - 1 = bridge.tick
      BY <1>1
    <2> QED BY <1>2, <2>1 DEF TickInv
  <1> QED BY <1>1, <1>2, <1>5, <1>6, <1>7, <1>8, FencedExtended

\* The last tick after an evaluation, and what is queued up to it.
LEMMA EvaluatedTicks ==
  ASSUME CoreInv, ~bridge.faulted, NEW r \in Nat, r = bridge.tick + 1, NEW list \in ListCommand, list.v = r,
         NEW x \in 1..7, NEW ok \in BOOLEAN, x = 6 => ok,
         Extends(q11, q11', Batch11(r), Length11(x, ok)), Extends(q12, q12', Batch12(r, list), Length12(x)),
         bridge'.tick = TickOf(x, ok, r), bridge'.faulted = (x # 7), UNCHANGED <<fence, inputs, outputs>>
  PROVE  TickInv'
  <1> DEFINE n == Length11(x, ok)
             m == Length12(x)
             a == Batch11(r)
             b == Batch12(r, list)
             t == bridge.tick
             u == TickOf(x, ok, r)
  <1>0. q11 \in Seq(Command) /\ q12 \in Seq(Command) /\ t \in Nat /\ fence \in Nat /\ inputs \in Nat /\ outputs \in Nat /\ TickInv
    BY CoreFacts DEF CoreInv
  <1>1. n \in Nat /\ m \in Nat /\ u \in Nat /\ r <= u /\ t < u
    BY <1>0, SMTT(30) DEF Length11, Length12, TickOf
  <1>2. /\ \A i \in 1..n : (i = 1 \/ i = 2 \/ (i = 3 /\ x > 5) \/ (i = 4 /\ x > 5 /\ ok) \/ (i = 5 /\ x = 7 /\ ok))
        /\ \A i \in 1..m : (i = 1 \/ (i = 2 /\ x > 3) \/ (i = 3 /\ x > 4))
    BY DEF Length11, Length12
  <1>3. /\ a[1].op = "copyIn" /\ Bound(a[1]) = r /\ a[2].op = "signal" /\ Bound(a[2]) = r
        /\ a[3].op = "wait" /\ a[3].v = r + 1 /\ Bound(a[3]) = r + 2 /\ a[4].op = "copyOut" /\ Bound(a[4]) = r + 2
        /\ a[5].op = "signal" /\ a[5].v = r + 2 /\ Bound(a[5]) = r + 2
        /\ b[1].op = "wait" /\ Bound(b[1]) = r + 1 /\ b[2].op = "list" /\ Bound(b[2]) = r + 1
        /\ b[3].op = "signal" /\ Bound(b[3]) = r + 1
    BY BatchFacts
  <1>4. /\ x > 3 => u >= r + 1
        /\ x > 5 /\ ok => u = r + 2
        /\ x = 7 => u = (IF ok THEN r + 2 ELSE r + 1)
    BY DEF TickOf
  <1>5. Extends(q11, q11', a, n) /\ Extends(q12, q12', b, m) /\ bridge'.tick = u
    OBVIOUS
  <1>6. \A k \in 1..Len(q11') : (k \in 1..Len(q11) /\ q11'[k] = q11[k]) \/ \E i \in 1..n : q11'[k] = a[i]
    BY <1>0, <1>1, <1>5, ExtendedCommand
  <1>7. \A k \in 1..Len(q12') : (k \in 1..Len(q12) /\ q12'[k] = q12[k]) \/ \E i \in 1..m : q12'[k] = b[i]
    BY <1>0, <1>1, <1>5, ExtendedCommand
  <1>8. x = 7 => \E k \in 1..Len(q11') : Brings(q11'[k], u)
    <2> SUFFICES ASSUME x = 7 PROVE \E k \in 1..Len(q11') : Brings(q11'[k], u)
      OBVIOUS
    <2>1. n = (IF ok THEN 5 ELSE 3)
      BY DEF Length11
    <2>2. \A i \in 1..n : Len(q11) + i \in 1..Len(q11') /\ q11'[Len(q11) + i] = a[i]
      BY <1>0, <1>1, <1>5, ExtendedIndex
    <2>3. Brings(a[n], u) /\ n \in 1..n
      BY <1>3, <1>4, <2>1 DEF Brings
    <2> QED BY <2>2, <2>3
  <1>9. /\ \A i \in 1..n : a[i].op # "list" /\ (a[i].op # "wait" => Bound(a[i]) <= u) /\ (x = 7 => Bound(a[i]) <= u + 1)
        /\ \A i \in 1..m : b[i].op \in {"signal", "wait", "list"} /\ (b[i].op # "wait" => Bound(b[i]) <= u)
                             /\ (x = 7 => Bound(b[i]) <= u)
    <2>1. ASSUME NEW i \in 1..n
          PROVE  a[i].op # "list" /\ (a[i].op # "wait" => Bound(a[i]) <= u) /\ (x = 7 => Bound(a[i]) <= u + 1)
      <3>1. i = 1 \/ i = 2 \/ (i = 3 /\ x > 5) \/ (i = 4 /\ x > 5 /\ ok) \/ (i = 5 /\ x = 7 /\ ok)
        BY <1>2
      <3> HIDE DEF n, a, u
      <3> QED BY <1>1, <1>3, <1>4, <3>1
    <2>2. ASSUME NEW i \in 1..m
          PROVE  b[i].op \in {"signal", "wait", "list"} /\ (b[i].op # "wait" => Bound(b[i]) <= u) /\ (x = 7 => Bound(b[i]) <= u)
      <3>1. i = 1 \/ (i = 2 /\ x > 3) \/ (i = 3 /\ x > 4)
        BY <1>2
      <3> HIDE DEF m, b, u
      <3> QED BY <1>1, <1>3, <1>4, <3>1
    <2> QED BY <2>1, <2>2
  <1>10. /\ \A k \in 1..Len(q11) : Bound(q11[k]) \in Int
         /\ \A k \in 1..Len(q12) : Bound(q12[k]) \in Int
    BY <1>0, QueueFacts, CommandFacts
  <1>11. /\ \A k \in 1..Len(q11) : q11[k].op # "list" /\ (q11[k].op # "wait" => Bound(q11[k]) <= t) /\ Bound(q11[k]) <= t + 1
         /\ \A k \in 1..Len(q12) : q12[k].op \in {"signal", "wait", "list"} /\ Bound(q12[k]) <= t
         /\ inputs <= t /\ outputs <= t /\ fence <= t
    BY <1>0 DEF TickInv
  <1>12. (bridge'.faulted <=> x # 7) /\ UNCHANGED <<fence, inputs, outputs>>
    OBVIOUS
  <1> HIDE DEF n, m, a, b, t, u
  <1>13. \A k \in 1..Len(q11') : q11'[k].op # "list" /\ (q11'[k].op # "wait" => Bound(q11'[k]) <= u)
                                  /\ (x = 7 => Bound(q11'[k]) <= u + 1)
    <2> SUFFICES ASSUME NEW k \in 1..Len(q11')
                 PROVE q11'[k].op # "list" /\ (q11'[k].op # "wait" => Bound(q11'[k]) <= u)
                       /\ (x = 7 => Bound(q11'[k]) <= u + 1)
      OBVIOUS
    <2>1. CASE k \in 1..Len(q11) /\ q11'[k] = q11[k]
      <3>1. Bound(q11[k]) \in Int /\ Bound(q11[k]) <= t + 1 /\ (q11[k].op # "wait" => Bound(q11[k]) <= t)
        BY <1>0, <1>10, <1>11, <2>1
      <3> QED BY <1>0, <1>1, <1>11, <2>1, <3>1
    <2>2. ASSUME NEW i \in 1..n, q11'[k] = a[i]
          PROVE q11'[k].op # "list" /\ (q11'[k].op # "wait" => Bound(q11'[k]) <= u)
                /\ (x = 7 => Bound(q11'[k]) <= u + 1)
      BY <1>9, <2>2
    <2> QED BY <1>6, <2>1, <2>2
  <1>14. \A k \in 1..Len(q12') : q12'[k].op \in {"signal", "wait", "list"} /\ (q12'[k].op # "wait" => Bound(q12'[k]) <= u)
                                  /\ (x = 7 => Bound(q12'[k]) <= u)
    <2> SUFFICES ASSUME NEW k \in 1..Len(q12')
                 PROVE q12'[k].op \in {"signal", "wait", "list"} /\ (q12'[k].op # "wait" => Bound(q12'[k]) <= u)
                       /\ (x = 7 => Bound(q12'[k]) <= u)
      OBVIOUS
    <2>1. CASE k \in 1..Len(q12) /\ q12'[k] = q12[k]
      <3>1. Bound(q12[k]) \in Int /\ Bound(q12[k]) <= t + 1 /\ (q12[k].op # "wait" => Bound(q12[k]) <= t)
        BY <1>0, <1>10, <1>11, <2>1
      <3> QED BY <1>0, <1>1, <1>11, <2>1, <3>1
    <2>2. ASSUME NEW i \in 1..m, q12'[k] = b[i]
          PROVE q12'[k].op \in {"signal", "wait", "list"} /\ (q12'[k].op # "wait" => Bound(q12'[k]) <= u)
                /\ (x = 7 => Bound(q12'[k]) <= u)
      BY <1>9, <2>2
    <2> QED BY <1>7, <2>1, <2>2
  <1>15. inputs' <= u /\ outputs' <= u /\ fence' <= u
    BY <1>0, <1>1, <1>11, <1>12
  <1> QED BY <1>5, <1>8, <1>12, <1>13, <1>14, <1>15 DEF TickInv

\* An evaluation queues its work.
LEMMA EvaluateStep ==
  ASSUME SessionTypeOK, CoreInv, EvaluateAfterWait
  PROVE  CoreInv'
  <1>0. CoreInv /\ TypeOK /\ ArgumentInv
    BY DEF CoreInv, TypeOK, RestTypes, BridgeRecord, CallRecord
  <1>1. ~bridge.faulted /\ bridge.tick + 3 <= MaxTick /\ bridge.tick \in Nat
    BY <1>0, CoreFacts DEF EvaluateAfterWait, Returns, ArgumentInv
  <1>2. PICK at \in {Steps[i] : i \in DOMAIN Steps}, ok \in BOOLEAN :
                (at = "copied" => ok) /\ Queue(at, ok, bridge.tick + 1)
    BY DEF EvaluateAfterWait
  <1>3. PICK x \in 1..7 : at = Steps[x]
    BY StepNames
  <1>4. x = 6 => ok
    BY <1>2, <1>3, StepNames
  <1> DEFINE r == bridge.tick + 1
             list == List(r, session.backend, bridge.surfaces, ok)
  <1>5. /\ Extends(q11, q11', Batch11(r), Length11(x, ok)) /\ Extends(q12, q12', Batch12(r, list), Length12(x))
        /\ flushed' \in 0..Len(q11') /\ bridge'.tick = TickOf(x, ok, r) /\ bridge'.faulted = (x # 7)
    <2>1. r \in Nat /\ r + 2 <= MaxTick /\ q11 \in Seq(Command) /\ q12 \in Seq(Command)
      BY <1>1, CoreFacts, SMTT(30)
    <2>2. Queue(Steps[x], ok, r)
      BY <1>2, <1>3
    <2> HIDE DEF r
    <2> QED BY <1>0, <1>4, <2>1, <2>2, QueueShape
  <1>6. bridge' \in BridgeRecord
    BY <1>0, <1>1, <1>2, EvaluatedBridge
  <1>7. list \in ListCommand /\ list.v = r
    <2>1. r \in Values /\ bridge.surfaces \in Nat /\ session.backend \in Instance \union {NoInstance}
      <3>1. r \in Values
        BY <1>1, BridgeAssumption DEF Values
      <3>2. bridge.surfaces \in Nat /\ session.backend \in Instance \union {NoInstance}
        BY <1>0 DEF TypeOK, SessionTypeOK
      <3> QED BY <3>1, <3>2
    <2> QED BY <2>1 DEF List, ListCommand
  <1>8. UNCHANGED <<fence, running, inputs, outputs, delivered, hung>> /\ call' = Idle
    BY DEF EvaluateAfterWait, imageVars
  <1>9. event' \in EventRecord
    BY <1>0, ReturnsEvent DEF EvaluateAfterWait
  <1>10. r \in Nat /\ r = bridge.tick + 1 /\ Length11(x, ok) \in 1..5 /\ Length12(x) \in 0..3
    BY <1>1 DEF Length11, Length12
  <1> HIDE DEF r, list
  <1>11. FenceInv'
    BY <1>0, <1>1, <1>5, <1>7, <1>8, <1>10, EvaluatedFence DEF FenceInv
  <1>12. TickInv'
    BY <1>0, <1>1, <1>4, <1>5, <1>7, <1>8, <1>10, EvaluatedTicks
  <1>13. QueueTypes'
    <2>1. q11' \in Seq(Command) /\ q12' \in Seq(Command)
      BY <1>5 DEF Extends
    <2>2. running => q12' # <<>> /\ q12'[1].op = "list"
      <3> SUFFICES ASSUME running PROVE q12' # <<>> /\ q12'[1].op = "list"
        OBVIOUS
      <3>1. q12 \in Seq(Command) /\ q12 # <<>> /\ q12[1].op = "list"
        BY <1>0 DEF CoreInv, QueueTypes
      <3>2. 1 \in 1..Len(q12) /\ Len(q12) \in Nat
        BY <3>1
      <3>3. q12'[1] = q12[1] /\ Len(q12') >= 1
        BY <1>5, <1>10, <3>2, SMTT(30) DEF Extends
      <3> QED BY <3>1, <3>3
    <2> QED BY <1>8, <1>9, <2>1, <2>2 DEF QueueTypes
  <1>14. RestTypes'
    BY <1>0, <1>5, <1>6, <1>8, <1>9, IdleType DEF CoreInv, RestTypes, EventRecord
  <1>15. ArgumentInv'
    BY <1>8 DEF ArgumentInv, Idle
  <1> QED BY <1>11, <1>12, <1>13, <1>14, <1>15 DEF CoreInv

-------------------------------------------------------------------------------
\* The queues run.

\* What is left of D3D11's queue is of the same ticks, or the fence has reached the last.
LEMMA Popped11 ==
  ASSUME CoreInv, q11 # <<>>, q11' = Tail(q11), q12' = q12, bridge' = bridge, fence' \in Nat,
         q11[1].op = "signal" => fence' = q11[1].v, q11[1].op # "signal" => fence' = fence,
         q11[1].op = "wait" => fence >= q11[1].v, inputs' <= bridge.tick, outputs' <= bridge.tick
  PROVE  fence <= fence' /\ FenceInv' /\ TickInv'
  <1>0. q11 \in Seq(Command) /\ q12 \in Seq(Command) /\ fence \in Nat /\ bridge.tick \in Nat /\ TickInv /\ FenceInv
    BY CoreFacts DEF CoreInv
  <1>1. fence <= fence' /\ FenceInv'
    BY <1>0, HeadRuns DEF FenceInv
  <1>2. /\ 1 \in 1..Len(q11) /\ q11[1].v \in Nat /\ (q11[1].op = "signal" => Bound(q11[1]) = q11[1].v)
        /\ \A k \in 1..Len(Tail(q11)) : k + 1 \in 1..Len(q11) /\ Tail(q11)[k] = q11[k + 1]
        /\ \A k \in 1..Len(q11) : k # 1 => k - 1 \in 1..Len(Tail(q11)) /\ Tail(q11)[k - 1] = q11[k]
    BY <1>0, TailOf, CommandFacts
  <1>3. fence' <= bridge.tick
    <2>1. CASE q11[1].op = "signal"
      BY <1>0, <1>2, <2>1 DEF TickInv
    <2>2. CASE q11[1].op # "signal"
      BY <1>0, <2>2 DEF TickInv
    <2> QED BY <2>1, <2>2
  <1>4. \A k \in 1..Len(q11') : q11'[k].op # "list" /\ (q11'[k].op # "wait" => Bound(q11'[k]) <= bridge.tick)
    BY <1>0, <1>2 DEF TickInv
  <1>5. ASSUME ~bridge.faulted PROVE fence' >= bridge.tick \/ \E k \in 1..Len(q11') : Brings(q11'[k], bridge.tick)
    <2>1. CASE fence >= bridge.tick
      BY <1>0, <1>1, <2>1
    <2>2. ASSUME NEW k \in 1..Len(q11), Brings(q11[k], bridge.tick)
          PROVE  fence' >= bridge.tick \/ \E j \in 1..Len(q11') : Brings(q11'[j], bridge.tick)
      <3>1. CASE k = 1
        BY <1>0, <1>1, <1>2, <2>2, <3>1 DEF Brings
      <3>2. CASE k # 1
        <4>1. k - 1 \in 1..Len(q11') /\ q11'[k - 1] = q11[k]
          BY <1>2, <3>2
        <4> QED BY <2>2, <4>1
      <3> QED BY <3>1, <3>2
    <2> QED BY <1>0, <1>5, <2>1, <2>2 DEF TickInv
  <1>6. ~bridge.faulted => \A k \in 1..Len(q11') : Bound(q11'[k]) <= bridge.tick + 1
    BY <1>0, <1>2 DEF TickInv
  <1> QED BY <1>0, <1>1, <1>3, <1>4, <1>5, <1>6 DEF TickInv

\* What is left of D3D12's queue.
LEMMA Popped12 ==
  ASSUME CoreInv, q12 # <<>>, q12' = Tail(q12), q11' = q11, bridge' = bridge, fence' \in Nat,
         q12[1].op = "signal" => fence' = q12[1].v, q12[1].op # "signal" => fence' = fence,
         q12[1].op = "wait" => fence >= q12[1].v, inputs' <= bridge.tick, outputs' <= bridge.tick
  PROVE  fence <= fence' /\ FenceInv' /\ TickInv'
  <1>0. q11 \in Seq(Command) /\ q12 \in Seq(Command) /\ fence \in Nat /\ bridge.tick \in Nat /\ TickInv
        /\ Fenced(q12, q11, fence)
    BY CoreFacts, FencedBothWays DEF CoreInv, FenceInv
  <1>1. fence <= fence' /\ FenceInv'
    <2>1. fence <= fence' /\ Fenced(Tail(q12), q11, fence')
      BY <1>0, HeadRuns
    <2> QED BY <2>1, FencedBothWays DEF FenceInv
  <1>2. /\ 1 \in 1..Len(q12) /\ (q12[1].op = "signal" => Bound(q12[1]) = q12[1].v)
        /\ \A k \in 1..Len(Tail(q12)) : k + 1 \in 1..Len(q12) /\ Tail(q12)[k] = q12[k + 1]
    BY <1>0, TailOf, CommandFacts
  <1>3. fence' <= bridge.tick
    <2>1. CASE q12[1].op = "signal"
      BY <1>0, <1>2, <2>1 DEF TickInv
    <2>2. CASE q12[1].op # "signal"
      BY <1>0, <2>2 DEF TickInv
    <2> QED BY <2>1, <2>2
  <1>4. \A k \in 1..Len(q12') : /\ q12'[k].op \in {"signal", "wait", "list"}
                                /\ q12'[k].op # "wait" => Bound(q12'[k]) <= bridge.tick
                                /\ ~bridge.faulted => Bound(q12'[k]) <= bridge.tick
    BY <1>0, <1>2 DEF TickInv
  <1>5. ~bridge.faulted => fence' >= bridge.tick \/ \E k \in 1..Len(q11) : Brings(q11[k], bridge.tick)
    BY <1>0, <1>1 DEF TickInv
  <1> QED BY <1>0, <1>1, <1>3, <1>4, <1>5 DEF TickInv

\* The GPU touches neither the call nor the bridge.
LEMMA GpuKeeps ==
  ASSUME CoreInv, UNCHANGED <<bridge, call, hung>>, fence <= fence', fence' \in Nat, FenceInv', TickInv', QueueTypes',
         flushed' \in 0..Len(q11'), running' \in BOOLEAN, inputs' \in Values, outputs' \in Values,
         delivered' \in [n : Values, image : Values]
  PROVE  CoreInv'
  <1>1. fence' \in Values
    <2>1. fence' <= bridge.tick /\ bridge.tick \in Values
      BY CoreFacts DEF TickInv
    <2> QED BY <2>1, BridgeAssumption DEF Values
  <1>2. RestTypes'
    BY <1>1 DEF CoreInv, RestTypes, QueueTypes, EventRecord
  <1>3. ArgumentInv'
    BY CoreFacts DEF CoreInv, ArgumentInv
  <1> QED BY <1>2, <1>3 DEF CoreInv

\* A signal is of a tick so far, and leaves an event.
LEMMA SetFenceFacts ==
  ASSUME CoreInv, NEW v \in Nat, SetFence(v)
  PROVE  fence' = v /\ event' \in EventRecord
  <1>1. (event.set \/ \E a \in event.armed : a <= v) \in BOOLEAN
    BY CoreFacts DEF EventRecord
  <1>2. {a \in event.armed : a > v} \in SUBSET Values
    BY CoreFacts DEF EventRecord
  <1> DEFINE up == event.set \/ \E a \in event.armed : a <= v
             rest == {a \in event.armed : a > v}
  <1>3. event' = [set |-> up, armed |-> rest] /\ fence' = v
    BY DEF SetFence
  <1> HIDE DEF up, rest
  <1>4. up \in BOOLEAN /\ rest \in SUBSET Values
    BY <1>1, <1>2 DEF up, rest
  <1> QED BY <1>3, <1>4 DEF EventRecord

\* D3D11 runs its next command.
LEMMA Execute11Step ==
  ASSUME CoreInv, Execute11
  PROVE  CoreInv' /\ fence <= fence'
  <1>0. /\ q11 \in Seq(Command) /\ q12 \in Seq(Command) /\ fence \in Nat /\ bridge.tick \in Nat
        /\ RestTypes /\ QueueTypes /\ TickInv /\ FenceInv
    BY CoreFacts DEF CoreInv
  <1>1. q11 # <<>> /\ flushed \in 0..Len(q11) /\ flushed > 0
    BY <1>0 DEF Execute11, RestTypes
  <1>2. /\ Head(q11) = q11[1] /\ q11[1] \in Command /\ 1 \in 1..Len(q11) /\ Tail(q11) \in Seq(Command)
        /\ Len(Tail(q11)) = Len(q11) - 1 /\ Len(q11) \in Nat
    BY <1>0, <1>1, TailOf
  <1>3. q11[1].v \in Nat /\ q11[1].v \in Values /\ q11[1].op # "list"
        /\ (q11[1].op = "copyIn" => q11[1].v <= bridge.tick)
    <2>1. /\ q11[1].v \in Nat /\ q11[1].v \in Values /\ (q11[1].op = "copyIn" => Bound(q11[1]) = q11[1].v)
      BY <1>2, CommandFacts
    <2>2. q11[1].op # "list" /\ (q11[1].op # "wait" => Bound(q11[1]) <= bridge.tick)
      BY <1>0, <1>2 DEF TickInv
    <2> QED BY <2>1, <2>2
  <1>4. /\ q11' = Tail(q11) /\ flushed' = flushed - 1
        /\ UNCHANGED <<bridge, call, q12, running, hung>>
    BY DEF Execute11, cpuVars
  <1>5. /\ fence' \in Nat /\ event' \in EventRecord
        /\ q11[1].op = "signal" => fence' = q11[1].v
        /\ q11[1].op # "signal" => fence' = fence
        /\ q11[1].op = "wait" => fence >= q11[1].v
        /\ inputs' \in Values /\ outputs' \in Values /\ inputs' <= bridge.tick /\ outputs' <= bridge.tick
        /\ delivered' \in [n : Values, image : Values]
    <2>0. /\ inputs \in Values /\ outputs \in Values /\ inputs <= bridge.tick /\ outputs <= bridge.tick
          /\ delivered \in [n : Values, image : Values] /\ event \in EventRecord
      BY <1>0 DEF RestTypes, TickInv, QueueTypes
    <2>1. CASE q11[1].op = "copyIn" /\ inputs' = q11[1].v /\ UNCHANGED <<fence, event, outputs, delivered>>
      BY <1>0, <1>3, <2>0, <2>1
    <2>2. CASE q11[1].op = "copyOut" /\ delivered' = [n |-> q11[1].v, image |-> outputs]
               /\ UNCHANGED <<fence, event, inputs, outputs>>
      BY <1>0, <1>3, <2>0, <2>2
    <2>3. CASE q11[1].op = "signal" /\ SetFence(q11[1].v) /\ UNCHANGED imageVars
      BY <1>0, <1>3, <2>0, <2>3, SetFenceFacts DEF imageVars
    <2>4. CASE q11[1].op = "wait" /\ fence >= q11[1].v /\ UNCHANGED <<fence, event, imageVars>>
      BY <1>0, <1>3, <2>0, <2>4 DEF imageVars
    <2> QED BY <1>2, <2>1, <2>2, <2>3, <2>4 DEF Execute11
  <1>6. fence <= fence' /\ FenceInv' /\ TickInv'
    BY <1>1, <1>4, <1>5, Popped11
  <1>7. QueueTypes'
    BY <1>0, <1>2, <1>4, <1>5 DEF QueueTypes
  <1>8. flushed' \in 0..Len(q11') /\ running' \in BOOLEAN
    BY <1>0, <1>1, <1>2, <1>4 DEF RestTypes
  <1> QED BY <1>4, <1>5, <1>6, <1>7, <1>8, GpuKeeps

\* D3D12 runs its next command, or begins its next list.
LEMMA Execute12Step ==
  ASSUME CoreInv, Execute12
  PROVE  CoreInv' /\ fence <= fence'
  <1>0. /\ q11 \in Seq(Command) /\ q12 \in Seq(Command) /\ fence \in Nat /\ bridge.tick \in Nat
        /\ RestTypes /\ QueueTypes /\ TickInv /\ FenceInv
    BY CoreFacts DEF CoreInv
  <1>1. q12 # <<>> /\ ~running
    BY DEF Execute12
  <1>2. Head(q12) = q12[1] /\ q12[1] \in Command /\ Tail(q12) \in Seq(Command)
    BY <1>0, <1>1, TailOf
  <1>3. UNCHANGED <<bridge, call, q11, flushed, inputs, outputs, delivered, hung>>
    BY DEF Execute12, cpuVars, imageVars
  <1>4. /\ inputs' \in Values /\ outputs' \in Values /\ inputs' <= bridge.tick /\ outputs' <= bridge.tick
        /\ delivered' \in [n : Values, image : Values] /\ flushed' \in 0..Len(q11')
    BY <1>0, <1>3 DEF RestTypes, TickInv
  <1>5. CASE q12[1].op = "list" /\ running' = TRUE /\ UNCHANGED <<q12, fence, event>>
    <2>1. FenceInv' /\ TickInv' /\ fence <= fence' /\ fence' \in Nat
      BY <1>0, <1>3, <1>5 DEF FenceInv, TickInv
    <2>2. QueueTypes'
      BY <1>0, <1>1, <1>3, <1>5 DEF QueueTypes
    <2> QED BY <1>3, <1>4, <1>5, <2>1, <2>2, GpuKeeps
  <1>6. CASE /\ (q12[1].op = "signal" /\ SetFence(q12[1].v)) \/ (q12[1].op = "wait" /\ fence >= q12[1].v /\ UNCHANGED <<fence, event>>)
             /\ q12' = Tail(q12) /\ UNCHANGED running
    <2>1. q12[1].v \in Nat
      BY <1>2, CommandFacts
    <2>2. /\ fence' \in Nat /\ event' \in EventRecord
          /\ q12[1].op = "signal" => fence' = q12[1].v
          /\ q12[1].op # "signal" => fence' = fence
          /\ q12[1].op = "wait" => fence >= q12[1].v
      BY <1>0, <1>6, <2>1, SetFenceFacts DEF QueueTypes
    <2>3. fence <= fence' /\ FenceInv' /\ TickInv'
      BY <1>1, <1>3, <1>4, <1>6, <2>2, Popped12
    <2>4. QueueTypes' /\ running' \in BOOLEAN
      BY <1>0, <1>1, <1>2, <1>3, <1>6, <2>2 DEF QueueTypes, RestTypes
    <2> QED BY <1>3, <1>4, <2>2, <2>3, <2>4, GpuKeeps
  <1> QED BY <1>2, <1>5, <1>6 DEF Execute12

\* A list ends.
LEMMA FinishStep ==
  ASSUME CoreInv, FinishList
  PROVE  CoreInv' /\ fence <= fence'
  <1>0. /\ q11 \in Seq(Command) /\ q12 \in Seq(Command) /\ fence \in Nat /\ bridge.tick \in Nat
        /\ RestTypes /\ QueueTypes /\ TickInv /\ FenceInv
    BY CoreFacts DEF CoreInv
  <1>1. q12 # <<>> /\ q12[1].op = "list"
    BY <1>0 DEF FinishList, QueueTypes
  <1>2. Head(q12) = q12[1] /\ q12[1] \in Command /\ 1 \in 1..Len(q12) /\ Tail(q12) \in Seq(Command)
    BY <1>0, <1>1, TailOf
  <1>3. UNCHANGED <<bridge, call, event, fence, q11, flushed, inputs, delivered, hung>>
        /\ running' = FALSE /\ q12' = Tail(q12) /\ outputs' \in {outputs, q12[1].v}
    BY <1>2 DEF FinishList, cpuVars
  <1>4. q12[1].v \in Values /\ q12[1].v <= bridge.tick
    <2>1. q12[1].v \in Nat /\ q12[1].v \in Values /\ Bound(q12[1]) = q12[1].v + 1
      BY <1>1, <1>2, CommandFacts
    <2>2. Bound(q12[1]) <= bridge.tick
      BY <1>0, <1>1, <1>2 DEF TickInv
    <2> QED BY <1>0, <2>1, <2>2
  <1>5. /\ inputs' \in Values /\ outputs' \in Values /\ inputs' <= bridge.tick /\ outputs' <= bridge.tick
        /\ delivered' \in [n : Values, image : Values] /\ flushed' \in 0..Len(q11')
    BY <1>0, <1>3, <1>4 DEF RestTypes, TickInv
  <1>6. fence <= fence' /\ FenceInv' /\ TickInv'
    BY <1>0, <1>1, <1>3, <1>5, Popped12
  <1>7. QueueTypes'
    BY <1>0, <1>2, <1>3 DEF QueueTypes
  <1> QED BY <1>0, <1>3, <1>5, <1>6, <1>7, GpuKeeps

\* The game's Present submits.
LEMMA FlushStep ==
  ASSUME CoreInv, GameFlush \/ UNCHANGED vars
  PROVE  CoreInv' /\ fence <= fence'
  <1>0. /\ q11 \in Seq(Command) /\ fence \in Nat /\ Len(q11) \in Nat /\ RestTypes /\ QueueTypes /\ TickInv /\ FenceInv
    BY CoreFacts DEF CoreInv
  <1>1. UNCHANGED <<bridge, call, event, fence, q11, q12, running, inputs, outputs, delivered, hung>>
        /\ flushed' \in {flushed, Len(q11)}
    BY DEF GameFlush, vars, cpuVars, gpuVars, imageVars
  <1>2. FenceInv' /\ TickInv' /\ QueueTypes' /\ fence <= fence' /\ fence' \in Nat
    BY <1>0, <1>1 DEF FenceInv, TickInv, QueueTypes
  <1>3. /\ inputs' \in Values /\ outputs' \in Values /\ delivered' \in [n : Values, image : Values]
        /\ flushed' \in 0..Len(q11') /\ running' \in BOOLEAN
    BY <1>0, <1>1 DEF RestTypes
  <1> QED BY <1>1, <1>2, <1>3, GpuKeeps

-------------------------------------------------------------------------------
\* Every step.

\* The calls start with arguments of theirs.
LEMMA CallStep ==
  ASSUME SessionTypeOK, CoreInv, CallSelect \/ CallAutoExposure \/ CallEvaluate \/ CallDestroy
  PROVE  CoreInv' /\ fence' = fence
  <1>0. bridge \in BridgeRecord /\ bridge.tick \in Values /\ Idle \in CallRecord
    BY CoreFacts, IdleType
  <1>1. CASE CallSelect
    <2> PICK choice \in Choices \union {NoChoice} : Start("select", bridge.tick, [Idle EXCEPT !.choice = choice])
      BY <1>1 DEF CallSelect
    <2> DEFINE arguments == [Idle EXCEPT !.choice = choice]
    <2>1. arguments \in CallRecord
      BY <1>0 DEF CallRecord
    <2>2. Start("select", bridge.tick, arguments)
      OBVIOUS
    <2> HIDE DEF arguments
    <2>3. CoreInv'
      BY <1>0, <2>1, <2>2, StartStep
    <2> QED BY <2>2, <2>3 DEF Start
  <1>2. CASE CallAutoExposure
    <2> DEFINE arguments == [Idle EXCEPT !.exposure = ~session.exposure]
    <2>0. (~session.exposure) \in BOOLEAN
      OBVIOUS
    <2>1. arguments \in CallRecord
      BY <1>0, <2>0 DEF CallRecord
    <2>2. Start("exposure", bridge.tick, arguments) /\ ~bridge.faulted
      BY <1>2 DEF CallAutoExposure
    <2> HIDE DEF arguments
    <2>3. CoreInv'
      BY <1>0, <2>1, <2>2, StartStep
    <2> QED BY <2>2, <2>3 DEF Start
  <1>3. CASE CallEvaluate
    <2> PICK frame \in [view : Views, frame : 1 .. MaxFrame, generation : 1 .. MaxGeneration] :
                IF bridge.size = frame.generation
                THEN Start("evaluate", bridge.complete[bridge.next], [Idle EXCEPT !.frame = frame])
                ELSE Start("resize", bridge.tick, [Idle EXCEPT !.frame = frame])
      BY <1>3 DEF CallEvaluate
    <2> DEFINE arguments == [Idle EXCEPT !.frame = frame]
    <2>0. frame \in Frame /\ frame.generation \in 1 .. MaxGeneration /\ frame.generation # 0
      BY BridgeAssumption DEF Frame
    <2>1. arguments \in CallRecord /\ arguments.frame = frame
      BY <1>0, <2>0 DEF CallRecord
    <2>2. ~bridge.faulted /\ bridge.tick + 3 <= MaxTick
      BY <1>3 DEF CallEvaluate
    <2>3. bridge.complete[bridge.next] \in Values
      BY <1>0 DEF BridgeRecord
    <2>4. CASE bridge.size = frame.generation
      <3>1. Start("evaluate", bridge.complete[bridge.next], arguments)
        BY <2>4
      <3> HIDE DEF arguments
      <3>2. CoreInv'
        BY <1>0, <2>0, <2>1, <2>2, <2>3, <2>4, <3>1, StartStep
      <3> QED BY <3>1, <3>2 DEF Start
    <2>5. CASE bridge.size # frame.generation
      <3>1. Start("resize", bridge.tick, arguments)
        BY <2>5
      <3> HIDE DEF arguments
      <3>2. CoreInv'
        BY <1>0, <2>0, <2>1, <2>2, <3>1, StartStep
      <3> QED BY <3>1, <3>2 DEF Start
    <2> QED BY <2>4, <2>5
  <1>4. CASE CallDestroy
    <2>1. Start("destroy", bridge.tick, Idle)
      BY <1>4 DEF CallDestroy, DestroyAfter
    <2>2. CoreInv'
      BY <1>0, <2>1, StartStep
    <2> QED BY <2>1, <2>2 DEF Start
  <1> QED BY <1>1, <1>2, <1>3, <1>4

\* Returns that leave the queues alone, and waits that are given up.
LEMMA QuietReturn ==
  ASSUME CoreInv, SelectAfterWait \/ AutoExposureAfterWait \/ DestroyAfterWait \/ TimeOut
  PROVE  CoreInv' /\ fence' = fence
  <1>0. bridge \in BridgeRecord /\ event \in EventRecord /\ hung \in BOOLEAN
    BY CoreFacts DEF CoreInv, RestTypes
  <1>1. call' = Idle /\ UNCHANGED <<q11, flushed, q12, running, fence, inputs, outputs, delivered>>
    BY DEF SelectAfterWait, AutoExposureAfterWait, DestroyAfterWait, TimeOut, gpuVars, imageVars
  <1>2. event' \in EventRecord
    BY <1>0, ReturnsEvent DEF SelectAfterWait, AutoExposureAfterWait, DestroyAfterWait, TimeOut
  <1>3. hung' \in BOOLEAN
    BY <1>0 DEF SelectAfterWait, AutoExposureAfterWait, DestroyAfterWait, TimeOut
  <1>4. bridge' \in BridgeRecord /\ bridge'.tick = bridge.tick /\ (bridge.faulted => bridge'.faulted)
    <2>1. \/ bridge' = bridge
          \/ bridge' = [bridge EXCEPT !.state = "destroyed", !.size = 0]
          \/ bridge' = [bridge EXCEPT !.state = "retained"]
          \/ bridge' = [bridge EXCEPT !.faulted = TRUE]
      BY DEF SelectAfterWait, AutoExposureAfterWait, DestroyAfterWait, TimeOut
    <2>2. 0 \in 0 .. MaxGeneration
      BY BridgeAssumption
    <2>3. bridge' \in BridgeRecord
      BY <1>0, <2>1, <2>2 DEF BridgeRecord
    <2> QED BY <1>0, <2>1, <2>3 DEF BridgeRecord
  <1> QED BY <1>1, <1>2, <1>3, <1>4, ReturnStep

\* Every step keeps the queues' order, and the fence does not go down.
LEMMA CoreStep ==
  ASSUME SessionTypeOK, CoreInv, [Next]_vars
  PROVE  CoreInv' /\ fence <= fence'
  <1>0. fence \in Nat
    BY CoreFacts
  <1>1. CASE CallSelect \/ CallAutoExposure \/ CallEvaluate \/ CallDestroy
    BY <1>0, <1>1, CallStep
  <1>2. CASE SelectAfterWait \/ AutoExposureAfterWait \/ DestroyAfterWait \/ TimeOut
    BY <1>0, <1>2, QuietReturn
  <1>3. CASE Resize
    BY <1>0, <1>3, ResizeStep DEF Resize
  <1>4. CASE EvaluateAfterWait
    BY <1>0, <1>4, EvaluateStep DEF EvaluateAfterWait
  <1>5. CASE GameFlush \/ UNCHANGED vars
    BY <1>5, FlushStep
  <1>6. CASE Execute11
    BY <1>6, Execute11Step
  <1>7. CASE Execute12
    BY <1>7, Execute12Step
  <1>8. CASE FinishList
    BY <1>8, FinishStep
  <1> QED BY <1>1, <1>2, <1>3, <1>4, <1>5, <1>6, <1>7, <1>8 DEF Next, CpuReturns

\* A bridge that was just opened.
LEMMA CoreStart == Init => SessionTypeOK /\ CoreInv
  <1> SUFFICES ASSUME Init PROVE SessionTypeOK /\ CoreInv
    OBVIOUS
  <1>1. SessionTypeOK
    BY NoFrameType, InstancesAssumption DEF Init, SessionInit, SessionTypeOK, NoInstance, Reset
  <1>2. RestTypes
    <2>1. 0 \in Values /\ 0 \in SlotIndex /\ 0 \in 0..MaxGeneration
      BY BridgeAssumption DEF Values, SlotIndex
    <2>2. bridge \in BridgeRecord
      BY <2>1 DEF Init, BridgeRecord
    <2>3. call \in CallRecord
      BY IdleType DEF Init
    <2> QED BY <2>1, <2>2, <2>3 DEF Init, RestTypes
  <1>3. q11 = <<>> /\ q12 = <<>> /\ Len(q11) = 0 /\ Len(q12) = 0
    BY DEF Init
  <1>4. QueueTypes
    BY <1>3, BridgeAssumption DEF Init, QueueTypes, EventRecord
  <1>5. FenceInv
    BY <1>3 DEF FenceInv, Fenced, Bounded, Gated, Sorted, Apart
  <1>6. TickInv
    BY <1>3 DEF Init, TickInv
  <1>7. ArgumentInv
    BY DEF Init, ArgumentInv, Idle
  <1> QED BY <1>1, <1>2, <1>4, <1>5, <1>6, <1>7 DEF CoreInv

\* Every step leaves the session of its type: what is open is the session's backend at most.
LEMMA SessionStep ==
  ASSUME BridgeInv, OwnedInv, SessionTypeOK, [Next]_vars
  PROVE  SessionTypeOK'
  <1>1. HistoryInv' /\ OneBackendOpen'
    BY StepInv, OwnedStep DEF BridgeInv, OwnedInv
  <1>2. open' \subseteq 1 .. opened'
    <2>1. open' \subseteq {session'.backend} \ {NoInstance}
      BY <1>1 DEF OneBackendOpen
    <2>2. session'.backend \in 0 .. MaxInstances /\ opened' \in 0 .. MaxInstances /\ session'.backend <= opened'
      BY <1>1, InstancesAssumption DEF HistoryInv, SessionRecord, Instance, NoInstance
    <2> QED BY <2>1, <2>2, InstancesAssumption DEF NoInstance
  <1>3. submitted' \in [continues : BOOLEAN, frame : Frame, after : Frame]
    <2>1. submitted' = submitted \/ \E fits, ok \in BOOLEAN : EvaluateAfterWait /\ Evaluate(fits, call.frame, ok)
      BY DEF Next, CpuReturns, CallSelect, CallAutoExposure, CallEvaluate, CallDestroy, DestroyAfter, Start, SelectAfterWait, Select,
             SelectNone, Replace, OpenRefused, PlanRefused, PlanRefusedClosing, Adopt, AdoptWith, AutoExposureAfterWait,
             SetAutoExposure, Resize, EvaluateAfterWait, EvaluateRefused, DestroyAfterWait, TimeOut, GameFlush, Execute11,
             Execute12, FinishList, vars, sessionVars
    <2>2. submitted \in [continues : BOOLEAN, frame : Frame, after : Frame] /\ seen \in [Instance -> Frame]
          /\ session.backend \in Instance \union {NoInstance}
      BY DEF SessionTypeOK
    <2>3. ASSUME NEW fits \in BOOLEAN, NEW ok \in BOOLEAN, EvaluateAfterWait, Evaluate(fits, call.frame, ok)
          PROVE  submitted' \in [continues : BOOLEAN, frame : Frame, after : Frame]
      <3>1. call.frame \in Frame
        BY <2>3 DEF EvaluateAfterWait, Returns, BridgeInv, CallInv
      <3>2. session.backend \in Instance
        BY <2>2, <2>3 DEF Evaluate, Refuses
      <3>3. submitted' = Reset \/ submitted' = [continues |-> TRUE, frame |-> call.frame, after |-> seen[session.backend]]
        BY <2>3, Zenon DEF Evaluate
      <3>4. seen[session.backend] \in Frame
        BY <2>2, <3>2
      <3>5. Reset \in [continues : BOOLEAN, frame : Frame, after : Frame]
        BY NoFrameType DEF Reset
      <3>6. ASSUME NEW last \in Frame, NEW next \in Frame
            PROVE  [continues |-> TRUE, frame |-> next, after |-> last] \in [continues : BOOLEAN, frame : Frame, after : Frame]
        OBVIOUS
      <3>7. [continues |-> TRUE, frame |-> call.frame, after |-> seen[session.backend]]
               \in [continues : BOOLEAN, frame : Frame, after : Frame]
        BY <3>1, <3>4, <3>6, Zenon
      <3> QED BY <3>3, <3>5, <3>7, Zenon
    <2> QED BY <2>1, <2>2, <2>3
  <1> QED BY <1>1, <1>2, <1>3 DEF SessionTypeOK, HistoryInv, SessionRecord

\* The bridge, its session and its queues together.
LEMMA MainStart == Init => MainInv
  BY InitInv, OwnedInit, CoreStart DEF MainInv

\* Every step keeps all of it.
LEMMA MainStep == MainInv /\ [Next]_vars => MainInv' /\ fence <= fence'
  BY StepInv, OwnedStep, SessionStep, CoreStep DEF MainInv

\* The shared fence never goes down, though two queues signal it and a failed evaluation leaves
\* either of them short of what the other waits for.
THEOREM FenceOnlyRises == Spec => FenceRises
  <1>1. MainInv /\ [Next]_vars => [fence' >= fence]_fence
    <2> SUFFICES ASSUME MainInv, [Next]_vars PROVE fence' >= fence
      OBVIOUS
    <2>1. MainInv' /\ fence <= fence'
      BY MainStep
    <2>2. fence \in Nat /\ fence' \in Nat
      BY <2>1, BridgeAssumption DEF MainInv, CoreInv, RestTypes, Values
    <2> QED BY <2>1, <2>2
  <1>2. MainInv /\ [Next]_vars => MainInv'
    BY MainStep
  <1> QED BY <1>1, <1>2, MainStart, PTL DEF Spec, FenceRises

\* Everything keeps its type, the queues at every length, and the session owns what is open.
THEOREM BridgeIsTyped == Spec => []SrInv
  <1>1. MainInv => SrInv
    BY DEF MainInv, OwnedInv, CoreInv, RestTypes, BridgeRecord, CallRecord, SrInv, TypeOK
  <1>2. MainInv /\ [Next]_vars => MainInv'
    BY MainStep
  <1> QED BY <1>1, <1>2, MainStart, PTL DEF Spec

-------------------------------------------------------------------------------
\* Whose images the shared surfaces hold, and what queued lists use.  A queue that made a wait time
\* out does not go on (~Recovers) from here on: with it, the event stays registered for a value that
\* nobody waits for any more, and a later wait ends too early.

\* A list that is still to run has its inputs, or will be given them; so has an output copy its
\* output.  Neither image is of a later evaluation.
ImageInv ==
    /\ Rising(q11, "copyIn") /\ Rising(q12, "list")
    /\ \A k \in 1..Len(q12) : q12[k].op = "list" =>
          /\ outputs < q12[k].v
          /\ inputs = q12[k].v \/ Has(q11, "copyIn", q12[k].v)
    /\ \A k \in 1..Len(q11) :
          /\ q11[k].op = "copyIn" => inputs < q11[k].v
          /\ q11[k].op = "copyOut" => outputs = q11[k].v \/ HasGood(q12, q11[k].v)
    /\ delivered.n = delivered.image

\* A list's backend is open, and its surfaces are the bridge's.
LiveInv ==
    \A k \in 1..Len(q12) : q12[k].op = "list" =>
        /\ q12[k].instance \in open \union {NoInstance}
        /\ bridge.size # 0 /\ q12[k].surfaces = bridge.surfaces

\* The event is set for the value that is waited for.
EventInv ==
    /\ hung => ~event.set
    /\ ~hung => \A a \in event.armed : call.waits /\ a = call.value
    /\ event.set => call.waits /\ fence >= call.value /\ event.armed = {}

SafeInv == MainInv /\ ImageInv /\ LiveInv /\ EventInv

\* A call that waited for the last tick finds the queues without work.
LEMMA WaitedOut ==
  ASSUME CoreInv, EventInv, NEW op \in {"select", "exposure", "resize", "destroy"}, Returns(op)
  PROVE  /\ \A k \in 1..Len(q11) : q11[k].op = "wait"
         /\ \A k \in 1..Len(q12) : q12[k].op = "wait"
  <1>0. /\ fence \in Nat /\ bridge.tick \in Nat /\ TickInv /\ FenceInv /\ ArgumentInv
        /\ \A k \in 1..Len(q11) : Bound(q11[k]) \in Int
        /\ \A k \in 1..Len(q12) : Bound(q12[k]) \in Int
    BY CoreFacts, QueueFacts, CommandFacts DEF CoreInv
  <1>1. fence >= bridge.tick
    <2>1. call.op = op /\ call.value = bridge.tick
      BY <1>0 DEF Returns, ArgumentInv
    <2>2. CASE call.waits
      BY <2>1, <2>2 DEF Returns, EventInv
    <2>3. CASE ~call.waits
      BY <1>0, <2>1, <2>3 DEF ArgumentInv
    <2> QED BY <2>2, <2>3
  <1>2. ASSUME NEW k \in 1..Len(q11), q11[k].op # "wait" PROVE FALSE
    BY <1>0, <1>1, <1>2 DEF TickInv, FenceInv, Fenced, Bounded
  <1>3. ASSUME NEW k \in 1..Len(q12), q12[k].op # "wait" PROVE FALSE
    BY <1>0, <1>1, <1>3 DEF TickInv, FenceInv, Fenced, Bounded
  <1> QED BY <1>2, <1>3

\* Queues without work use nothing.
LEMMA NothingQueued ==
  ASSUME delivered.n = delivered.image, UNCHANGED <<q11, q12, delivered>>,
         \A k \in 1..Len(q11) : q11[k].op = "wait", \A k \in 1..Len(q12) : q12[k].op = "wait"
  PROVE  ImageInv' /\ LiveInv'
  BY DEF ImageInv, LiveInv, Rising

\* Returning takes the event, and leaves nothing registered.
LEMMA ReturnEvent ==
  ASSUME EventInv, event \in EventRecord, NEW op, Returns(op), call'.waits = FALSE, hung' = hung
  PROVE  EventInv'
  <1>1. CASE call.waits
    <2>1. event.set /\ event.armed = {}
      BY <1>1 DEF Returns, EventInv
    <2>2. event'.set = FALSE /\ event'.armed = {}
      BY <1>1, <2>1 DEF Returns, EventRecord
    <2> QED BY <2>2 DEF EventInv
  <1>2. CASE ~call.waits
    <2>1. event' = event /\ ~event.set
      BY <1>2 DEF Returns, EventInv
    <2> QED BY <1>2, <2>1 DEF EventInv
  <1> QED BY <1>1, <1>2

\* A call registers the event for its own value.
LEMMA StartEvent ==
  ASSUME CoreInv, EventInv, NEW op, NEW value \in Values, NEW arguments \in CallRecord, Start(op, value, arguments)
  PROVE  EventInv'
  <1>0. /\ ~call.waits /\ ~event.set /\ event \in EventRecord /\ fence' = fence /\ hung' = hung
        /\ ~hung => event.armed = {}
    BY CoreFacts DEF Start, EventInv, CoreInv, ArgumentInv
  <1>1. CASE fence < value
    <2>1. call'.waits /\ call'.value = value
      <3>1. call' = [arguments EXCEPT !.op = op, !.value = value, !.waits = TRUE]
        BY <1>1 DEF Start
      <3> QED BY <3>1 DEF CallRecord
    <2>2. event'.set = event.set /\ event'.armed = event.armed \union {value}
      BY <1>0, <1>1 DEF Start, EventRecord
    <2> QED BY <1>0, <2>1, <2>2 DEF EventInv
  <1>2. CASE ~(fence < value)
    <2>1. event' = event
      BY <1>2 DEF Start
    <2> QED BY <1>0, <2>1 DEF EventInv
  <1> QED BY <1>1, <1>2

\* A signal sets the event for the value that is waited for, or leaves it registered.
LEMMA SignalEvent ==
  ASSUME CoreInv, EventInv, ~hung, NEW v \in Nat, fence <= v, SetFence(v), UNCHANGED <<call, hung>>
  PROVE  EventInv'
  <1>0. fence' = v /\ event.armed \subseteq Nat /\ call.value \in Nat /\ fence \in Nat
    BY CoreFacts, BridgeAssumption DEF SetFence, EventRecord, Values
  <1>1. /\ event'.set <=> (event.set \/ \E a \in event.armed : a <= v)
        /\ event'.armed = {a \in event.armed : a > v}
    BY DEF SetFence
  <1>2. CASE event.set
    <2>1. call.waits /\ fence >= call.value /\ event.armed = {}
      BY <1>2 DEF EventInv
    <2>2. event'.armed = {} /\ fence' >= call.value
      BY <1>0, <1>1, <2>1
    <2> QED BY <2>1, <2>2 DEF EventInv
  <1>3. ASSUME ~event.set, NEW a \in event.armed, a <= v PROVE EventInv'
    <2>1. call.waits /\ a = call.value /\ \A b \in event.armed : b = call.value
      BY <1>3 DEF EventInv
    <2>2. event'.armed = {} /\ fence' >= call.value
      BY <1>0, <1>1, <1>3, <2>1
    <2> QED BY <2>1, <2>2 DEF EventInv
  <1>4. ASSUME ~event.set, \A a \in event.armed : ~(a <= v) PROVE EventInv'
    <2>1. ~event'.set /\ \A a \in event'.armed : a \in event.armed
      BY <1>1, <1>4
    <2> QED BY <2>1 DEF EventInv
  <1> QED BY <1>2, <1>3, <1>4

\* The commands of an operation stay in order behind a queue's.
LEMMA ExtendedRising ==
  ASSUME NEW q \in Seq(Command), NEW new, NEW batch, NEW n \in Nat, Extends(q, new, batch, n), NEW op, Rising(q, op),
         \A k \in 1..Len(q), i \in 1..n : q[k].op = op /\ batch[i].op = op => q[k].v < batch[i].v,
         \A j, i \in 1..n : j < i => ~(batch[j].op = op /\ batch[i].op = op)
  PROVE  Rising(new, op)
  <1> SUFFICES ASSUME NEW j \in 1..Len(new), NEW k \in 1..Len(new), j < k, new[j].op = op, new[k].op = op
               PROVE  new[j].v < new[k].v
    BY DEF Rising
  <1>0. /\ Len(q) \in Nat /\ (\A l \in 1..Len(q) : new[l] = q[l]) /\ (\A i \in 1..n : new[Len(q) + i] = batch[i])
    BY DEF Extends
  <1>1. CASE k \in 1..Len(q)
    <2>1. j \in 1..Len(q)
      BY <1>0, <1>1
    <2> QED BY <1>0, <1>1, <2>1 DEF Rising
  <1>2. ASSUME NEW i \in 1..n, k = Len(q) + i PROVE new[j].v < new[k].v
    <2>0. new[k] = batch[i]
      BY <1>0, <1>2
    <2>1. CASE j \in 1..Len(q)
      BY <1>0, <2>0, <2>1
    <2>2. ASSUME NEW l \in 1..n, j = Len(q) + l PROVE FALSE
      <3>1. l < i
        BY <1>0, <1>2, <2>2
      <3>2. new[j] = batch[l]
        BY <1>0, <2>2
      <3> QED BY <2>0, <3>1, <3>2
    <2>3. j \in 1..Len(q) \/ (j - Len(q) \in 1..n /\ j = Len(q) + (j - Len(q)))
      BY ExtendedIndex
    <2> QED BY <2>1, <2>2, <2>3, Zenon
  <1>3. k \in 1..Len(q) \/ (k - Len(q) \in 1..n /\ k = Len(q) + (k - Len(q)))
    BY ExtendedIndex
  <1> QED BY <1>1, <1>2, <1>3, Zenon

\* What a queue has it keeps behind it.
LEMMA ExtendedHas ==
  ASSUME NEW q \in Seq(Command), NEW new, NEW batch, NEW n \in Nat, Extends(q, new, batch, n)
  PROVE  /\ \A op, v : Has(q, op, v) => Has(new, op, v)
         /\ \A v : HasGood(q, v) => HasGood(new, v)
         /\ \A i \in 1..n : Has(new, batch[i].op, batch[i].v)
         /\ \A i \in 1..n : batch[i].op = "list" /\ batch[i].ok => HasGood(new, batch[i].v)
  <1>1. /\ \A k \in 1..Len(q) : k \in 1..Len(new) /\ new[k] = q[k]
        /\ \A i \in 1..n : Len(q) + i \in 1..Len(new) /\ new[Len(q) + i] = batch[i]
    BY ExtendedIndex
  <1> QED BY <1>1 DEF Has, HasGood

\* An evaluation queues a list on an open backend and the bridge's own surfaces, behind what is older.
LEMMA EvaluateSafe ==
  ASSUME MainInv, ImageInv, LiveInv, EvaluateAfterWait
  PROVE  ImageInv' /\ LiveInv'
  <1>0. CoreInv /\ TypeOK /\ ArgumentInv /\ OwnedInv /\ TickInv
    BY DEF MainInv, CoreInv, TypeOK, RestTypes, BridgeRecord, CallRecord
  <1>1. ~bridge.faulted /\ bridge.tick + 3 <= MaxTick /\ bridge.tick \in Nat /\ inputs \in Nat /\ outputs \in Nat
        /\ q11 \in Seq(Command) /\ q12 \in Seq(Command)
    BY <1>0, CoreFacts DEF EvaluateAfterWait, Returns, ArgumentInv
  <1>2. PICK at \in {Steps[i] : i \in DOMAIN Steps}, ok \in BOOLEAN :
                (at = "copied" => ok) /\ Queue(at, ok, bridge.tick + 1)
    BY DEF EvaluateAfterWait
  <1>3. PICK x \in 1..7 : at = Steps[x]
    BY StepNames
  <1>4. x = 6 => ok
    BY <1>2, <1>3, StepNames
  <1> DEFINE r == bridge.tick + 1
             list == List(r, session.backend, bridge.surfaces, ok)
             n == Length11(x, ok)
             m == Length12(x)
             a == Batch11(r)
             b == Batch12(r, list)
  <1>5. Extends(q11, q11', a, n) /\ Extends(q12, q12', b, m) /\ UNCHANGED <<bridge.state, bridge.size, bridge.surfaces>>
    <2>1. r \in Nat /\ r + 2 <= MaxTick
      BY <1>1
    <2>2. Queue(Steps[x], ok, r)
      BY <1>2, <1>3
    <2> HIDE DEF r
    <2> QED BY <1>0, <1>1, <1>4, <2>1, <2>2, QueueShape
  <1>6. /\ list \in ListCommand /\ list.v = r /\ list.ok = ok
        /\ list.instance = session.backend /\ list.surfaces = bridge.surfaces
    <2>1. r \in Values /\ bridge.surfaces \in Nat /\ session.backend \in Instance \union {NoInstance}
      <3>1. r \in Values
        BY <1>1, BridgeAssumption DEF Values
      <3>2. bridge.surfaces \in Nat /\ session.backend \in Instance \union {NoInstance}
        BY <1>0 DEF TypeOK, SessionTypeOK
      <3> QED BY <3>1, <3>2
    <2> QED BY <2>1 DEF List, ListCommand
  <1>7. UNCHANGED <<inputs, outputs, delivered, open>>
    <2>1. open' = open
      <3> PICK fits \in BOOLEAN, good \in BOOLEAN :
                  \/ UNCHANGED sessionVars
                  \/ EvaluateRefused(fits, call.frame)
                  \/ Evaluate(fits, call.frame, good)
        BY Zenon DEF EvaluateAfterWait
      <3> QED BY DEF EvaluateRefused, Evaluate, sessionVars
    <2> QED BY <2>1 DEF EvaluateAfterWait, imageVars
  <1>8. /\ session.backend \in open \union {NoInstance} /\ bridge.size # 0
    BY <1>0 DEF EvaluateAfterWait, Returns, ArgumentInv, OwnedInv, OneBackendOpen
  <1>9. /\ r \in Nat /\ r = bridge.tick + 1 /\ n \in Nat /\ m \in Nat /\ 1 \in 1..n
        /\ \A i \in 1..n : (i = 1 \/ i = 2 \/ i = 3 \/ (i = 4 /\ x > 5 /\ ok) \/ (i = 5 /\ x = 7 /\ ok))
        /\ \A i \in 1..m : i = 1 \/ i = 2 \/ i = 3
        /\ x > 5 => 2 \in 1..m
    <2>1. r \in Nat /\ r = bridge.tick + 1
      BY <1>1
    <2>2. n \in Nat /\ m \in Nat /\ 1 \in 1..n /\ (x > 5 => 2 \in 1..m)
      BY DEF Length11, Length12
    <2>3. \A i \in 1..n : (i = 1 \/ i = 2 \/ i = 3 \/ (i = 4 /\ x > 5 /\ ok) \/ (i = 5 /\ x = 7 /\ ok))
      BY <1>4 DEF Length11
    <2>4. \A i \in 1..m : i = 1 \/ i = 2 \/ i = 3
      BY DEF Length12
    <2> QED BY <2>1, <2>2, <2>3, <2>4
  <1>10. /\ a[1].op = "copyIn" /\ a[1].v = r /\ a[2].op = "signal" /\ a[3].op = "wait"
         /\ a[4].op = "copyOut" /\ a[4].v = r /\ a[5].op = "signal"
         /\ b[1].op = "wait" /\ b[2] = list /\ list.op = "list" /\ b[3].op = "signal"
    BY <1>6, <1>9, BatchFacts
  <1> HIDE DEF r, list, n, m, a, b
  <1>11. /\ \A k \in 1..Len(q11) : q11[k].v \in Nat /\ (q11[k].op = "copyIn" => q11[k].v < r)
         /\ \A k \in 1..Len(q12) : q12[k].v \in Nat /\ (q12[k].op = "list" => q12[k].v < r)
         /\ inputs < r /\ outputs < r
    <2>1. ASSUME NEW k \in 1..Len(q11) PROVE q11[k].v \in Nat /\ (q11[k].op = "copyIn" => q11[k].v < r)
      <3>1. q11[k] \in Command
        BY <1>1, QueueFacts
      <3>2. q11[k].v \in Nat /\ (q11[k].op = "copyIn" => Bound(q11[k]) = q11[k].v)
        BY <3>1, CommandFacts
      <3> QED BY <1>0, <1>1, <1>9, <3>2, SMTT(30) DEF TickInv
    <2>2. ASSUME NEW k \in 1..Len(q12) PROVE q12[k].v \in Nat /\ (q12[k].op = "list" => q12[k].v < r)
      <3>1. q12[k] \in Command
        BY <1>1, QueueFacts
      <3>2. q12[k].v \in Nat /\ (q12[k].op = "list" => Bound(q12[k]) = q12[k].v + 1)
        BY <3>1, CommandFacts
      <3> QED BY <1>0, <1>1, <1>9, <3>2 DEF TickInv
    <2>3. inputs < r /\ outputs < r
      BY <1>0, <1>1, <1>9 DEF TickInv
    <2> QED BY <2>1, <2>2, <2>3
  <1>12. Rising(q11', "copyIn")
    <2>1. \A i \in 1..n : a[i].op = "copyIn" => i = 1 /\ a[i].v = r
      BY <1>6, <1>9, <1>10
    <2>2. \A k \in 1..Len(q11), i \in 1..n : q11[k].op = "copyIn" /\ a[i].op = "copyIn" => q11[k].v < a[i].v
      BY <1>11, <2>1
    <2>3. \A j, i \in 1..n : j < i => ~(a[j].op = "copyIn" /\ a[i].op = "copyIn")
      BY <2>1
    <2>4. Rising(q11, "copyIn")
      BY DEF ImageInv
    <2> QED BY <1>1, <1>5, <1>9, <2>2, <2>3, <2>4, ExtendedRising
  <1>13. Rising(q12', "list")
    <2>1. \A i \in 1..m : b[i].op = "list" => i = 2 /\ b[i].v = r
      BY <1>6, <1>9, <1>10
    <2>2. \A k \in 1..Len(q12), i \in 1..m : q12[k].op = "list" /\ b[i].op = "list" => q12[k].v < b[i].v
      BY <1>11, <2>1
    <2>3. \A j, i \in 1..m : j < i => ~(b[j].op = "list" /\ b[i].op = "list")
      BY <2>1
    <2>4. Rising(q12, "list")
      BY DEF ImageInv
    <2> QED BY <1>1, <1>5, <1>9, <2>2, <2>3, <2>4, ExtendedRising
  <1>14. /\ \A k \in 1..Len(q11') : (k \in 1..Len(q11) /\ q11'[k] = q11[k]) \/ \E i \in 1..n : q11'[k] = a[i]
         /\ \A k \in 1..Len(q12') : (k \in 1..Len(q12) /\ q12'[k] = q12[k]) \/ \E i \in 1..m : q12'[k] = b[i]
    BY <1>1, <1>5, <1>9, ExtendedCommand
  <1>15. /\ \A v : Has(q11, "copyIn", v) => Has(q11', "copyIn", v)
         /\ \A v : HasGood(q12, v) => HasGood(q12', v)
         /\ Has(q11', "copyIn", r)
         /\ x > 5 /\ ok => HasGood(q12', r)
    <2>1. \A v : Has(q11, "copyIn", v) => Has(q11', "copyIn", v)
      BY <1>1, <1>5, <1>9, ExtendedHas
    <2>2. \A v : HasGood(q12, v) => HasGood(q12', v)
      BY <1>1, <1>5, <1>9, ExtendedHas
    <2>3. Has(q11', "copyIn", r)
      <3>1. Has(q11', a[1].op, a[1].v)
        BY <1>1, <1>5, <1>9, ExtendedHas
      <3> QED BY <1>10, <3>1
    <2>4. ASSUME x > 5, ok PROVE HasGood(q12', r)
      <3>1. 2 \in 1..m /\ b[2].op = "list" /\ b[2].ok
        BY <1>6, <1>9, <1>10, <2>4
      <3>2. HasGood(q12', b[2].v)
        BY <1>1, <1>5, <1>9, <3>1, ExtendedHas
      <3> QED BY <1>6, <1>10, <3>2
    <2> QED BY <2>1, <2>2, <2>3, <2>4
  <1>16. ASSUME NEW k \in 1..Len(q12'), q12'[k].op = "list"
         PROVE  /\ outputs < q12'[k].v
                /\ inputs = q12'[k].v \/ Has(q11', "copyIn", q12'[k].v)
                /\ q12'[k].instance \in open \union {NoInstance}
                /\ bridge.size # 0 /\ q12'[k].surfaces = bridge.surfaces
    <2>1. CASE k \in 1..Len(q12) /\ q12'[k] = q12[k]
      BY <1>15, <1>16, <2>1 DEF ImageInv, LiveInv
    <2>2. ASSUME NEW i \in 1..m, q12'[k] = b[i]
          PROVE  /\ outputs < q12'[k].v
                 /\ inputs = q12'[k].v \/ Has(q11', "copyIn", q12'[k].v)
                 /\ q12'[k].instance \in open \union {NoInstance}
                 /\ bridge.size # 0 /\ q12'[k].surfaces = bridge.surfaces
      <3>1. q12'[k] = list
        BY <1>9, <1>10, <1>16, <2>2
      <3> QED BY <1>6, <1>8, <1>11, <1>15, <3>1
    <2> QED BY <1>14, <2>1, <2>2
  <1>17. ASSUME NEW k \in 1..Len(q11')
         PROVE  /\ q11'[k].op = "copyIn" => inputs < q11'[k].v
                /\ q11'[k].op = "copyOut" => outputs = q11'[k].v \/ HasGood(q12', q11'[k].v)
    <2>1. CASE k \in 1..Len(q11) /\ q11'[k] = q11[k]
      BY <1>15, <2>1 DEF ImageInv
    <2>2. ASSUME NEW i \in 1..n, q11'[k] = a[i]
          PROVE  /\ q11'[k].op = "copyIn" => inputs < q11'[k].v
                 /\ q11'[k].op = "copyOut" => outputs = q11'[k].v \/ HasGood(q12', q11'[k].v)
      BY <1>9, <1>10, <1>11, <1>15, <2>2
    <2> QED BY <1>14, <2>1, <2>2
  <1>18. ImageInv'
    BY <1>7, <1>12, <1>13, <1>16, <1>17 DEF ImageInv
  <1>19. LiveInv'
    BY <1>5, <1>7, <1>16 DEF LiveInv
  <1> QED BY <1>18, <1>19

\* D3D11 writes the inputs only when the list that read them before is over, and copies out what
\* the frame's own list wrote.
LEMMA Execute11Safe ==
  ASSUME MainInv, ImageInv, LiveInv, Execute11
  PROVE  ImageInv' /\ LiveInv'
  <1>0. /\ q11 \in Seq(Command) /\ q12 \in Seq(Command) /\ fence \in Nat /\ inputs \in Nat /\ outputs \in Nat
        /\ RestTypes /\ FenceInv
    BY CoreFacts DEF MainInv, CoreInv
  <1>1. q11 # <<>>
    BY <1>0 DEF Execute11, RestTypes
  <1>2. /\ Head(q11) = q11[1] /\ q11[1] \in Command /\ 1 \in 1..Len(q11)
        /\ \A k \in 1..Len(Tail(q11)) : k + 1 \in 1..Len(q11) /\ Tail(q11)[k] = q11[k + 1]
    BY <1>0, <1>1, TailOf
  <1>3. q11' = Tail(q11) /\ UNCHANGED <<q12, open, bridge>>
    BY DEF Execute11, sessionVars, cpuVars
  <1>4. /\ fence < Bound(q11[1])
        /\ q11[1].op # "wait" => fence >= Need(q11[1])
    <2>1. \A j \in 1..Len(q11) : ~(j < 1)
      BY <1>0
    <2> QED BY <1>0, <1>2, <2>1 DEF FenceInv, Fenced, Bounded, Gated
  <1>5. /\ q11[1].v \in Nat
        /\ q11[1].op = "copyIn" => Bound(q11[1]) = q11[1].v /\ Need(q11[1]) = q11[1].v - 1
        /\ q11[1].op = "copyOut" => Bound(q11[1]) = q11[1].v + 2 /\ Need(q11[1]) = q11[1].v + 1
    BY <1>2, CommandFacts
  <1>6. \A k \in 1..Len(q12) : q12[k].op = "list" =>
            /\ q12[k].v \in Nat /\ fence < q12[k].v + 1 /\ Bound(q11[1]) # q12[k].v + 1
    <2> SUFFICES ASSUME NEW k \in 1..Len(q12), q12[k].op = "list"
                 PROVE  q12[k].v \in Nat /\ fence < q12[k].v + 1 /\ Bound(q11[1]) # q12[k].v + 1
      OBVIOUS
    <2>1. q12[k].v \in Nat /\ Bound(q12[k]) = q12[k].v + 1
      BY <1>0, QueueFacts, CommandFacts
    <2>2. fence < Bound(q12[k]) /\ Bound(q11[1]) # Bound(q12[k])
      BY <1>0, <1>2 DEF FenceInv, Fenced, Bounded, Apart
    <2> QED BY <2>1, <2>2
  <1>7. /\ Rising(q11', "copyIn") /\ Rising(q12', "list")
        /\ \A v : Has(q11, "copyIn", v) => Has(q11', "copyIn", v) \/ (q11[1].op = "copyIn" /\ q11[1].v = v)
    BY <1>0, <1>1, <1>3, PoppedOrder DEF ImageInv
  <1>8. LiveInv'
    BY <1>3 DEF LiveInv
  <1>9. CASE q11[1].op = "copyIn" /\ inputs' = q11[1].v /\ UNCHANGED <<outputs, delivered>>
    <2>1. \A k \in 1..Len(q12) : q12[k].op = "list" => inputs' = q12[k].v \/ Has(q11', "copyIn", q12[k].v)
      <3> SUFFICES ASSUME NEW k \in 1..Len(q12), q12[k].op = "list"
                   PROVE  inputs' = q12[k].v \/ Has(q11', "copyIn", q12[k].v)
        OBVIOUS
      <3>1. CASE inputs = q12[k].v
        <4>1. inputs < q11[1].v
          BY <1>2, <1>9 DEF ImageInv
        <4>2. fence >= q11[1].v - 1 /\ fence < q12[k].v + 1 /\ q11[1].v # q12[k].v + 1
          BY <1>4, <1>5, <1>6, <1>9
        <4> QED BY <1>0, <1>5, <1>6, <3>1, <4>1, <4>2
      <3>2. CASE Has(q11, "copyIn", q12[k].v)
        BY <1>7, <1>9, <3>2
      <3> QED BY <3>1, <3>2 DEF ImageInv
    <2>2. \A k \in 1..Len(q11') : q11'[k].op = "copyIn" => inputs' < q11'[k].v
      BY <1>2, <1>3, <1>9 DEF ImageInv, Rising
    <2> QED BY <1>2, <1>3, <1>7, <1>8, <1>9, <2>1, <2>2 DEF ImageInv
  <1>10. CASE q11[1].op = "copyOut" /\ delivered' = [n |-> q11[1].v, image |-> outputs] /\ UNCHANGED <<inputs, outputs>>
    <2>1. outputs = q11[1].v
      <3>1. ASSUME NEW k \in 1..Len(q12), q12[k].op = "list", q12[k].v = q11[1].v PROVE FALSE
        BY <1>0, <1>4, <1>5, <1>6, <1>10, <3>1
      <3>2. ~HasGood(q12, q11[1].v)
        BY <3>1 DEF HasGood
      <3> QED BY <1>2, <1>10, <3>2 DEF ImageInv
    <2>2. delivered'.n = delivered'.image
      BY <1>10, <2>1
    <2> QED BY <1>2, <1>3, <1>7, <1>8, <1>10, <2>2 DEF ImageInv
  <1>11. CASE q11[1].op \in {"signal", "wait"} /\ UNCHANGED <<inputs, outputs, delivered>>
    BY <1>2, <1>3, <1>7, <1>8, <1>11 DEF ImageInv
  <1> QED BY <1>2, <1>9, <1>10, <1>11 DEF Execute11, imageVars

\* D3D12 runs what is no list, or begins one.
LEMMA Execute12Safe ==
  ASSUME MainInv, ImageInv, LiveInv, Execute12
  PROVE  ImageInv' /\ LiveInv'
  <1>0. q12 \in Seq(Command) /\ q12 # <<>>
    BY CoreFacts DEF MainInv, Execute12
  <1>1. /\ Head(q12) = q12[1]
        /\ \A k \in 1..Len(Tail(q12)) : k + 1 \in 1..Len(q12) /\ Tail(q12)[k] = q12[k + 1]
    BY <1>0, TailOf
  <1>2. UNCHANGED <<q11, inputs, outputs, delivered, open, bridge>>
    BY DEF Execute12, sessionVars, cpuVars, imageVars
  <1>3. CASE q12' = q12
    BY <1>2, <1>3 DEF ImageInv, LiveInv
  <1>4. CASE q12' = Tail(q12) /\ q12[1].op # "list"
    <2>1. Rising(q12', "list") /\ \A v : HasGood(q12, v) => HasGood(q12', v)
      BY <1>0, <1>4, PoppedOrder DEF ImageInv
    <2> QED BY <1>1, <1>2, <1>4, <2>1 DEF ImageInv, LiveInv
  <1> QED BY <1>1, <1>3, <1>4 DEF Execute12

\* A list ends: its output replaces one that was copied out before.
LEMMA FinishSafe ==
  ASSUME MainInv, ImageInv, LiveInv, FinishList
  PROVE  ImageInv' /\ LiveInv'
  <1>0. /\ q11 \in Seq(Command) /\ q12 \in Seq(Command) /\ fence \in Nat /\ outputs \in Nat /\ FenceInv
        /\ q12 # <<>> /\ q12[1].op = "list"
    BY CoreFacts DEF MainInv, CoreInv, QueueTypes, FinishList
  <1>1. /\ Head(q12) = q12[1] /\ q12[1] \in Command /\ 1 \in 1..Len(q12) /\ Len(q12) \in Nat
        /\ \A k \in 1..Len(Tail(q12)) : k + 1 \in 1..Len(q12) /\ Tail(q12)[k] = q12[k + 1]
    BY <1>0, TailOf
  <1>2. UNCHANGED <<q11, inputs, delivered, open, bridge>> /\ q12' = Tail(q12)
        /\ outputs' = IF q12[1].ok THEN q12[1].v ELSE outputs
    BY <1>1 DEF FinishList, sessionVars, cpuVars
  <1>3. q12[1].v \in Nat /\ Bound(q12[1]) = q12[1].v + 1 /\ Need(q12[1]) = q12[1].v
    BY <1>0, <1>1, CommandFacts
  <1>4. fence >= q12[1].v /\ outputs < q12[1].v
    <2>1. \A j \in 1..Len(q12) : ~(j < 1)
      BY <1>1
    <2>2. fence >= Need(q12[1])
      BY <1>0, <1>1, <2>1 DEF FenceInv, Fenced, Gated
    <2> QED BY <1>0, <1>1, <1>3, <2>2 DEF ImageInv
  <1>5. /\ Rising(q12', "list")
        /\ \A v : HasGood(q12, v) => HasGood(q12', v) \/ (q12[1].op = "list" /\ q12[1].v = v /\ q12[1].ok)
    BY <1>0, <1>2, PoppedOrder DEF ImageInv
  <1>6. ASSUME NEW k \in 1..Len(q12'), q12'[k].op = "list"
        PROVE  outputs' < q12'[k].v /\ (inputs = q12'[k].v \/ Has(q11, "copyIn", q12'[k].v))
    <2>1. k + 1 \in 1..Len(q12) /\ q12'[k] = q12[k + 1] /\ 1 < k + 1
      BY <1>1, <1>2
    <2>2. q12[1].v < q12[k + 1].v
      BY <1>0, <1>1, <1>6, <2>1 DEF ImageInv, Rising
    <2> QED BY <1>2, <1>6, <2>1, <2>2 DEF ImageInv
  <1>7. ASSUME NEW k \in 1..Len(q11), q11[k].op = "copyOut"
        PROVE  outputs' = q11[k].v \/ HasGood(q12', q11[k].v)
    <2>1. CASE HasGood(q12, q11[k].v)
      BY <1>2, <1>5, <2>1
    <2>2. CASE outputs = q11[k].v /\ q12[1].ok
      <3>1. q11[k].v \in Nat /\ Bound(q11[k]) = q11[k].v + 2
        BY <1>0, <1>7, QueueFacts, CommandFacts
      <3>2. fence < Bound(q11[k]) /\ Bound(q11[k]) # Bound(q12[1])
        BY <1>0, <1>1 DEF FenceInv, Fenced, Bounded, Apart
      <3> QED BY <1>0, <1>3, <1>4, <2>2, <3>1, <3>2
    <2>3. CASE outputs = q11[k].v /\ ~q12[1].ok
      BY <1>2, <2>3
    <2> QED BY <1>7, <2>1, <2>2, <2>3 DEF ImageInv
  <1>8. ImageInv'
    BY <1>2, <1>5, <1>6, <1>7 DEF ImageInv
  <1>9. LiveInv'
    BY <1>1, <1>2 DEF LiveInv
  <1> QED BY <1>8, <1>9

\* A bridge that was just opened has nothing queued.
LEMMA SafeStart == Init => SafeInv
  <1> SUFFICES ASSUME Init PROVE SafeInv
    OBVIOUS
  <1>1. Len(q11) = 0 /\ Len(q12) = 0 /\ delivered.n = delivered.image
    BY DEF Init
  <1>2. ImageInv /\ LiveInv
    BY <1>1 DEF ImageInv, LiveInv, Rising
  <1>3. EventInv
    BY DEF Init, EventInv
  <1> QED BY <1>2, <1>3, MainStart DEF SafeInv

\* Every step keeps it, as long as a queue that made a wait time out stays where it is.
LEMMA SafeStep ==
  ASSUME ~Recovers, SafeInv, [Next]_vars
  PROVE  SafeInv'
  <1>0. /\ MainInv /\ CoreInv /\ ImageInv /\ LiveInv /\ EventInv
        /\ event \in EventRecord /\ q11 \in Seq(Command) /\ q12 \in Seq(Command) /\ fence \in Nat
        /\ MainInv' /\ fence <= fence'
        /\ delivered.n = delivered.image
    BY CoreFacts, MainStep DEF SafeInv, MainInv, ImageInv
  <1>a. ASSUME NEW op, NEW value \in Values, NEW arguments \in CallRecord, Start(op, value, arguments)
        PROVE  SafeInv'
    <2>1. EventInv'
      BY <1>0, <1>a, StartEvent
    <2>2. UNCHANGED <<q11, q12, inputs, outputs, delivered, open>>
      BY <1>a DEF Start, sessionVars, imageVars
    <2>3. UNCHANGED <<bridge.size, bridge.surfaces>>
      BY <1>0, <1>a, CoreFacts DEF Start, FlushFor, BridgeRecord
    <2>4. ImageInv' /\ LiveInv'
      BY <1>0, <2>2, <2>3 DEF ImageInv, LiveInv
    <2> QED BY <1>0, <2>1, <2>4 DEF SafeInv
  <1>1. CASE CallSelect \/ CallAutoExposure \/ CallEvaluate \/ CallDestroy
    <2>0. bridge \in BridgeRecord /\ bridge.tick \in Values /\ Idle \in CallRecord
      BY <1>0, CoreFacts, IdleType
    <2>1. CASE CallSelect
      <3> PICK choice \in Choices \union {NoChoice} : Start("select", bridge.tick, [Idle EXCEPT !.choice = choice])
        BY <2>1 DEF CallSelect
      <3> DEFINE arguments == [Idle EXCEPT !.choice = choice]
      <3>1. arguments \in CallRecord /\ Start("select", bridge.tick, arguments)
        BY <2>0 DEF CallRecord
      <3> HIDE DEF arguments
      <3> QED BY <1>a, <2>0, <3>1
    <2>2. CASE CallAutoExposure
      <3> DEFINE arguments == [Idle EXCEPT !.exposure = ~session.exposure]
      <3>0. (~session.exposure) \in BOOLEAN
        OBVIOUS
      <3>1. arguments \in CallRecord
        BY <2>0, <3>0 DEF CallRecord
      <3>2. Start("exposure", bridge.tick, arguments)
        BY <2>2 DEF CallAutoExposure
      <3> HIDE DEF arguments
      <3> QED BY <1>a, <2>0, <3>1, <3>2
    <2>3. CASE CallEvaluate
      <3> PICK frame \in [view : Views, frame : 1 .. MaxFrame, generation : 1 .. MaxGeneration] :
                  \/ Start("evaluate", bridge.complete[bridge.next], [Idle EXCEPT !.frame = frame])
                  \/ Start("resize", bridge.tick, [Idle EXCEPT !.frame = frame])
        BY <2>3 DEF CallEvaluate
      <3> DEFINE arguments == [Idle EXCEPT !.frame = frame]
      <3>1. frame \in Frame
        BY BridgeAssumption DEF Frame
      <3>2. arguments \in CallRecord
        BY <2>0, <3>1 DEF CallRecord
      <3>3. bridge.complete[bridge.next] \in Values
        BY <2>0 DEF BridgeRecord
      <3>4. \/ Start("evaluate", bridge.complete[bridge.next], arguments)
            \/ Start("resize", bridge.tick, arguments)
        OBVIOUS
      <3> HIDE DEF arguments
      <3> QED BY <1>a, <2>0, <3>2, <3>3, <3>4
    <2>4. CASE CallDestroy
      <3>1. Start("destroy", bridge.tick, Idle)
        BY <2>4 DEF CallDestroy, DestroyAfter
      <3> QED BY <1>a, <2>0, <3>1
    <2> QED BY <1>1, <2>1, <2>2, <2>3, <2>4
  <1>2. CASE SelectAfterWait \/ AutoExposureAfterWait \/ DestroyAfterWait \/ Resize
    <2> PICK op \in {"select", "exposure", "resize", "destroy"} : Returns(op)
      BY <1>2 DEF SelectAfterWait, AutoExposureAfterWait, DestroyAfterWait, Resize
    <2>1. (\A k \in 1..Len(q11) : q11[k].op = "wait") /\ (\A k \in 1..Len(q12) : q12[k].op = "wait")
      BY <1>0, WaitedOut
    <2>2. UNCHANGED <<q11, q12, delivered, hung>>
      BY <1>2 DEF SelectAfterWait, AutoExposureAfterWait, DestroyAfterWait, Resize, gpuVars, imageVars
    <2>3. call'.waits = FALSE
      <3>1. call' = Idle \/ call' = [call EXCEPT !.op = "evaluate", !.waits = FALSE]
        BY <1>2 DEF SelectAfterWait, AutoExposureAfterWait, DestroyAfterWait, Resize
      <3>2. call \in CallRecord
        BY <1>0, CoreFacts
      <3>3. Idle.waits = FALSE
        BY DEF Idle
      <3>4. [call EXCEPT !.op = "evaluate", !.waits = FALSE].waits = FALSE
        BY <3>2 DEF CallRecord
      <3> QED BY <3>1, <3>3, <3>4, Zenon
    <2> QED BY <1>0, <2>1, <2>2, <2>3, NothingQueued, ReturnEvent DEF SafeInv
  <1>3. CASE EvaluateAfterWait
    <2>1. Returns("evaluate") /\ call'.waits = FALSE /\ hung' = hung
      BY <1>3 DEF EvaluateAfterWait, Idle
    <2> QED BY <1>0, <1>3, <2>1, EvaluateSafe, ReturnEvent DEF SafeInv
  <1>4. CASE TimeOut
    <2>1. UNCHANGED <<q11, q12, inputs, outputs, delivered, open, event>> /\ hung' = TRUE /\ ~event.set
      BY <1>4 DEF TimeOut, sessionVars, gpuVars, imageVars
    <2>2. UNCHANGED <<bridge.size, bridge.surfaces>>
      BY <1>0, <1>4, CoreFacts DEF TimeOut, BridgeRecord
    <2>3. ImageInv' /\ LiveInv' /\ EventInv'
      BY <1>0, <2>1, <2>2 DEF ImageInv, LiveInv, EventInv
    <2> QED BY <1>0, <2>3 DEF SafeInv
  <1>5. CASE GameFlush \/ UNCHANGED vars
    <2>1. UNCHANGED <<q11, q12, inputs, outputs, delivered, open, bridge, call, event, fence, hung>>
      BY <1>5 DEF GameFlush, vars, sessionVars, cpuVars, gpuVars, imageVars
    <2>2. ImageInv' /\ LiveInv' /\ EventInv'
      BY <1>0, <2>1 DEF ImageInv, LiveInv, EventInv
    <2> QED BY <1>0, <2>2 DEF SafeInv
  <1>6. ASSUME ~hung, UNCHANGED <<call, hung>>, UNCHANGED <<event, fence>> \/ \E v \in Nat : SetFence(v)
        PROVE  EventInv'
    <2>1. CASE UNCHANGED <<event, fence>>
      BY <1>0, <1>6, <2>1 DEF EventInv
    <2>2. ASSUME NEW v \in Nat, SetFence(v) PROVE EventInv'
      <3>1. fence <= v
        BY <1>0, <2>2 DEF SetFence
      <3> QED BY <1>0, <1>6, <2>2, <3>1, SignalEvent
    <2> QED BY <1>6, <2>1, <2>2
  <1>7. CASE Execute11
    <2>1. Head(q11) \in Command
      <3>1. q11 # <<>>
        BY <1>0, <1>7 DEF Execute11, CoreInv, RestTypes
      <3> QED BY <1>0, <3>1, TailOf
    <2>2. ~hung /\ UNCHANGED <<call, hung>> /\ (UNCHANGED <<event, fence>> \/ \E v \in Nat : SetFence(v))
      BY <1>7, <2>1, CommandFacts DEF Execute11, Runs, cpuVars
    <2> QED BY <1>0, <1>6, <1>7, <2>2, Execute11Safe DEF SafeInv
  <1>8. CASE Execute12
    <2>1. Head(q12) \in Command
      BY <1>0, <1>8, TailOf DEF Execute12
    <2>2. ~hung /\ UNCHANGED <<call, hung>> /\ (UNCHANGED <<event, fence>> \/ \E v \in Nat : SetFence(v))
      BY <1>8, <2>1, CommandFacts DEF Execute12, Runs, cpuVars
    <2> QED BY <1>0, <1>6, <1>8, <2>2, Execute12Safe DEF SafeInv
  <1>9. CASE FinishList
    <2>1. ~hung /\ UNCHANGED <<call, hung, event, fence>>
      BY <1>9 DEF FinishList, Runs, cpuVars
    <2> QED BY <1>0, <1>6, <1>9, <2>1, FinishSafe DEF SafeInv
  <1> QED BY <1>1, <1>2, <1>3, <1>4, <1>5, <1>7, <1>8, <1>9 DEF Next, CpuReturns

\* A running list has the inputs of its own frame.
LEMMA RunsOnItsOwn ==
  ASSUME SafeInv
  PROVE  OwnImages
  <1>1. delivered.n = delivered.image
    BY DEF SafeInv, ImageInv
  <1>2. ASSUME running PROVE inputs = Head(q12).v
    <2>0. /\ q11 \in Seq(Command) /\ q12 \in Seq(Command) /\ q12 # <<>> /\ q12[1].op = "list" /\ fence \in Nat
          /\ FenceInv /\ ImageInv
      BY <1>2, CoreFacts DEF SafeInv, MainInv, CoreInv, QueueTypes
    <2>1. Head(q12) = q12[1] /\ q12[1] \in Command /\ 1 \in 1..Len(q12)
      BY <2>0, TailOf
    <2>2. q12[1].v \in Nat /\ Need(q12[1]) = q12[1].v
      BY <2>0, <2>1, CommandFacts
    <2>3. fence >= q12[1].v
      <3>1. \A j \in 1..Len(q12) : ~(j < 1)
        BY <2>0
      <3> QED BY <2>0, <2>1, <2>2, <3>1 DEF FenceInv, Fenced, Gated
    <2>4. ASSUME NEW k \in 1..Len(q11), q11[k].op = "copyIn", q11[k].v = q12[1].v PROVE FALSE
      <3>1. Bound(q11[k]) = q12[1].v
        BY <2>0, <2>4, QueueFacts, CommandFacts
      <3> QED BY <2>0, <2>2, <2>3, <3>1 DEF FenceInv, Fenced, Bounded
    <2> QED BY <2>0, <2>1, <2>4 DEF ImageInv, Has
  <1> QED BY <1>1, <1>2 DEF OwnImages

\* The game gets the reconstruction of its own frame from that frame's inputs, whichever step of an
\* evaluation fails, as long as a queue that made a wait time out does not go on.
THEOREM ImagesAreOwn ==
  ASSUME ~Recovers
  PROVE  Spec => []OwnImages
  <1>1. SafeInv /\ [Next]_vars => SafeInv'
    BY SafeStep
  <1>2. SafeInv => OwnImages
    BY RunsOnItsOwn
  <1> QED BY <1>1, <1>2, SafeStart, PTL DEF Spec

\* No queued or running list uses a closed backend or surfaces that are gone, under the same
\* condition, which is necessary: a queue that goes on after a time-out refutes it.
THEOREM NothingFreed ==
  ASSUME ~Recovers
  PROVE  Spec => []NothingFreedInUse
  <1>1. SafeInv /\ [Next]_vars => SafeInv'
    BY SafeStep
  <1>2. SafeInv => NothingFreedInUse
    <2> SUFFICES ASSUME SafeInv, NEW list \in Lists
                 PROVE  list.instance \in open \union {NoInstance} /\ bridge.size # 0 /\ list.surfaces = bridge.surfaces
      BY DEF NothingFreedInUse
    <2>1. q12 \in Seq(Command) /\ LiveInv
      BY CoreFacts DEF SafeInv, MainInv
    <2>2. PICK k \in 1..Len(q12) : list = q12[k]
      BY <2>1 DEF Lists
    <2>3. list.op = "list"
      BY DEF Lists
    <2> QED BY <2>1, <2>2, <2>3 DEF LiveInv
  <1> QED BY <1>1, <1>2, SafeStart, PTL DEF Spec
================================================================================
