------------------------ MODULE ClientProcess_proofs ------------------------
(* The client's process, for any number of messages: the terminal gets the    *)
(* session's output whole and its own mode back, and a client that is no      *)
(* longer the executor is silent.                                             *)
EXTENDS ClientProcess, NaturalsInduction, WellFoundedInduction, SequenceTheorems, TLAPS

-----------------------------------------------------------------------------
(* Induction, and what a fold over a sequence computes.                       *)

LEMMA Induction ==
  ASSUME NEW S, 0 \in S, \A m \in S : m + 1 \in S
  PROVE  Nat \subseteq S
  <1> SUFFICES ASSUME NEW n \in Nat \ S PROVE FALSE
    OBVIOUS
  <1>1. PICK m \in Nat \ S : \A k \in Nat \ S : ~(<<k, m>> \in OpToRel(<, Nat))
    BY NatLessThanWellFounded, WFMin
  <1>2. m - 1 \in Nat /\ m - 1 < m /\ (m - 1) + 1 = m
    <2>1. m \in Nat /\ m # 0
      OBVIOUS
    <2> QED BY <2>1
  <1>3. m - 1 \in S
    BY <1>1, <1>2 DEF OpToRel
  <1> QED BY <1>2, <1>3

(* Every sequence is in a set that has the empty one and is closed under      *)
(* Append.                                                                    *)
LEMMA SequenceInduction ==
  ASSUME NEW T, NEW S, <<>> \in S, \A s \in S : \A m \in T : Append(s, m) \in S
  PROVE  Seq(T) \subseteq S
  <1> DEFINE N == {n \in Nat : \A s \in Seq(T) : Len(s) = n => s \in S}
  <1>1. 0 \in N
    <2>1. ASSUME NEW s \in Seq(T), Len(s) = 0
          PROVE  s = <<>>
      BY <2>1, EmptySeq
    <2> QED BY <2>1
  <1>2. ASSUME NEW n \in N
        PROVE  n + 1 \in N
    <2>1. ASSUME NEW s \in Seq(T), Len(s) = n + 1
          PROVE  s \in S
      <3>1. n \in Nat /\ s # <<>>
        BY <2>1
      <3> DEFINE t == SubSeq(s, 1, n)
      <3>2. t \in Seq(T) /\ Len(t) = n /\ s[n + 1] \in T /\ s = Append(t, s[n + 1])
        BY <2>1, <3>1
      <3> HIDE DEF t
      <3>3. t \in S
        BY <3>2
      <3> QED BY <3>2, <3>3
    <2> QED BY <2>1
  <1> HIDE DEF N
  <1>3. Nat \subseteq N
    BY <1>1, <1>2, Induction
  <1>4. ASSUME NEW s \in Seq(T)
        PROVE  s \in S
    <2>1. Len(s) \in N
      BY <1>3
    <2> QED BY <2>1 DEF N
  <1> QED BY <1>4

(* The greatest element of a set of numbers up to n.                          *)
LEMMA MaxIsGreatest ==
  ASSUME NEW n \in Nat, NEW s \in SUBSET (1..n), s # {}
  PROVE  Max(s) \in s /\ \A y \in s : y <= Max(s)
  <1> DEFINE D == {n - x : x \in s}
             Greatest(x) == \A y \in s : x >= y
  <1>1. D \subseteq Nat /\ D # {}
    OBVIOUS
  <1>2. PICK d \in D : \A m \in D : ~(<<m, d>> \in OpToRel(<, Nat))
    BY <1>1, NatLessThanWellFounded, WFMin
  <1>3. PICK x \in s : d = n - x
    BY <1>2
  <1>4. \A y \in s : y \in 1..n /\ ~(n - y < n - x)
    BY <1>1, <1>2, <1>3 DEF OpToRel
  <1>5. Greatest(x)
    BY <1>4
  <1>6. Max(s) = CHOOSE z \in s : Greatest(z)
    BY DEF Max
  <1> HIDE DEF Greatest
  <1>7. Max(s) \in s /\ Greatest(Max(s))
    BY <1>3, <1>5, <1>6
  <1> QED BY <1>7, <1>4 DEF Greatest

(* The least element of a set of numbers.                                     *)
LEMMA MinIsLeast ==
  ASSUME NEW s \in SUBSET Nat, s # {}
  PROVE  Min(s) \in s /\ \A y \in s : Min(s) <= y
  <1> DEFINE Least(x) == \A y \in s : x <= y
  <1>1. PICK x \in s : \A m \in s : ~(<<m, x>> \in OpToRel(<, Nat))
    BY NatLessThanWellFounded, WFMin
  <1>2. Least(x)
    <2>1. \A y \in s : x \in Nat /\ y \in Nat /\ ~(y < x)
      BY <1>1 DEF OpToRel
    <2> QED BY <2>1
  <1>3. Min(s) = CHOOSE z \in s : Least(z)
    BY DEF Min
  <1> HIDE DEF Least
  <1>4. Min(s) \in s /\ Least(Min(s))
    BY <1>1, <1>2, <1>3
  <1> QED BY <1>4 DEF Least

(* What the terminal shows after one more message.                            *)
Seen(seen, m) == IF m.kind = "out" THEN Append(seen, m.no) ELSE seen

(* FoldLeft recurs over the sets of places in a sequence; f is that recursion *)
(* over the places of ms up to m.                                             *)
Recursion(f, ms, m) ==
  f = [s \in SUBSET (1..m) |->
         IF s = {} THEN <<>> ELSE Seen(f[s \ {Max(s)}], ms[Max(s)])]

LEMMA RecursionExists ==
  ASSUME NEW ms, NEW n \in Nat
  PROVE  \E f : Recursion(f, ms, n)
  <1>1. \E f : Recursion(f, ms, 0)
    <2>1. Recursion([s \in SUBSET (1..0) |-> <<>>], ms, 0)
      BY DEF Recursion
    <2> QED BY <2>1
  <1>2. ASSUME NEW m \in Nat, \E f : Recursion(f, ms, m)
        PROVE  \E f : Recursion(f, ms, m + 1)
    <2>1. PICK f : Recursion(f, ms, m)
      BY <1>2
    <2> DEFINE h == [s \in SUBSET (1..(m + 1)) |->
                       IF m + 1 \in s THEN Seen(f[s \ {m + 1}], ms[m + 1]) ELSE f[s]]
    <2>2. ASSUME NEW s \in SUBSET (1..(m + 1))
          PROVE  h[s] = IF s = {} THEN <<>> ELSE Seen(h[s \ {Max(s)}], ms[Max(s)])
      <3>1. CASE m + 1 \in s
        <4>1. Max(s) = m + 1
          <5>1. m + 1 \in Nat
            OBVIOUS
          <5>2. Max(s) \in s /\ m + 1 <= Max(s)
            BY <3>1, <5>1, MaxIsGreatest
          <5>3. Max(s) \in 1..(m + 1)
            BY <5>2
          <5> QED BY <5>2, <5>3
        <4>2. s \ {m + 1} \in SUBSET (1..(m + 1)) /\ m + 1 \notin s \ {m + 1}
          OBVIOUS
        <4>3. h[s \ {m + 1}] = f[s \ {m + 1}]
          BY <4>2
        <4>4. h[s] = Seen(f[s \ {m + 1}], ms[m + 1])
          BY <3>1
        <4> QED BY <3>1, <4>1, <4>3, <4>4
      <3>2. CASE m + 1 \notin s
        <4>1. s \in SUBSET (1..m)
          BY <3>2
        <4>2. h[s] = f[s]
          BY <3>2
        <4>3. f[s] = IF s = {} THEN <<>> ELSE Seen(f[s \ {Max(s)}], ms[Max(s)])
          BY <2>1, <4>1 DEF Recursion
        <4>4. s # {} => h[s \ {Max(s)}] = f[s \ {Max(s)}]
          BY <3>2
        <4> QED BY <4>2, <4>3, <4>4
      <3> QED BY <3>1, <3>2
    <2>3. h = [s \in SUBSET (1..(m + 1)) |-> h[s]]
      OBVIOUS
    <2> HIDE DEF h
    <2>4. Recursion(h, ms, m + 1)
      BY <2>2, <2>3 DEF Recursion
    <2> QED BY <2>4
  <1> DEFINE S == {m \in Nat : \E f : Recursion(f, ms, m)}
  <1>3. 0 \in S /\ \A m \in S : m + 1 \in S
    BY <1>1, <1>2
  <1> HIDE DEF S
  <1>4. Nat \subseteq S
    BY <1>3, Induction
  <1> QED BY <1>4 DEF S

(* The lines shown along a sequence of messages.                              *)
Along(F, ms) == /\ F[0] = <<>>
                /\ \A k \in 1..Len(ms) : F[k] = Seen(F[k - 1], ms[k])

LEMMA PrintedIsLast ==
  ASSUME NEW ms \in Seq(Message)
  PROVE  \E F : Along(F, ms) /\ Printed(ms) = F[Len(ms)]
  <1> DEFINE n == Len(ms)
             iter == CHOOSE f : f = [s \in SUBSET DOMAIN ms |->
                                       IF s = {} THEN <<>>
                                       ELSE Seen(f[s \ {Max(s)}], ms[Max(s)])]
  <1>1. n \in Nat /\ DOMAIN ms = 1..n
    OBVIOUS
  <1>2. Printed(ms) = iter[DOMAIN ms]
    BY DEF Printed, FoldLeft, MapThenFoldSet, Seen
  <1>3. Recursion(iter, ms, n)
    <2>1. iter = CHOOSE f : Recursion(f, ms, n)
      BY <1>1 DEF Recursion
    <2> HIDE DEF iter
    <2> QED BY <1>1, <2>1, RecursionExists
  <1> DEFINE F == [k \in 0..n |-> iter[1..k]]
  <1>4. F[0] = <<>>
    <2>1. 1..0 = {} /\ {} \in SUBSET (1..n) /\ 0 \in 0..n
      BY <1>1
    <2>2. iter[{}] = <<>>
      BY <1>3, <2>1 DEF Recursion
    <2> QED BY <2>1, <2>2
  <1>5. ASSUME NEW k \in 1..n
        PROVE  F[k] = Seen(F[k - 1], ms[k])
    <2>0. k \in Nat /\ k # 0 /\ k <= n
      BY <1>1
    <2> HIDE DEF n, iter
    <2>1. 1..k \in SUBSET (1..n) /\ 1..k # {} /\ (1..k) \ {k} = 1..(k - 1) /\ k - 1 \in 0..n
      BY <1>1, <2>0
    <2>2. Max(1..k) = k
      <3>0. 1..k \in SUBSET (1..k) /\ k \in 1..k
        BY <2>0
      <3>1. Max(1..k) \in 1..k /\ k <= Max(1..k)
        BY <2>0, <2>1, <3>0, MaxIsGreatest
      <3>2. Max(1..k) \in Nat /\ Max(1..k) <= k
        BY <2>0, <3>1
      <3> QED BY <2>0, <3>1, <3>2
    <2>3. iter[1..k] = Seen(iter[1..(k - 1)], ms[k])
      BY <1>3, <2>1, <2>2 DEF Recursion
    <2> QED BY <2>0, <2>1, <2>3
  <1>6. F[n] = iter[1..n]
    BY <1>1
  <1> HIDE DEF F, iter
  <1> QED BY <1>1, <1>2, <1>4, <1>5, <1>6 DEF Along

LEMMA PrintedEmpty == Printed(<<>>) = <<>>
  <1>1. <<>> \in Seq(Message) /\ Len(<<>>) = 0
    OBVIOUS
  <1> QED BY <1>1, PrintedIsLast DEF Along

LEMMA PrintedAppend ==
  ASSUME NEW ms \in Seq(Message), NEW m \in Message
  PROVE  Printed(Append(ms, m)) = Seen(Printed(ms), m)
  <1> DEFINE n == Len(ms)
             ns == Append(ms, m)
  <1>1. n \in Nat /\ ns \in Seq(Message) /\ Len(ns) = n + 1 /\ ns[n + 1] = m
        /\ \A k \in 1..n : ns[k] = ms[k]
    OBVIOUS
  <1>2. PICK F : Along(F, ms) /\ Printed(ms) = F[n]
    BY PrintedIsLast
  <1>3. PICK G : Along(G, ns) /\ Printed(ns) = G[n + 1]
    BY <1>1, PrintedIsLast
  <1> HIDE DEF n, ns
  <1> DEFINE S == {k \in Nat : k <= n => F[k] = G[k]}
  <1>4. 0 \in S
    BY <1>2, <1>3 DEF Along
  <1>5. ASSUME NEW k \in S
        PROVE  k + 1 \in S
    <2>1. SUFFICES ASSUME k + 1 <= n
                   PROVE  F[k + 1] = G[k + 1]
      OBVIOUS
    <2>2. k \in Nat /\ k + 1 \in 1..n /\ k + 1 \in 1..(n + 1) /\ (k + 1) - 1 = k /\ F[k] = G[k]
      BY <1>1, <2>1
    <2>3. F[k + 1] = Seen(F[k], ms[k + 1])
      BY <1>2, <2>2 DEF Along, n
    <2>4. G[k + 1] = Seen(G[k], ns[k + 1])
      BY <1>1, <1>3, <2>2 DEF Along
    <2> QED BY <1>1, <2>2, <2>3, <2>4
  <1> HIDE DEF S
  <1>6. n \in S
    BY <1>1, <1>4, <1>5, Induction
  <1>7. F[n] = G[n]
    BY <1>1, <1>6 DEF S
  <1>8. n + 1 \in 1..Len(ns) /\ (n + 1) - 1 = n
    BY <1>1
  <1>9. G[n + 1] = Seen(G[n], m)
    BY <1>1, <1>3, <1>8 DEF Along
  <1> QED BY <1>2, <1>3, <1>7, <1>9 DEF ns

LEMMA SeenType ==
  ASSUME NEW T, NEW y \in Seq(T), NEW m \in Message, m.kind = "out" => m.no \in T
  PROVE  Seen(y, m) \in Seq(T)
  <1>1. CASE m.kind = "out"
    BY <1>1 DEF Seen
  <1>2. CASE m.kind # "out"
    BY <1>2 DEF Seen
  <1> QED BY <1>1, <1>2

LEMMA SeenConcat ==
  ASSUME NEW T, NEW x \in Seq(T), NEW y \in Seq(T), NEW m \in Message,
         m.kind = "out" => m.no \in T
  PROVE  Seen(x \o y, m) = x \o Seen(y, m)
  <1>1. CASE m.kind = "out"
    <2> DEFINE e == m.no
    <2>1. e \in T
      BY <1>1
    <2>2. Seen(y, m) = Append(y, e) /\ Seen(x \o y, m) = Append(x \o y, e)
      BY <1>1 DEF Seen
    <2> HIDE DEF e
    <2>3. Append(x \o y, e) = x \o Append(y, e)
      BY <2>1
    <2> QED BY <2>2, <2>3
  <1>2. CASE m.kind # "out"
    BY <1>2 DEF Seen
  <1> QED BY <1>1, <1>2

LEMMA PrintedType ==
  \A ms \in Seq(Message) : Printed(ms) \in Seq(1..MaxOut)
  <1> DEFINE S == {ms \in Seq(Message) : Printed(ms) \in Seq(1..MaxOut)}
  <1>1. <<>> \in S
    <2>1. <<>> \in Seq(Message) /\ <<>> \in Seq(1..MaxOut)
      OBVIOUS
    <2> QED BY <2>1, PrintedEmpty
  <1>2. ASSUME NEW ms \in S, NEW m \in Message
        PROVE  Append(ms, m) \in S
    <2>1. ms \in Seq(Message) /\ Append(ms, m) \in Seq(Message)
      OBVIOUS
    <2>2. Printed(Append(ms, m)) = Seen(Printed(ms), m)
      BY <2>1, PrintedAppend
    <2>3. m.kind = "out" => m.no \in 1..MaxOut
      BY DEF Message
    <2>4. Seen(Printed(ms), m) \in Seq(1..MaxOut)
      BY <2>3, SeenType
    <2> QED BY <2>1, <2>2, <2>4
  <1> HIDE DEF S
  <1>3. Seq(Message) \subseteq S
    BY <1>1, <1>2, SequenceInduction
  <1> QED BY <1>3 DEF S

LEMMA PrintedConcat ==
  ASSUME NEW a \in Seq(Message)
  PROVE  \A b \in Seq(Message) : Printed(a \o b) = Printed(a) \o Printed(b)
  <1> DEFINE S == {b \in Seq(Message) : Printed(a \o b) = Printed(a) \o Printed(b)}
  <1>1. <<>> \in S
    BY PrintedEmpty, PrintedType
  <1>2. ASSUME NEW b \in S, NEW m \in Message
        PROVE  Append(b, m) \in S
    <2>1. a \o b \in Seq(Message) /\ a \o Append(b, m) = Append(a \o b, m)
      OBVIOUS
    <2>2. Printed(a \o Append(b, m)) = Seen(Printed(a \o b), m)
      BY <2>1, PrintedAppend
    <2>3. Printed(Append(b, m)) = Seen(Printed(b), m)
      BY PrintedAppend
    <2>4. Printed(a) \in Seq(1..MaxOut) /\ Printed(b) \in Seq(1..MaxOut)
      BY PrintedType
    <2>5. m.kind = "out" => m.no \in 1..MaxOut
      BY DEF Message
    <2>0. b \in Seq(Message) /\ Append(b, m) \in Seq(Message)
          /\ Printed(a \o b) = Printed(a) \o Printed(b)
      OBVIOUS
    <2> HIDE DEF S
    <2>6. Seen(Printed(a) \o Printed(b), m) = Printed(a) \o Seen(Printed(b), m)
      BY <2>4, <2>5, SeenConcat
    <2> QED BY <2>0, <2>2, <2>3, <2>6 DEF S
  <1> HIDE DEF S
  <1>3. Seq(Message) \subseteq S
    BY <1>1, <1>2, SequenceInduction
  <1> QED BY <1>3 DEF S

Quiet(ms) == \A i \in 1..Len(ms) : ms[i].kind # "out"

LEMMA PrintedQuiet ==
  \A ms \in Seq(Message) : Quiet(ms) => Printed(ms) = <<>>
  <1> DEFINE S == {ms \in Seq(Message) : Quiet(ms) => Printed(ms) = <<>>}
  <1>1. <<>> \in S
    <2>1. <<>> \in Seq(Message)
      OBVIOUS
    <2> QED BY <2>1, PrintedEmpty
  <1>2. ASSUME NEW ms \in S, NEW m \in Message
        PROVE  Append(ms, m) \in S
    <2>0. Append(ms, m) \in Seq(Message)
      OBVIOUS
    <2>1. SUFFICES ASSUME Quiet(Append(ms, m))
                   PROVE  Printed(Append(ms, m)) = <<>>
      BY <2>0
    <2>2. ms \in Seq(Message) /\ Len(Append(ms, m)) = Len(ms) + 1
          /\ Append(ms, m)[Len(ms) + 1] = m
          /\ \A i \in 1..Len(ms) : Append(ms, m)[i] = ms[i]
      OBVIOUS
    <2>3. m.kind # "out" /\ Quiet(ms)
      BY <2>1, <2>2 DEF Quiet
    <2> QED BY <2>2, <2>3, PrintedAppend DEF Seen
  <1> HIDE DEF S
  <1>3. Seq(Message) \subseteq S
    BY <1>1, <1>2, SequenceInduction
  <1> QED BY <1>3 DEF S

(* The first message taken off.                                               *)
LEMMA PrintedHead ==
  ASSUME NEW ms \in Seq(Message), ms # <<>>
  PROVE  Printed(ms) = Seen(<<>>, Head(ms)) \o Printed(Tail(ms))
  <1>1. Head(ms) \in Message /\ Tail(ms) \in Seq(Message)
        /\ <<Head(ms)>> \in Seq(Message) /\ ms = <<Head(ms)>> \o Tail(ms)
    OBVIOUS
  <1>2. Printed(<<Head(ms)>>) = Seen(<<>>, Head(ms))
    <2>1. <<Head(ms)>> = Append(<<>>, Head(ms)) /\ <<>> \in Seq(Message)
      OBVIOUS
    <2> QED BY <1>1, <2>1, PrintedAppend, PrintedEmpty
  <1>3. Printed(<<Head(ms)>> \o Tail(ms)) = Printed(<<Head(ms)>>) \o Printed(Tail(ms))
    BY <1>1, PrintedConcat
  <1> QED BY <1>1, <1>2, <1>3

-----------------------------------------------------------------------------
(* The invariant.                                                             *)

Early == {"opening", "greeting", "preparing", "creating"}
Waiting == {"awaiting", "created", "passing"}
Gone == {"leaving", "closing", "over"}

Has(ms, kind) == \E i \in 1..Len(ms) : ms[i].kind = kind

(* Nothing is printed behind an exit.                                         *)
ExitIsLast(ms) == \A i, j \in 1..Len(ms) :
                    ms[i].kind = "exit" /\ i < j => ms[j].kind # "out"

(* Before the session was asked for there is none, and no output of it.       *)
Unborn ==
    /\ main \in Early => ~session.asked /\ shown = <<>>
    /\ ~session.asked => session.life = "none"
    /\ session.life = "none" => session.outs = 0 /\ Quiet(wire)

(* An exit, kept or on the way, says that the session is over and that its    *)
(* output is all ahead of it.                                                 *)
Exits ==
    /\ Has(pending, "exit") => session.life = "ended" /\ Quiet(wire)
    /\ Has(wire, "exit") => session.life = "ended"
    /\ ExitIsLast(pending) /\ ExitIsLast(wire)

(* While the program waits, the output is on the screen, kept or on the way;  *)
(* after a cut that is so if the exit was kept.                               *)
Whole ==
    /\ main \in Waiting /\ (~cut \/ Has(pending, "exit"))
       => shown \o Printed(pending) \o Printed(wire) = Outs
    /\ cut => wire = <<>>
    /\ main = "passing" => pending = <<>>
    /\ outcome # "none" => main \in Gone
    /\ outcome = "exit" => shown = Outs /\ session.life = "ended"

Back == [raw |-> FALSE, flowing |-> FALSE]

Borrowed ==
    /\ TerminalIsBack
    /\ oneShot => tty = Back
    /\ main = "created" => socket # "closed"
    /\ closer["main"].at # "none" => main \in {"closing", "over"}

Revoked ==
    /\ RevokedIsSilent
    /\ handler.at = "called" /\ machine.told # "active" => "overtaken" \in mishap

-----------------------------------------------------------------------------
(* Types, in the parts the actions change together.                           *)

Mains == {"opening", "greeting", "preparing", "creating", "awaiting", "created",
          "passing", "leaving", "closing", "over"}
Terminal == [raw: BOOLEAN, flowing: BOOLEAN]
Sessions == [asked: BOOLEAN, life: {"none", "runs", "ended"}, told: BOOLEAN, outs: 0..MaxOut]
Machines == [there: BOOLEAN, assigned: BOOLEAN, beats: BOOLEAN, told: Cache \cup {"none"},
             state: {"disconnected", "connected-passive", "assigned-syncing",
                     "assigned-watching"}]
Places == {"none", "called", "starting", "syncing", "reporting", "failing", "done"}
Handlers == [at: Places, stale: BOOLEAN]
Conditions == {"none", "starting", "doomed", "running", "leaked", "stopping", "stopped"}
Watchers == [held: BOOLEAN, is: Conditions]
Stages == {"none", "machine", "socket", "done"}
Calls == [at: Stages, waits: BOOLEAN]

ProgramOK == oneShot \in BOOLEAN /\ cacheOn \in BOOLEAN /\ main \in Mains
             /\ outcome \in {"none", "exit", "error"}
LineOK == socket \in {"open", "closing", "closed"} /\ wire \in Seq(Message) /\ cut \in BOOLEAN
ScreenOK == pending \in Seq(Message) /\ shown \in Seq(1..MaxOut) /\ tty \in Terminal
ServerOK == session \in Sessions /\ roles \in Seq(Cache) /\ Len(roles) <= MaxRoles
TaskOK == machine \in Machines /\ handler \in Handlers /\ watcher \in Watchers
EndingOK == /\ closer \in [Closer -> Calls]
            /\ interrupting \in BOOLEAN /\ closing \in BOOLEAN
            /\ process \in {"runs", "ended", "crashed"}
MishapOK == mishap \subseteq Mishap

LEMMA TypeParts ==
  TypeOK <=> /\ ProgramOK /\ LineOK /\ ScreenOK /\ ServerOK /\ TaskOK /\ EndingOK /\ MishapOK
  BY DEF TypeOK, ProgramOK, LineOK, ScreenOK, ServerOK, TaskOK, EndingOK, MishapOK, Mains,
         Terminal, Sessions, Machines, Places, Handlers, Conditions, Watchers, Stages, Calls

LEMMA TypePartsNext ==
  TypeOK' <=> /\ ProgramOK' /\ LineOK' /\ ScreenOK' /\ ServerOK' /\ TaskOK' /\ EndingOK'
              /\ MishapOK'
  BY TypeParts, PTL

(* What an action leaves alone keeps its type.                                *)
LEMMA Stays ==
  /\ ProgramOK /\ UNCHANGED program => ProgramOK'
  /\ LineOK /\ UNCHANGED line => LineOK'
  /\ ScreenOK /\ UNCHANGED screen => ScreenOK'
  /\ ServerOK /\ UNCHANGED server => ServerOK'
  /\ TaskOK /\ UNCHANGED task => TaskOK'
  /\ EndingOK /\ UNCHANGED ending => EndingOK'
  /\ MishapOK /\ UNCHANGED mishap => MishapOK'
  BY DEF ProgramOK, LineOK, ScreenOK, ServerOK, TaskOK, EndingOK, MishapOK,
         program, line, screen, server, task, ending

LEMMA SaysAreMessages ==
  /\ \A k \in {"connected", "created", "exit", "error", "active", "inactive"} :
       Say(k) \in Message /\ Say(k).kind = k
  /\ \A n \in 1..MaxOut : [kind |-> "out", no |-> n] \in Message
  BY DEF Say, Message

LEMMA Empties == <<>> \in Seq(Message) /\ <<>> \in Seq(1..MaxOut)
  OBVIOUS

(* The changes of the records.                                                *)
LEMMA SessionBecomes ==
  ASSUME NEW s \in Sessions
  PROVE  /\ [s EXCEPT !.asked = TRUE] \in Sessions
         /\ [s EXCEPT !.told = TRUE] \in Sessions
         /\ [s EXCEPT !.life = "runs"] \in Sessions
         /\ [s EXCEPT !.life = "ended"] \in Sessions
         /\ [s EXCEPT !.life = "ended", !.told = TRUE] \in Sessions
         /\ s.outs < MaxOut => [s EXCEPT !.outs = @ + 1] \in Sessions /\ s.outs + 1 \in 1..MaxOut
  <1>1. /\ [s EXCEPT !.asked = TRUE] \in Sessions
        /\ [s EXCEPT !.told = TRUE] \in Sessions
        /\ [s EXCEPT !.life = "runs"] \in Sessions
        /\ [s EXCEPT !.life = "ended"] \in Sessions
        /\ [s EXCEPT !.life = "ended", !.told = TRUE] \in Sessions
    BY DEF Sessions
  <1>2. ASSUME s.outs < MaxOut
        PROVE  s.outs + 1 \in 0..MaxOut /\ s.outs + 1 \in 1..MaxOut
    <2>1. s.outs \in 0..MaxOut
      BY DEF Sessions
    <2> QED BY <1>2, <2>1, ProcessBounds
  <1>3. \A n \in 0..MaxOut : [s EXCEPT !.outs = n] \in Sessions
    BY DEF Sessions
  <1> QED BY <1>1, <1>2, <1>3

LEMMA TaskBecomes ==
  /\ \A m \in Machines :
       /\ Passive(m) \in Machines /\ Watching(m) \in Machines
       /\ \A r \in Cache : [m EXCEPT !.told = r] \in Machines
       /\ \A b \in BOOLEAN : [m EXCEPT !.beats = FALSE, !.there = b] \in Machines
       /\ [m EXCEPT !.state = "assigned-syncing", !.assigned = TRUE, !.beats = TRUE] \in Machines
       /\ [m EXCEPT !.there = TRUE, !.state = "connected-passive"] \in Machines
       /\ [m EXCEPT !.assigned = FALSE, !.state = "disconnected", !.there = FALSE] \in Machines
  /\ \A h \in Handlers : /\ \A a \in Places : [h EXCEPT !.at = a] \in Handlers
                         /\ [h EXCEPT !.stale = TRUE] \in Handlers
  /\ \A w \in Watchers : /\ \A i \in Conditions : [w EXCEPT !.is = i] \in Watchers
                         /\ Stopped(w) \in Watchers
  /\ Hasty \subseteq Mishap
  <1>1. \A m \in Machines :
          /\ Passive(m) \in Machines /\ Watching(m) \in Machines
          /\ \A r \in Cache : [m EXCEPT !.told = r] \in Machines
          /\ \A b \in BOOLEAN : [m EXCEPT !.beats = FALSE, !.there = b] \in Machines
    BY DEF Machines, Passive, Watching
  <1>2. \A m \in Machines :
          /\ [m EXCEPT !.state = "assigned-syncing", !.assigned = TRUE, !.beats = TRUE] \in Machines
          /\ [m EXCEPT !.there = TRUE, !.state = "connected-passive"] \in Machines
          /\ [m EXCEPT !.assigned = FALSE, !.state = "disconnected", !.there = FALSE] \in Machines
    BY DEF Machines
  <1>3. \A h \in Handlers : /\ \A a \in Places : [h EXCEPT !.at = a] \in Handlers
                            /\ [h EXCEPT !.stale = TRUE] \in Handlers
    BY DEF Handlers
  <1>4. \A w \in Watchers : /\ \A i \in Conditions : [w EXCEPT !.is = i] \in Watchers
                            /\ Stopped(w) \in Watchers
    BY DEF Watchers, Stopped, Conditions
  <1>5. Hasty \subseteq Mishap
    BY DEF Hasty, Mishap
  <1> QED BY <1>1, <1>2, <1>3, <1>4, <1>5

LEMMA CloserBecomes ==
  ASSUME EndingOK, NEW who \in Closer
  PROVE  /\ \A at \in Stages :
              /\ [closer EXCEPT ![who] = [at |-> at, waits |-> Waits]] \in [Closer -> Calls]
              /\ [closer EXCEPT ![who].at = at] \in [Closer -> Calls]
  <1>1. Waits \in BOOLEAN
    BY DEF Waits
  <1> QED BY <1>1 DEF EndingOK, Calls

LEMMA ServerTypes ==
  ASSUME TypeOK, ServerNext
  PROVE  TypeOK'
  <1>0. ProgramOK /\ LineOK /\ ScreenOK /\ ServerOK /\ TaskOK /\ EndingOK /\ MishapOK
    BY TypeParts
  <1> USE DEF CanSend, Send
  <1>s. ASSUME NEW m \in Message, Send(m)
        PROVE  LineOK'
    BY <1>0, <1>s DEF LineOK
  <1>1. CASE ServerStarts
    BY <1>0, <1>1, SessionBecomes, Stays, TypePartsNext DEF ServerStarts, ServerOK
  <1>2. CASE ServerTells
    <2>1. LineOK'
      BY <1>2, <1>s, SaysAreMessages DEF ServerTells
    <2>2. ServerOK'
      BY <1>0, <1>2, SessionBecomes DEF ServerTells, ServerOK
    <2> QED BY <1>0, <1>2, <2>1, <2>2, Stays, TypePartsNext DEF ServerTells
  <1>3. CASE ServerPrints
    <2>0. session \in Sessions /\ session.outs < MaxOut /\ session.outs + 1 \in 1..MaxOut
      BY <1>0, <1>3, SessionBecomes DEF ServerPrints, ServerOK
    <2>1. LineOK'
      BY <1>3, <1>s, <2>0, SaysAreMessages DEF ServerPrints
    <2>2. ServerOK'
      BY <1>0, <1>3, <2>0, SessionBecomes DEF ServerPrints, ServerOK
    <2> QED BY <1>0, <1>3, <2>1, <2>2, Stays, TypePartsNext DEF ServerPrints
  <1>4. CASE SessionEnds
    <2>1. LineOK'
      BY <1>4, <1>s, SaysAreMessages DEF SessionEnds
    <2>2. ServerOK'
      BY <1>0, <1>4, SessionBecomes DEF SessionEnds, ServerOK
    <2> QED BY <1>0, <1>4, <2>1, <2>2, Stays, TypePartsNext DEF SessionEnds
  <1>5. CASE ServerFails
    <2>1. LineOK'
      BY <1>5, <1>s, SaysAreMessages DEF ServerFails
    <2>2. ServerOK'
      BY <1>0, <1>5, SessionBecomes DEF ServerFails, ServerOK
    <2> QED BY <1>0, <1>5, <2>1, <2>2, Stays, TypePartsNext DEF ServerFails
  <1>6. CASE ServerAssigns
    <2>0. PICK r \in Cache : roles' = Append(roles, r) /\ Send(Say(r))
      BY <1>6 DEF ServerAssigns
    <2>s. Say(r) \in Message
      BY SaysAreMessages DEF Cache
    <2>1. LineOK'
      <3>1. PICK m \in Message : m = Say(r)
        BY <2>s
      <3>2. Send(m)
        BY <2>0, <3>1
      <3> QED BY <1>0, <3>2 DEF LineOK
    <2>2. ServerOK'
      BY <1>0, <1>6, <2>0, ProcessBounds DEF ServerAssigns, ServerOK
    <2> QED BY <1>0, <1>6, <2>1, <2>2, Stays, TypePartsNext DEF ServerAssigns
  <1>7. CASE SocketCloses
    <2>1. LineOK'
      BY <1>0, <1>7, Empties DEF SocketCloses, LineOK
    <2> QED BY <1>0, <1>7, <2>1, Stays, TypePartsNext DEF SocketCloses
  <1> QED BY <1>1, <1>2, <1>3, <1>4, <1>5, <1>6, <1>7 DEF ServerNext

LEMMA ToPassiveTypes ==
  ASSUME TaskOK, MishapOK, ToPassive
  PROVE  TaskOK' /\ MishapOK'
  <1>1. Passive(machine) \in Machines /\ "inactive" \in Cache
    BY TaskBecomes DEF TaskOK, Cache
  <1>2. machine' \in Machines
    BY <1>1, TaskBecomes DEF ToPassive
  <1>3. handler' \in Handlers /\ watcher' \in Watchers
    BY TaskBecomes DEF TaskOK, ToPassive
  <1>4. MishapOK'
    BY TaskBecomes DEF MishapOK, ToPassive, Mishap
  <1> QED BY <1>2, <1>3, <1>4 DEF TaskOK

LEMMA StartDisconnectTypes ==
  ASSUME TaskOK, MishapOK, NEW who, StartDisconnect(who)
  PROVE  TaskOK' /\ MishapOK'
  <1>1. (who # "event") \in BOOLEAN
    OBVIOUS
  <1>2. machine' \in Machines
    BY <1>1, TaskBecomes DEF TaskOK, StartDisconnect
  <1>3. handler' \in Handlers /\ watcher' \in Watchers
    BY TaskBecomes DEF TaskOK, StartDisconnect
  <1>4. MishapOK'
    BY TaskBecomes DEF MishapOK, StartDisconnect
  <1> QED BY <1>2, <1>3, <1>4 DEF TaskOK

LEMMA TaskTypes ==
  ASSUME TypeOK, TaskNext \/ SyncFails \/ TaskRefused \/ HeartbeatFails
  PROVE  TypeOK'
  <1>0. ProgramOK /\ LineOK /\ ScreenOK /\ ServerOK /\ TaskOK /\ EndingOK /\ MishapOK
    BY TypeParts
  <1>h. \A a \in Places, b \in BOOLEAN : [at |-> a, stale |-> b] \in Handlers
    BY DEF Handlers
  <1>p. {"none", "called", "starting", "syncing", "reporting", "failing", "done"} = Places
    BY DEF Places
  <1>w. {"none", "starting", "doomed", "running", "leaked", "stopping", "stopped"} = Conditions
    BY DEF Conditions
  <1>1. CASE HandlerResumes
    <2>1. [held |-> TRUE, is |-> "starting"] \in Watchers
      BY DEF Watchers, Conditions
    <2>2. TaskOK'
      BY <1>0, <1>1, <1>p, <2>1, TaskBecomes DEF HandlerResumes, TaskOK
    <2> QED BY <1>0, <1>1, <2>2, Stays, TypePartsNext DEF HandlerResumes
  <1>2. CASE WatcherStarts
    <2>1. watcher' \in Watchers
      BY <1>0, <1>2, <1>w, TaskBecomes DEF WatcherStarts, TaskOK
    <2>2. handler' \in Handlers
      BY <1>0, <1>2, <1>p, TaskBecomes DEF WatcherStarts, TaskOK
    <2>3. TaskOK'
      BY <1>0, <1>2, <2>1, <2>2 DEF WatcherStarts, TaskOK
    <2> QED BY <1>0, <1>2, <2>3, Stays, TypePartsNext DEF WatcherStarts
  <1>3. CASE Synced
    <2>1. TaskOK'
      BY <1>0, <1>3, <1>p, TaskBecomes DEF Synced, TaskOK
    <2> QED BY <1>0, <1>3, <2>1, Stays, TypePartsNext DEF Synced
  <1>4. CASE SyncReported
    <2>1. TaskOK'
      BY <1>0, <1>4, <1>p, TaskBecomes DEF SyncReported, TaskOK
    <2> QED BY <1>0, <1>4, <2>1, Stays, TypePartsNext DEF SyncReported
  <1>5. CASE FaultReported
    <2>1. TaskOK'
      BY <1>0, <1>5, <1>p, <1>h, TaskBecomes DEF FaultReported, TaskOK
    <2> QED BY <1>0, <1>5, <2>1, Stays, TypePartsNext DEF FaultReported
  <1>6. CASE WatcherStops
    <2>1. TaskOK'
      BY <1>0, <1>6, <1>w, TaskBecomes DEF WatcherStops, TaskOK
    <2> QED BY <1>0, <1>6, <2>1, Stays, TypePartsNext DEF WatcherStops
  <1>7. CASE SyncFails
    <2>1. watcher' \in Watchers
      <3>1. watcher.is \in Conditions
        BY <1>0 DEF TaskOK, Watchers
      <3> QED BY <1>0, <1>7, <1>w, <3>1, TaskBecomes DEF SyncFails, TaskOK
    <2>2. handler' \in Handlers
      BY <1>0, <1>7, <1>p, TaskBecomes DEF SyncFails, TaskOK
    <2>3. TaskOK'
      BY <1>0, <1>7, <2>1, <2>2 DEF SyncFails, TaskOK
    <2> QED BY <1>0, <1>7, <2>3, Stays, TypePartsNext DEF SyncFails
  <1>8. CASE TaskRefused
    BY <1>0, <1>8, ToPassiveTypes, Stays, TypePartsNext DEF TaskRefused
  <1>9. CASE HeartbeatFails
    <2>1. EndingOK'
      BY <1>0, <1>9 DEF HeartbeatFails, EndingOK
    <2> QED BY <1>0, <1>9, <2>1, Stays, TypePartsNext DEF HeartbeatFails
  <1> QED BY <1>1, <1>2, <1>3, <1>4, <1>5, <1>6, <1>7, <1>8, <1>9 DEF TaskNext

LEMMA GivenBackType == Back \in Terminal /\ \A t : GivenBack(t) = Back
  BY DEF Terminal, GivenBack, Back

LEMMA StartCloseTypes ==
  ASSUME TaskOK, EndingOK, MishapOK, NEW who \in Closer, StartClose(who),
         UNCHANGED process, interrupting' \in {interrupting, TRUE}
  PROVE  TaskOK' /\ EndingOK' /\ MishapOK'
  <1>1. "machine" \in Stages
    BY DEF Stages
  <1>2. CASE machine.there
    <2>1. TaskOK' /\ MishapOK'
      BY <1>2, StartDisconnectTypes DEF StartClose
    <2>2. At(who, "machine") /\ closing' = TRUE
      BY <1>2 DEF StartClose
    <2>3. closer' \in [Closer -> Calls]
      BY ONLY <1>1, <2>2, EndingOK, who \in Closer, CloserBecomes DEF At
    <2>4. EndingOK'
      BY <2>2, <2>3 DEF EndingOK
    <2> QED BY <2>1, <2>4
  <1>3. CASE ~machine.there
    <2>1. TaskOK' /\ MishapOK'
      BY <1>3, Stays DEF StartClose
    <2>2. closer' \in [Closer -> Calls]
      <3>1. \A at \in Stages : [closer EXCEPT ![who].at = at] \in [Closer -> Calls]
        BY CloserBecomes
      <3>2. closer' = [closer EXCEPT ![who].at = "machine"]
        BY <1>3 DEF StartClose
      <3> QED BY <1>1, <3>1, <3>2
    <2>3. EndingOK'
      BY <2>2 DEF StartClose, EndingOK
    <2> QED BY <2>1, <2>3
  <1> QED BY <1>2, <1>3

(* runPtyPassthrough with its listeners on: where the end among the messages  *)
(* kept is, and what stays kept behind it.                                    *)
LEMMA EndIs ==
  ASSUME NEW ms \in Seq(Message), NEW end,
         end = SelectInSeq(ms, LAMBDA m : m.kind \in Over)
  PROVE  /\ end = 0 => \A i \in 1..Len(ms) : ms[i].kind \notin Over
         /\ end # 0 => end \in 1..Len(ms) /\ ms[end].kind \in Over
  <1> DEFINE I == {i \in 1..Len(ms) : ms[i].kind \in Over}
  <1>1. end = IF I # {} THEN Min(I) ELSE 0
    BY DEF SelectInSeq
  <1>2. I \in SUBSET Nat /\ \A i \in I : i # 0
    OBVIOUS
  <1>3. I # {} => Min(I) \in I
    BY <1>2, MinIsLeast
  <1> QED BY <1>1, <1>2, <1>3

LEMMA AttachedTypes ==
  ASSUME ProgramOK, ScreenOK, Attached
  PROVE  ProgramOK' /\ ScreenOK'
  <1>1. PICK end : end = SelectInSeq(pending, LAMBDA m : m.kind \in Over)
    OBVIOUS
  <1>2. /\ end = 0 => \A i \in 1..Len(pending) : pending[i].kind \notin Over
        /\ end # 0 => end \in 1..Len(pending) /\ pending[end].kind \in Over
    BY <1>1, EndIs DEF ScreenOK
  <1>3. tty' \in Terminal
    BY DEF Attached, ScreenOK, Terminal
  <1>4. CASE /\ end = 0
             /\ main' = "passing" /\ pending' = <<>>
             /\ shown' = Flushed(shown, pending)
             /\ UNCHANGED outcome
    <2>1. Printed(pending) \in Seq(1..MaxOut)
      BY PrintedType DEF ScreenOK
    <2>2. shown' \in Seq(1..MaxOut)
      BY <1>4, <2>1 DEF Flushed, ScreenOK
    <2>3. ScreenOK'
      BY <1>3, <1>4, <2>2 DEF ScreenOK
    <2>4. ProgramOK'
      BY <1>4 DEF Attached, ProgramOK, Mains
    <2> QED BY <2>3, <2>4
  <1>5. CASE /\ end # 0
             /\ main' = "leaving" /\ outcome' = pending[end].kind
             /\ pending' = SubSeq(pending, end + 1, Len(pending))
             /\ shown' = Flushed(shown, SubSeq(pending, 1, end))
    <2>1. SubSeq(pending, 1, end) \in Seq(Message) /\ pending' \in Seq(Message)
      BY <1>2, <1>5 DEF ScreenOK
    <2>2. Printed(SubSeq(pending, 1, end)) \in Seq(1..MaxOut)
      BY <2>1, PrintedType
    <2>3. shown' \in Seq(1..MaxOut)
      BY <1>5, <2>2 DEF Flushed, ScreenOK
    <2>4. ScreenOK'
      BY <1>3, <2>1, <2>3 DEF ScreenOK
    <2>5. ProgramOK'
      BY <1>2, <1>5 DEF Attached, ProgramOK, Mains, Over
    <2> QED BY <2>4, <2>5
  <1> QED BY <1>1, <1>4, <1>5 DEF Attached

LEMMA MainTypes ==
  ASSUME TypeOK, MainNext \/ KeyFails \/ Interrupt \/ ForcedExit
  PROVE  TypeOK'
  <1>0. ProgramOK /\ LineOK /\ ScreenOK /\ ServerOK /\ TaskOK /\ EndingOK /\ MishapOK
    BY TypeParts
  <1>1. CASE Opened
    <2>1. ProgramOK'
      BY <1>0, <1>1 DEF Opened, Fail, ProgramOK, Mains
    <2>2. TaskOK'
      BY <1>0, <1>1, TaskBecomes DEF Opened, TaskOK
    <2> QED BY <1>0, <1>1, <2>1, <2>2, Stays, TypePartsNext DEF Opened
  <1>2. CASE Greeted
    <2>1. ProgramOK'
      BY <1>0, <1>2 DEF Greeted, Fail, ProgramOK, Mains
    <2> QED BY <1>0, <1>2, <2>1, Stays, TypePartsNext DEF Greeted
  <1>3. CASE Prepared
    <2>1. ProgramOK'
      BY <1>0, <1>3 DEF Prepared, Fail, ProgramOK, Mains
    <2> QED BY <1>0, <1>3, <2>1, Stays, TypePartsNext DEF Prepared
  <1>4. CASE Created
    <2>1. ProgramOK'
      BY <1>0, <1>4 DEF Created, Fail, ProgramOK, Mains
    <2>2. ScreenOK'
      BY <1>0, <1>4, Empties DEF Created, ScreenOK
    <2>3. ServerOK'
      BY <1>0, <1>4, SessionBecomes DEF Created, ServerOK
    <2> QED BY <1>0, <1>4, <2>1, <2>2, <2>3, Stays, TypePartsNext DEF Created
  <1>5. CASE Attached
    <2>1. ProgramOK' /\ ScreenOK'
      BY <1>0, <1>5, AttachedTypes DEF ProgramOK, ScreenOK
    <2> QED BY <1>0, <1>5, <2>1, Stays, TypePartsNext DEF Attached
  <1>6. CASE Leave
    <2>1. ProgramOK'
      BY <1>0, <1>6 DEF Leave, ProgramOK, Mains
    <2>2. TaskOK' /\ EndingOK' /\ MishapOK'
      BY <1>0, <1>6, StartCloseTypes DEF Leave, Closer
    <2> QED BY <1>0, <1>6, <2>1, <2>2, Stays, TypePartsNext DEF Leave
  <1>7. CASE ProcessExits
    <2>1. EndingOK'
      BY <1>0, <1>7 DEF ProcessExits, EndingOK
    <2> QED BY <1>0, <1>7, <2>1, Stays, TypePartsNext DEF ProcessExits
  <1>8. CASE KeyFails
    <2>1. ProgramOK'
      BY <1>0, <1>8 DEF KeyFails, Fail, ProgramOK, Mains
    <2>2. ScreenOK'
      <3>1. tty' = Back /\ UNCHANGED <<pending, shown>>
        BY <1>8, GivenBackType DEF KeyFails
      <3>2. tty' \in Terminal
        BY <3>1, GivenBackType
      <3> QED BY <1>0, <3>1, <3>2 DEF ScreenOK
    <2> QED BY <1>0, <1>8, <2>1, <2>2, Stays, TypePartsNext DEF KeyFails
  <1>9. CASE Interrupt
    <2>1. TaskOK' /\ EndingOK' /\ MishapOK'
      <3>1. CASE StartClose("signal") /\ interrupting' = TRUE /\ UNCHANGED process
        BY <1>0, <3>1, StartCloseTypes DEF Closer
      <3>2. CASE process' = "ended" /\ UNCHANGED <<task, closer, interrupting, closing, mishap>>
        <4>1. EndingOK'
          BY <1>0, <3>2 DEF EndingOK
        <4> QED BY <1>0, <3>2, <4>1, Stays
      <3> QED BY <1>9, <3>1, <3>2 DEF Interrupt
    <2> QED BY <1>0, <1>9, <2>1, Stays, TypePartsNext DEF Interrupt
  <1>10. CASE ForcedExit
    <2>1. EndingOK'
      BY <1>0, <1>10 DEF ForcedExit, EndingOK
    <2> QED BY <1>0, <1>10, <2>1, Stays, TypePartsNext DEF ForcedExit
  <1> QED BY <1>1, <1>2, <1>3, <1>4, <1>5, <1>6, <1>7, <1>8, <1>9, <1>10 DEF MainNext

LEMMA CloseTypes ==
  ASSUME TypeOK, CloseNext
  PROVE  TypeOK'
  <1>0. ProgramOK /\ LineOK /\ ScreenOK /\ ServerOK /\ TaskOK /\ EndingOK /\ MishapOK
    BY TypeParts
  <1>s. "machine" \in Stages /\ "socket" \in Stages /\ "done" \in Stages
    BY DEF Stages
  <1>1. CASE CloseEvent
    <2>1. ProgramOK'
      BY <1>0, <1>1 DEF CloseEvent, HeardClose, Finish, ProgramOK, Mains, program
    <2>2. ScreenOK'
      <3>1. tty' = tty \/ tty' = Back
        BY <1>1, GivenBackType DEF CloseEvent, HeardClose, Finish
      <3> QED BY <1>0, <1>1, <3>1, GivenBackType DEF CloseEvent, ScreenOK
    <2>3. LineOK'
      BY <1>0, <1>1 DEF CloseEvent, LineOK
    <2>4. TaskOK' /\ MishapOK'
      BY <1>0, <1>1, StartDisconnectTypes, Stays DEF CloseEvent
    <2>5. EndingOK'
      BY <1>0, <1>1, <1>s, CloserBecomes DEF CloseEvent, At, EndingOK, Closer
    <2> QED BY <1>0, <1>1, <2>1, <2>2, <2>3, <2>4, <2>5, Stays, TypePartsNext DEF CloseEvent
  <1>2. ASSUME NEW who \in Closer, Disconnected(who)
        PROVE  TypeOK'
    <2>1. LineOK'
      BY <1>0, <1>2 DEF Disconnected, LineOK
    <2>2. TaskOK'
      BY <1>0, <1>2, TaskBecomes DEF Disconnected, TaskOK
    <2>3. closer' \in [Closer -> Calls]
      <3>1. \/ closer' = [closer EXCEPT ![who].at = "done"]
            \/ closer' = [closer EXCEPT ![who].at = "socket"]
        BY <1>2 DEF Disconnected
      <3>2. \A at \in Stages : [closer EXCEPT ![who].at = at] \in [Closer -> Calls]
        BY <1>0, CloserBecomes
      <3> QED BY <1>s, <3>1, <3>2
    <2>4. EndingOK'
      BY <1>0, <1>2, <2>3 DEF Disconnected, EndingOK
    <2> QED BY <1>0, <1>2, <2>1, <2>2, <2>4, Stays, TypePartsNext DEF Disconnected
  <1>3. ASSUME NEW who \in Closer, Closed(who)
        PROVE  TypeOK'
    <2>1. ProgramOK'
      BY <1>0, <1>3 DEF Closed, ProgramOK, Mains
    <2>2. closer' \in [Closer -> Calls]
      BY <1>0, <1>3, <1>s, CloserBecomes DEF Closed
    <2>3. closing' = FALSE /\ interrupting' = interrupting
          /\ (process' = "ended" \/ process' = process)
      BY <1>3 DEF Closed
    <2>4. EndingOK'
      BY <1>0, <2>2, <2>3 DEF EndingOK
    <2> QED BY <1>0, <1>3, <2>1, <2>4, Stays, TypePartsNext DEF Closed
  <1> QED BY <1>1, <1>2, <1>3 DEF CloseNext

LEMMA ConsumeTypes ==
  ASSUME ProgramOK, ScreenOK, NEW m \in Message, Consume(m)
  PROVE  ProgramOK' /\ ScreenOK'
  <1>1. ProgramOK'
    BY DEF Consume, Finish, ProgramOK, Mains, Over, program
  <1>2. pending' \in Seq(Message)
    BY DEF Consume, ScreenOK, screen
  <1>3. tty' \in Terminal
    <2>1. tty' = tty \/ tty' = Back
      BY GivenBackType DEF Consume, Finish, screen
    <2> QED BY <2>1, GivenBackType DEF ScreenOK
  <1>4. shown' \in Seq(1..MaxOut)
    <2>1. m.kind = "out" => m.no \in 1..MaxOut
      BY DEF Message
    <2>2. shown' = shown \/ (m.kind = "out" /\ shown' = Append(shown, m.no))
      <3>1. CASE shown' # shown
        <4>1. main = "passing" /\ m.kind = "out" /\ shown' = Append(shown, m.no)
          BY <3>1 DEF Consume, screen
        <4> QED BY <4>1
      <3> QED BY <3>1
    <2>3. CASE m.kind = "out" /\ shown' = Append(shown, m.no)
      <3>1. shown \in Seq(1..MaxOut) /\ m.no \in 1..MaxOut
        BY <2>1, <2>3 DEF ScreenOK
      <3> QED BY <2>3, <3>1
    <2> QED BY <2>2, <2>3 DEF ScreenOK
  <1> QED BY <1>1, <1>2, <1>3, <1>4 DEF ScreenOK

LEMMA ReceiveTypes ==
  ASSUME TypeOK, Receive
  PROVE  TypeOK'
  <1>0. ProgramOK /\ LineOK /\ ScreenOK /\ ServerOK /\ TaskOK /\ EndingOK /\ MishapOK
    BY TypeParts
  <1>1. PICK m \in Message : m = Head(wire)
    BY <1>0 DEF Receive, LineOK
  <1>2. LineOK'
    BY <1>0 DEF Receive, LineOK
  <1>3. CASE UNCHANGED <<program, screen, task, mishap>>
    BY <1>0, <1>2, <1>3, Stays, TypePartsNext DEF Receive
  <1>4. CASE m.kind \in Cache /\ TakeRole(m.kind) /\ UNCHANGED <<program, screen>>
    <2>1. TaskOK' /\ MishapOK'
      <3>1. CASE ToPassive
        BY <1>0, <3>1, ToPassiveTypes
      <3>2. CASE /\ machine' = [machine EXCEPT !.told = m.kind]
                 /\ handler' = [at |-> "called", stale |-> FALSE]
                 /\ UNCHANGED <<watcher, mishap>>
        <4>1. machine' \in Machines
          BY <1>0, <1>4, <3>2, TaskBecomes DEF TaskOK
        <4>2. handler' \in Handlers
          BY <3>2 DEF Handlers, Places
        <4> QED BY <1>0, <3>2, <4>1, <4>2 DEF TaskOK, MishapOK
      <3> QED BY <1>4, <3>1, <3>2 DEF TakeRole
    <2> QED BY <1>0, <1>2, <1>4, <2>1, Stays, TypePartsNext DEF Receive
  <1>5. CASE Consume(m) /\ UNCHANGED <<task, mishap>>
    <2>1. ProgramOK' /\ ScreenOK'
      BY <1>0, <1>5, ConsumeTypes
    <2> QED BY <1>0, <1>2, <1>5, <2>1, Stays, TypePartsNext DEF Receive
  <1> QED BY <1>1, <1>3, <1>4, <1>5 DEF Receive

LEMMA InitTypes == Init => TypeOK
  <1> SUFFICES ASSUME Init PROVE TypeOK
    OBVIOUS
  <1>1. ProgramOK /\ LineOK /\ ScreenOK
    <2>1. Say("connected") \in Message
      BY SaysAreMessages
    <2>2. wire \in Seq(Message)
      BY <2>1 DEF Init
    <2>3. ProgramOK /\ LineOK
      BY <2>2 DEF Init, ProgramOK, LineOK, Mains
    <2>4. ScreenOK
      BY Empties DEF Init, ScreenOK, Terminal
    <2> QED BY <2>3, <2>4
  <1>2. ServerOK
    BY ProcessBounds DEF Init, ServerOK, Sessions
  <1>3. TaskOK
    BY DEF Init, TaskOK, Machines, Handlers, Watchers, Places, Conditions
  <1>4. EndingOK /\ MishapOK
    BY DEF Init, EndingOK, MishapOK, Calls, Stages
  <1> QED BY <1>1, <1>2, <1>3, <1>4, TypeParts

LEMMA StepTypes == TypeOK /\ [Next]_vars => TypeOK'
  <1> SUFFICES ASSUME TypeOK, [Next]_vars PROVE TypeOK'
    OBVIOUS
  <1>1. CASE UNCHANGED vars
    BY <1>1, TypeParts, Stays, TypePartsNext DEF vars
  <1> QED BY <1>1, ServerTypes, TaskTypes, MainTypes, CloseTypes, ReceiveTypes DEF Next, AtRest

(* The types hold in every reachable state: no message, assignment or failure *)
(* brings a variable out of the states the code knows.                        *)
THEOREM TypeCorrect == Spec => []TypeOK
  BY InitTypes, StepTypes, PTL DEF Spec

-----------------------------------------------------------------------------
(* A revoked executor.                                                        *)

(* ToPassive and StartDisconnect stop what a revoked executor must not have.  *)
LEMMA RevokedToPassive ==
  ASSUME TaskOK, ToPassive, Revoked
  PROVE  Revoked'
  <1>1. /\ machine'.told = "inactive" /\ ~machine'.beats /\ ~machine'.assigned
        /\ ~watcher'.held
    BY DEF TaskOK, Machines, ToPassive, Passive, Stopped
  <1>2. handler'.at = handler.at
    BY DEF TaskOK, Handlers, ToPassive
  <1>3. handler.at = "called" => "overtaken" \in mishap'
    BY DEF ToPassive
  <1> QED BY <1>1, <1>2, <1>3 DEF Revoked, RevokedIsSilent

LEMMA RevokedDisconnect ==
  ASSUME TaskOK, NEW who, StartDisconnect(who), Revoked
  PROVE  Revoked'
  <1>1. /\ machine'.told = machine.told /\ ~machine'.beats
        /\ machine'.assigned = machine.assigned /\ ~watcher'.held
    BY DEF TaskOK, Machines, StartDisconnect, Stopped
  <1>2. handler'.at = handler.at
    BY DEF TaskOK, Handlers, StartDisconnect
  <1>3. mishap \subseteq mishap'
    BY DEF StartDisconnect
  <1> QED BY <1>1, <1>2, <1>3 DEF Revoked, RevokedIsSilent

LEMMA RevokedClose ==
  ASSUME TaskOK, NEW who, StartClose(who), Revoked
  PROVE  Revoked'
  <1>1. CASE StartDisconnect(who)
    BY <1>1, RevokedDisconnect
  <1>2. CASE UNCHANGED <<task, mishap>>
    BY <1>2 DEF task, Revoked, RevokedIsSilent
  <1> QED BY <1>1, <1>2 DEF StartClose

LEMMA RevokedStep ==
  ASSUME TypeOK, Revoked, [Next]_vars
  PROVE  Revoked'
  <1>0. TaskOK
    BY TypeParts
  <1>u. UNCHANGED <<task, mishap>> => Revoked'
    BY DEF task, Revoked, RevokedIsSilent
  (* What only moves the watcher, or the handler on from where it is, cannot  *)
  (* break it.                                                                *)
  <1>k. ASSUME machine'.told = machine.told, machine'.beats => machine.beats,
               machine'.assigned => machine.assigned, watcher'.held => watcher.held,
               handler'.at = "called" => handler.at = "called", mishap' = mishap
        PROVE  Revoked'
    BY <1>k DEF Revoked, RevokedIsSilent
  <1>1. CASE ServerNext
    BY <1>1, <1>u DEF ServerNext, ServerStarts, ServerTells, ServerPrints, SessionEnds,
                      ServerFails, ServerAssigns, SocketCloses
  <1>2. CASE HandlerResumes
    <2>1. machine'.told = machine.told /\ handler'.at = "starting" /\ mishap' = mishap
          /\ handler.at = "called"
      BY <1>0, <1>2 DEF HandlerResumes, TaskOK, Machines, Handlers
    <2>2. machine.told = "active" \/ "overtaken" \in mishap
      BY <2>1 DEF Revoked
    <2> QED BY <2>1, <2>2 DEF Revoked, RevokedIsSilent
  <1>3. CASE WatcherStarts
    <2>1. machine' = machine /\ mishap' = mishap /\ watcher'.held = watcher.held
      BY <1>0, <1>3 DEF WatcherStarts, TaskOK, Watchers
    <2>2. handler'.at # "called"
      BY <1>0, <1>3 DEF WatcherStarts, TaskOK, Handlers
    <2> QED BY <1>k, <2>1, <2>2
  <1>4. CASE Synced
    <2>1. machine' = machine /\ mishap' = mishap /\ watcher' = watcher
      BY <1>4 DEF Synced
    <2>2. handler'.at # "called"
      BY <1>0, <1>4 DEF Synced, TaskOK, Handlers
    <2> QED BY <1>k, <2>1, <2>2
  <1>5. CASE SyncReported
    <2>1. mishap' = mishap /\ watcher' = watcher
      BY <1>5 DEF SyncReported
    <2>2. machine'.told = machine.told /\ machine'.beats = machine.beats
          /\ machine'.assigned = machine.assigned
      BY <1>0, <1>5 DEF SyncReported, Watching, TaskOK, Machines
    <2>3. handler'.at # "called"
      BY <1>0, <1>5 DEF SyncReported, TaskOK, Handlers
    <2> QED BY <1>k, <2>1, <2>2, <2>3
  <1>6. CASE FaultReported
    <2>1. mishap' = mishap /\ handler'.at = "done"
      BY <1>6 DEF FaultReported
    <2>2. machine'.told = machine.told /\ (machine'.beats => machine.beats)
          /\ (machine'.assigned => machine.assigned)
      BY <1>0, <1>6 DEF FaultReported, Passive, TaskOK, Machines
    <2>3. watcher'.held => watcher.held
      BY <1>0, <1>6 DEF FaultReported, Stopped
    <2> QED BY <1>k, <2>1, <2>2, <2>3
  <1>7. CASE WatcherStops
    <2>1. machine' = machine /\ handler' = handler /\ mishap' = mishap
      BY <1>7 DEF WatcherStops
    <2>2. watcher'.held = watcher.held
      BY <1>0, <1>7 DEF WatcherStops, TaskOK, Watchers
    <2> QED BY <1>k, <2>1, <2>2
  <1>8. CASE SyncFails
    <2>1. machine' = machine /\ mishap' = mishap
      BY <1>8 DEF SyncFails
    <2>2. watcher'.held = watcher.held
      BY <1>0, <1>8 DEF SyncFails, TaskOK, Watchers
    <2>3. handler'.at # "called"
      BY <1>0, <1>8 DEF SyncFails, TaskOK, Handlers
    <2> QED BY <1>k, <2>1, <2>2, <2>3
  <1>9. CASE TaskRefused
    BY <1>0, <1>9, RevokedToPassive DEF TaskRefused
  <1>10. CASE HeartbeatFails \/ KeyFails \/ ForcedExit
    BY <1>10, <1>u DEF HeartbeatFails, KeyFails, ForcedExit
  <1>11. CASE Opened
    <2>1. handler' = handler /\ watcher' = watcher /\ mishap' = mishap
      BY <1>11 DEF Opened
    <2>2. machine'.told = machine.told /\ machine'.beats = machine.beats
          /\ machine'.assigned = machine.assigned
      BY <1>0, <1>11 DEF Opened, TaskOK, Machines
    <2> QED BY <1>k, <2>1, <2>2
  <1>12. CASE Greeted \/ Prepared \/ Created \/ Attached \/ ProcessExits
    BY <1>12, <1>u DEF Greeted, Prepared, Created, Attached, ProcessExits
  <1>13. CASE Leave
    BY <1>0, <1>13, RevokedClose DEF Leave
  <1>14. CASE Interrupt
    BY <1>0, <1>14, <1>u, RevokedClose DEF Interrupt
  <1>15. CASE CloseEvent
    BY <1>0, <1>15, <1>u, RevokedDisconnect DEF CloseEvent
  <1>16. ASSUME NEW who \in Closer, Disconnected(who)
         PROVE  Revoked'
    <2>1. handler' = handler /\ watcher' = watcher /\ mishap' = mishap
      BY <1>16 DEF Disconnected
    <2>2. machine'.told = machine.told /\ machine'.beats = machine.beats
          /\ ~machine'.assigned
      BY <1>0, <1>16 DEF Disconnected, TaskOK, Machines
    <2> QED BY <1>k, <2>1, <2>2
  <1>17. ASSUME NEW who \in Closer, Closed(who)
         PROVE  Revoked'
    BY <1>17, <1>u DEF Closed
  <1>18. CASE Receive
    <2>1. CASE TakeRole("active")
      <3>1. CASE ToPassive
        BY <1>0, <3>1, RevokedToPassive
      <3>2. CASE machine' = [machine EXCEPT !.told = "active"]
        BY <1>0, <3>2 DEF TaskOK, Machines, Revoked, RevokedIsSilent
      <3> QED BY <2>1, <3>1, <3>2 DEF TakeRole
    <2>2. CASE TakeRole("inactive")
      BY <1>0, <2>2, RevokedToPassive DEF TakeRole
    <2>3. CASE UNCHANGED <<task, mishap>>
      BY <1>u, <2>3
    <2> QED BY <1>18, <2>1, <2>2, <2>3 DEF Receive, Cache
  <1>19. CASE UNCHANGED vars
    BY <1>19, <1>u DEF vars
  <1> QED BY <1>1, <1>2, <1>3, <1>4, <1>5, <1>6, <1>7, <1>8, <1>9, <1>10, <1>11, <1>12, <1>13,
             <1>14, <1>15, <1>16, <1>17, <1>18, <1>19
          DEF Next, TaskNext, MainNext, CloseNext, AtRest

LEMMA RevokedInit == Init => Revoked
  BY DEF Init, Revoked, RevokedIsSilent

(* A client that was last told that it is not the executor sends no           *)
(* heartbeats, holds no assignment and no watcher: the cache task's fencing   *)
(* holds at the client too, unless the revocation overtook the assignment.    *)
THEOREM SilentWhenRevoked == Spec => []RevokedIsSilent
  <1>1. Init => TypeOK /\ Revoked
    BY InitTypes, RevokedInit
  <1>2. TypeOK /\ Revoked /\ [Next]_vars => (TypeOK /\ Revoked)'
    BY StepTypes, RevokedStep
  <1>3. TypeOK /\ Revoked => RevokedIsSilent
    BY DEF Revoked
  <1> QED BY <1>1, <1>2, <1>3, PTL DEF Spec

-----------------------------------------------------------------------------
(* The terminal.                                                              *)

(* A wait ends with the terminal given back, in a program that has not begun  *)
(* to close.                                                                  *)
LEMMA FinishGivesBack ==
  ASSUME ProgramOK, Borrowed, NEW how, Finish(how), main \in {"awaiting", "passing"},
         closer' = closer \/ closer'["main"] = closer["main"]
  PROVE  Borrowed'
  <1>1. tty' = Back
    BY GivenBackType DEF Finish, ProgramOK, Borrowed, TerminalIsBack, Back
  <1>2. main' = "leaving" /\ closer'["main"].at = "none"
    BY DEF Finish, Borrowed
  <1> QED BY <1>1, <1>2 DEF Borrowed, TerminalIsBack, Back

LEMMA ConsumeBorrowed ==
  ASSUME ProgramOK, Borrowed, NEW m, Consume(m), socket # "closed", socket' = socket,
         closer' = closer
  PROVE  Borrowed'
  <1>1. CASE main = "awaiting" /\ main' = "created" /\ UNCHANGED <<oneShot, screen>>
    BY <1>1 DEF Borrowed, TerminalIsBack, Back, screen
  <1>2. CASE main' = main /\ oneShot' = oneShot /\ tty' = tty
    BY <1>2 DEF Borrowed, TerminalIsBack, Back
  <1>3. CASE Finish(m.kind) /\ main \in {"awaiting", "passing"}
    BY <1>3, FinishGivesBack
  <1> QED BY <1>1, <1>2, <1>3 DEF Consume, program, screen

LEMMA BorrowedStep ==
  ASSUME TypeOK, Borrowed, [Next]_vars
  PROVE  Borrowed'
  <1>0. ProgramOK /\ LineOK /\ ScreenOK /\ TaskOK /\ EndingOK
    BY TypeParts
  <1>u. ASSUME UNCHANGED <<program, screen>>, socket' = socket \/ (socket # "closed" /\ socket' # "closed"),
               closer'["main"].at # "none" => closer["main"].at # "none"
        PROVE  Borrowed'
    BY <1>u DEF program, screen, Borrowed, TerminalIsBack, Back
  <1>1. CASE ServerNext
    <2>1. UNCHANGED <<program, screen>> /\ closer' = closer
      BY <1>1 DEF ServerNext, ServerStarts, ServerTells, ServerPrints, SessionEnds,
                  ServerFails, ServerAssigns, SocketCloses, ending
    <2>2. socket' = socket \/ (socket # "closed" /\ socket' # "closed")
      BY <1>1 DEF ServerNext, ServerStarts, ServerTells, ServerPrints, SessionEnds,
                  ServerFails, ServerAssigns, SocketCloses, Send, line
    <2> QED BY <1>u, <2>1, <2>2
  <1>2. CASE TaskNext \/ SyncFails \/ TaskRefused \/ HeartbeatFails \/ ForcedExit \/ ProcessExits
    <2>1. UNCHANGED <<program, screen>> /\ closer' = closer /\ socket' = socket
      BY <1>2 DEF TaskNext, HandlerResumes, WatcherStarts, Synced, SyncReported, FaultReported,
                  WatcherStops, SyncFails, TaskRefused, HeartbeatFails, ForcedExit, ProcessExits,
                  line, ending
    <2> QED BY <1>u, <2>1
  (* Before there is a session the terminal is the user's.                    *)
  <1>3. CASE Opened \/ Greeted \/ Prepared \/ Created
    <2>1. main \in Early /\ main' \in Early \cup {"awaiting", "leaving"}
      BY <1>3 DEF Opened, Greeted, Prepared, Created, Fail, Early
    <2>2. UNCHANGED <<oneShot, tty, closer>>
      BY <1>3 DEF Opened, Greeted, Prepared, Created, ending, screen
    <2> QED BY <2>1, <2>2 DEF Borrowed, TerminalIsBack, Back, Early
  <1>4. CASE Attached
    <2>1. main = "created" /\ main' \in {"passing", "leaving"} /\ UNCHANGED <<oneShot, socket, closer>>
      BY <1>4 DEF Attached, line, ending
    <2>2. oneShot => tty' = Back
      BY <1>4 DEF Attached, Borrowed
    <2> QED BY <1>0, <2>1, <2>2 DEF Borrowed, TerminalIsBack, Back, ProgramOK
  <1>5. CASE KeyFails
    <2>1. tty' = Back /\ UNCHANGED <<oneShot, socket, closer>>
      BY <1>5, GivenBackType DEF KeyFails, line, ending
    <2>2. main' = main \/ (main = "passing" /\ main' = "leaving")
      BY <1>5 DEF KeyFails, Fail
    <2> QED BY <2>1, <2>2 DEF Borrowed, TerminalIsBack, Back
  <1>6. CASE Leave
    <2>1. main = "leaving" /\ main' = "closing" /\ UNCHANGED <<oneShot, socket, tty>>
      BY <1>6 DEF Leave, line, screen
    <2> QED BY <2>1 DEF Borrowed, TerminalIsBack, Back
  <1>7. CASE Interrupt
    <2>1. UNCHANGED <<program, screen, socket>>
      BY <1>7 DEF Interrupt, line
    <2>2. closer'["main"] = closer["main"]
      BY <1>0, <1>7 DEF Interrupt, StartClose, At, EndingOK, Closer
    <2> QED BY <1>u, <2>1, <2>2
  <1>8. CASE CloseEvent
    <2>1. closer'["main"] = closer["main"]
      BY <1>0, <1>8 DEF CloseEvent, At, EndingOK, Closer
    <2>2. CASE main \in {"awaiting", "passing"} /\ Finish("error")
      BY <1>0, <2>1, <2>2, FinishGivesBack
    <2>3. CASE tty' = GivenBack(tty) /\ UNCHANGED program
      <3>1. main # "created"
        BY <1>8 DEF CloseEvent, Event, Resolved
      <3> QED BY <2>1, <2>3, <3>1, GivenBackType DEF Borrowed, TerminalIsBack, Back, program
    <2> QED BY <1>8, <2>2, <2>3 DEF CloseEvent, HeardClose
  <1>9. ASSUME NEW who \in Closer, Disconnected(who)
        PROVE  Borrowed'
    <2>1. UNCHANGED <<program, screen>> /\ closer[who].at = "machine"
      BY <1>9 DEF Disconnected, GoesOn
    <2>2. socket' = socket \/ (socket # "closed" /\ socket' # "closed")
      BY <1>9 DEF Disconnected
    <2>3. who # "main" => closer'["main"] = closer["main"]
      BY <1>0, <1>9 DEF Disconnected, EndingOK, Closer
    <2>4. closer'["main"].at # "none" => closer["main"].at # "none"
      BY <2>1, <2>3
    <2> QED BY <1>u, <2>1, <2>2, <2>4
  <1>10. ASSUME NEW who \in Closer, Closed(who)
         PROVE  Borrowed'
    <2>1. UNCHANGED <<oneShot, socket, tty>> /\ closer[who].at = "socket"
      BY <1>10 DEF Closed, line, screen
    <2>2. CASE who = "main"
      <3>1. main \in {"closing", "over"} /\ main' = "over"
        BY <1>10, <2>1, <2>2 DEF Closed, Borrowed
      <3> QED BY <2>1, <3>1 DEF Borrowed, TerminalIsBack, Back
    <2>3. CASE who # "main"
      <3>1. main' = main /\ closer'["main"] = closer["main"]
        BY <1>0, <1>10, <2>3 DEF Closed, EndingOK, Closer
      <3> QED BY <2>1, <3>1 DEF Borrowed, TerminalIsBack, Back
    <2> QED BY <2>2, <2>3
  <1>11. CASE Receive
    <2>1. socket # "closed" /\ socket' = socket /\ closer' = closer
      BY <1>11 DEF Receive, ending
    <2>2. CASE UNCHANGED <<program, screen>>
      BY <1>u, <2>1, <2>2
    <2>3. CASE Consume(Head(wire))
      BY <1>0, <2>1, <2>3, ConsumeBorrowed
    <2> QED BY <1>11, <2>2, <2>3 DEF Receive
  <1>12. CASE UNCHANGED vars
    BY <1>12, <1>u DEF vars, line, ending
  <1> QED BY <1>1, <1>2, <1>3, <1>4, <1>5, <1>6, <1>7, <1>8, <1>9, <1>10, <1>11, <1>12
          DEF Next, MainNext, CloseNext, AtRest

LEMMA BorrowedInit == Init => Borrowed
  BY DEF Init, Borrowed, TerminalIsBack, Back, Closer

(* The terminal is the user's own again once the session is over, also when   *)
(* the session ended before it was taken, when the connection broke or when a *)
(* key could not be sent; in one-shot mode it is never taken.                 *)
THEOREM TerminalGivenBack == Spec => []TerminalIsBack
  <1>1. Init => TypeOK /\ Borrowed
    BY InitTypes, BorrowedInit
  <1>2. TypeOK /\ Borrowed /\ [Next]_vars => (TypeOK /\ Borrowed)'
    BY StepTypes, BorrowedStep
  <1>3. TypeOK /\ Borrowed => TerminalIsBack
    BY DEF Borrowed
  <1> QED BY <1>1, <1>2, <1>3, PTL DEF Spec

-----------------------------------------------------------------------------
(* The output.                                                                *)

LEMMA NothingIn ==
  Quiet(<<>>) /\ ExitIsLast(<<>>) /\ \A k : ~Has(<<>>, k)
  BY DEF Quiet, ExitIsLast, Has

LEMMA AddedTo ==
  ASSUME NEW ms \in Seq(Message), NEW m \in Message
  PROVE  /\ Append(ms, m) \in Seq(Message)
         /\ \A k : Has(Append(ms, m), k) <=> Has(ms, k) \/ m.kind = k
         /\ Quiet(ms) /\ m.kind # "out" => Quiet(Append(ms, m))
         /\ ExitIsLast(ms) /\ (Has(ms, "exit") => m.kind # "out") => ExitIsLast(Append(ms, m))
  <1> DEFINE n == Len(ms)
             ns == Append(ms, m)
  <1>1. /\ n \in Nat /\ ns \in Seq(Message) /\ Len(ns) = n + 1 /\ ns[n + 1] = m
        /\ \A i \in 1..n : ns[i] = ms[i]
    OBVIOUS
  <1> HIDE DEF ns
  <1>2. \A k : Has(ns, k) <=> Has(ms, k) \/ m.kind = k
    <2>1. \A i \in 1..(n + 1) : i = n + 1 \/ i \in 1..n
      BY <1>1
    <2>2. n + 1 \in 1..(n + 1) /\ \A i \in 1..n : i \in 1..(n + 1)
      BY <1>1
    <2> QED BY <1>1, <2>1, <2>2 DEF Has
  <1>3. Quiet(ms) /\ m.kind # "out" => Quiet(ns)
    BY <1>1 DEF Quiet
  <1>4. ASSUME ExitIsLast(ms), Has(ms, "exit") => m.kind # "out"
        PROVE  ExitIsLast(ns)
    <2>1. SUFFICES ASSUME NEW i \in 1..Len(ns), NEW j \in 1..Len(ns), ns[i].kind = "exit", i < j
                   PROVE  ns[j].kind # "out"
      BY DEF ExitIsLast
    <2>2. i \in 1..n /\ ms[i].kind = "exit"
      BY <1>1, <2>1
    <2>3. CASE j = n + 1
      BY <1>1, <1>4, <2>2, <2>3 DEF Has
    <2>4. CASE j \in 1..n
      BY <1>1, <1>4, <2>1, <2>2, <2>4 DEF ExitIsLast
    <2> QED BY <1>1, <2>3, <2>4
  <1> QED BY <1>1, <1>2, <1>3, <1>4 DEF ns

LEMMA TakenOff ==
  ASSUME NEW ms \in Seq(Message), ms # <<>>
  PROVE  /\ Head(ms) \in Message /\ Tail(ms) \in Seq(Message)
         /\ Has(ms, Head(ms).kind)
         /\ \A k : Has(Tail(ms), k) => Has(ms, k)
         /\ Quiet(ms) => Quiet(Tail(ms)) /\ Head(ms).kind # "out"
         /\ ExitIsLast(ms) => ExitIsLast(Tail(ms))
         /\ ExitIsLast(ms) /\ Head(ms).kind = "exit" => Quiet(Tail(ms))
  <1> DEFINE n == Len(ms)
             t == Tail(ms)
  <1>1. /\ n \in Nat /\ n # 0 /\ t \in Seq(Message) /\ Len(t) = n - 1
        /\ Head(ms) = ms[1] /\ Head(ms) \in Message
        /\ \A i \in 1..(n - 1) : t[i] = ms[i + 1]
    OBVIOUS
  <1> HIDE DEF t
  <1>2. 1 \in 1..n /\ \A i \in 1..(n - 1) : i + 1 \in 1..n /\ 1 < i + 1
    BY <1>1
  <1>3. Has(ms, Head(ms).kind)
    BY <1>1, <1>2 DEF Has
  <1>4. \A k : Has(t, k) => Has(ms, k)
    BY <1>1, <1>2 DEF Has
  <1>5. Quiet(ms) => Quiet(t) /\ Head(ms).kind # "out"
    BY <1>1, <1>2 DEF Quiet
  <1>6. ExitIsLast(ms) => ExitIsLast(t)
    <2>1. \A i, j \in 1..(n - 1) : i < j => i + 1 < j + 1
      BY <1>1
    <2> QED BY <1>1, <1>2, <2>1 DEF ExitIsLast
  <1>7. ExitIsLast(ms) /\ Head(ms).kind = "exit" => Quiet(t)
    BY <1>1, <1>2 DEF ExitIsLast, Quiet
  <1> QED BY <1>1, <1>3, <1>4, <1>5, <1>6, <1>7 DEF t

LEMMA LeftBehind ==
  ASSUME NEW ms \in Seq(Message), NEW e \in 1..Len(ms)
  PROVE  LET rest == SubSeq(ms, e + 1, Len(ms)) IN
         /\ \A k : Has(rest, k) => Has(ms, k)
         /\ ExitIsLast(ms) => ExitIsLast(rest)
         /\ ExitIsLast(ms) /\ ms[e].kind = "exit" => Quiet(rest)
         /\ SubSeq(ms, 1, e) \in Seq(Message) /\ rest \in Seq(Message)
         /\ ms = SubSeq(ms, 1, e) \o rest
  <1> DEFINE n == Len(ms)
             rest == SubSeq(ms, e + 1, n)
  <1>0. n \in Nat /\ e \in Nat /\ e # 0 /\ e <= n
    OBVIOUS
  <1>1. /\ rest \in Seq(Message) /\ Len(rest) = n - e
        /\ \A i \in 1..(n - e) : rest[i] = ms[i + e]
    OBVIOUS
  <1>2. SubSeq(ms, 1, e) \in Seq(Message) /\ ms = SubSeq(ms, 1, e) \o rest
    <2>1. 1 \in 1..(Len(ms) + 1) /\ e \in (1 - 1)..Len(ms) /\ Len(ms) \in e..Len(ms)
      BY <1>0
    <2>2. SubSeq(ms, 1, e) \o SubSeq(ms, e + 1, Len(ms)) = SubSeq(ms, 1, Len(ms))
      BY <2>1, ConcatAdjacentSubSeq
    <2>3. SubSeq(ms, 1, Len(ms)) = ms /\ SubSeq(ms, 1, e) \in Seq(Message)
      BY <1>0
    <2> QED BY <2>2, <2>3
  <1> HIDE DEF rest, n
  <1>3. \A i \in 1..(n - e) : i + e \in 1..n /\ e < i + e
    BY <1>0
  <1>4. \A k : Has(rest, k) => Has(ms, k)
    BY <1>1, <1>3 DEF Has, n
  <1>5. ExitIsLast(ms) => ExitIsLast(rest)
    <2>1. \A i, j \in 1..(n - e) : i < j => i + e < j + e
      BY <1>0
    <2> QED BY <1>1, <1>3, <2>1 DEF ExitIsLast, n
  <1>6. ExitIsLast(ms) /\ ms[e].kind = "exit" => Quiet(rest)
    BY <1>1, <1>3 DEF ExitIsLast, Quiet, n
  <1> QED BY <1>1, <1>2, <1>4, <1>5, <1>6 DEF rest, n

(* The output on the screen, kept and on the way, one after another.          *)
There(sh, pe, wi) == sh \o Printed(pe) \o Printed(wi)

LEMMA SeenOne ==
  ASSUME NEW m \in Message
  PROVE  /\ Seen(<<>>, m) \in Seq(1..MaxOut)
         /\ m.kind = "out" => m.no \in 1..MaxOut /\ Seen(<<>>, m) = <<m.no>>
         /\ m.kind # "out" => Seen(<<>>, m) = <<>>
  <1>1. m.kind = "out" => m.no \in 1..MaxOut
    BY DEF Message
  <1>2. Seen(<<>>, m) \in Seq(1..MaxOut)
    BY <1>1, SeenType, Empties
  <1>3. m.kind = "out" => Seen(<<>>, m) = <<m.no>>
    BY DEF Seen
  <1>4. m.kind # "out" => Seen(<<>>, m) = <<>>
    BY DEF Seen
  <1> QED BY <1>1, <1>2, <1>3, <1>4

(* Concatenation does not depend on how it is grouped.                        *)
LEMMA Associates ==
  ASSUME NEW T, NEW a \in Seq(T), NEW b \in Seq(T), NEW c \in Seq(T)
  PROVE  a \o (b \o c) = (a \o b) \o c
  BY ConcatAssociative

Regroups(T) == \A a \in Seq(T) : \A b \in Seq(T) : \A c \in Seq(T) : \A d \in Seq(T) :
                   (a \o (b \o c)) \o d = (a \o b) \o (c \o d)

LEMMA Regroup == ASSUME NEW T PROVE Regroups(T)
  <1> SUFFICES ASSUME NEW a \in Seq(T), NEW b \in Seq(T), NEW c \in Seq(T), NEW d \in Seq(T)
               PROVE  (a \o (b \o c)) \o d = (a \o b) \o (c \o d)
    BY DEF Regroups
  <1>1. a \o b \in Seq(T)
    OBVIOUS
  <1>2. PICK u \in Seq(T) : u = a \o b
    BY ONLY <1>1, Zenon
  <1>3. u \o (c \o d) = (u \o c) \o d
    BY Associates
  <1>4. a \o (b \o c) = (a \o b) \o c
    BY Associates
  <1> QED BY ONLY <1>2, <1>3, <1>4, Zenon

LEMMA Kept ==
  ASSUME NEW sh \in Seq(1..MaxOut), NEW pe \in Seq(Message), NEW wi \in Seq(Message), wi # <<>>
  PROVE  There(sh, Append(pe, Head(wi)), Tail(wi)) = There(sh, pe, wi)
  <1> DEFINE m == Head(wi)
  <1>1. m \in Message /\ Tail(wi) \in Seq(Message)
    BY TakenOff
  <1>2. PICK T, p, s, t : /\ T = 1..MaxOut /\ p = Printed(pe) /\ s = Seen(<<>>, m)
                          /\ t = Printed(Tail(wi))
    OBVIOUS
  <1> HIDE DEF m
  <1>3. sh \in Seq(T) /\ p \in Seq(T) /\ s \in Seq(T) /\ t \in Seq(T)
    BY <1>1, <1>2, PrintedType, SeenOne
  <1>4. Printed(wi) = s \o t
    BY <1>2, PrintedHead DEF m
  <1>5. Printed(Append(pe, m)) = p \o s
    <2>1. m.kind = "out" => m.no \in T
      BY <1>1, <1>2, SeenOne
    <2>2. <<>> \in Seq(T) /\ p \o <<>> = p
      BY <1>3
    <2>3. Seen(p \o <<>>, m) = p \o Seen(<<>>, m)
      BY <1>1, <1>3, <2>1, <2>2, SeenConcat
    <2>4. Printed(Append(pe, m)) = Seen(p, m)
      BY <1>1, <1>2, PrintedAppend
    <2> QED BY <1>2, <2>2, <2>3, <2>4
  <1>6. (sh \o (p \o s)) \o t = (sh \o p) \o (s \o t)
    <2> HIDE DEF There
    <2>1. sh \in Seq(T) /\ p \in Seq(T) /\ s \in Seq(T) /\ t \in Seq(T)
      BY <1>3, Zenon
    <2>2. Regroups(T)
      BY ONLY Regroup
    <2>3. \A b \in Seq(T) : \A c \in Seq(T) : \A d \in Seq(T) :
             (sh \o (b \o c)) \o d = (sh \o b) \o (c \o d)
      BY ONLY <2>1, <2>2, Zenon DEF Regroups
    <2> QED BY ONLY <2>1, <2>3, Zenon
  <1> QED BY <1>2, <1>4, <1>5, <1>6 DEF There, m

LEMMA Passed ==
  ASSUME NEW wi \in Seq(Message), wi # <<>>, Head(wi).kind # "out"
  PROVE  Printed(Tail(wi)) = Printed(wi)
  <1>1. Head(wi) \in Message /\ Tail(wi) \in Seq(Message)
    BY TakenOff
  <1>2. Seen(<<>>, Head(wi)) = <<>>
    BY <1>1, SeenOne
  <1>3. Printed(Tail(wi)) \in Seq(1..MaxOut)
    BY <1>1, PrintedType
  <1>4. <<>> \o Printed(Tail(wi)) = Printed(Tail(wi))
    BY <1>3, ConcatEmptySeq
  <1> QED BY <1>2, <1>4, PrintedHead

LEMMA Displayed ==
  ASSUME NEW sh \in Seq(1..MaxOut), NEW wi \in Seq(Message), wi # <<>>, Head(wi).kind = "out"
  PROVE  There(Append(sh, Head(wi).no), <<>>, Tail(wi)) = There(sh, <<>>, wi)
  <1>1. Head(wi) \in Message /\ Tail(wi) \in Seq(Message)
    BY TakenOff
  <1>2. PICK T, e, t : T = 1..MaxOut /\ e = Head(wi).no /\ t = Printed(Tail(wi))
    OBVIOUS
  <1>3. sh \in Seq(T) /\ e \in T /\ t \in Seq(T) /\ Seen(<<>>, Head(wi)) = <<e>>
    BY <1>1, <1>2, PrintedType, SeenOne
  <1>4. Printed(wi) = <<e>> \o t
    BY <1>2, <1>3, PrintedHead
  <1>5. Append(sh, e) = sh \o <<e>> /\ <<e>> \in Seq(T) /\ Append(sh, e) \in Seq(T)
    BY <1>3, AppendIsConcat
  <1>6. (sh \o <<e>>) \o t = sh \o (<<e>> \o t)
    BY <1>3, <1>5, ConcatAssociative
  <1>7. sh \o <<>> = sh /\ Append(sh, e) \o <<>> = Append(sh, e)
    BY <1>3, <1>5, ConcatEmptySeq
  <1> QED BY <1>2, <1>4, <1>5, <1>6, <1>7, PrintedEmpty DEF There

LEMMA Flush ==
  ASSUME NEW sh \in Seq(1..MaxOut), NEW pe \in Seq(Message), NEW wi \in Seq(Message)
  PROVE  There(Flushed(sh, pe), <<>>, wi) = There(sh, pe, wi)
  <1>1. Printed(pe) \in Seq(1..MaxOut)
    BY PrintedType
  <1>2. sh \o Printed(pe) \in Seq(1..MaxOut)
    BY <1>1, ConcatProperties
  <1>3. (sh \o Printed(pe)) \o <<>> = sh \o Printed(pe)
    BY <1>2, ConcatEmptySeq
  <1> QED BY <1>3, PrintedEmpty DEF There, Flushed

(* With the end kept and nothing printed behind it, the flush up to the end   *)
(* shows it all.                                                              *)
LEMMA FlushToExit ==
  ASSUME NEW sh \in Seq(1..MaxOut), NEW pe \in Seq(Message), NEW wi \in Seq(Message),
         NEW e \in 1..Len(pe), pe[e].kind = "exit", ExitIsLast(pe), Quiet(wi)
  PROVE  Flushed(sh, SubSeq(pe, 1, e)) = There(sh, pe, wi)
  <1>1. PICK a, b : a = SubSeq(pe, 1, e) /\ b = SubSeq(pe, e + 1, Len(pe))
    OBVIOUS
  <1>2. a \in Seq(Message) /\ b \in Seq(Message) /\ pe = a \o b /\ Quiet(b)
    BY <1>1, LeftBehind
  <1>3. Printed(a) \in Seq(1..MaxOut) /\ sh \o Printed(a) \in Seq(1..MaxOut)
    BY <1>2, PrintedType, ConcatProperties
  <1>4. Printed(pe) = Printed(a)
    <2>1. Printed(pe) = Printed(a) \o Printed(b)
      BY <1>2, PrintedConcat
    <2>2. Printed(b) = <<>>
      BY <1>2, PrintedQuiet
    <2> QED BY <1>3, <2>1, <2>2, ConcatEmptySeq
  <1>5. Printed(wi) = <<>>
    BY PrintedQuiet
  <1>6. (sh \o Printed(a)) \o <<>> = sh \o Printed(a)
    BY <1>3, ConcatEmptySeq
  <1> QED BY <1>1, <1>4, <1>5, <1>6 DEF There, Flushed

LEMMA Sent ==
  ASSUME NEW sh \in Seq(1..MaxOut), NEW pe \in Seq(Message), NEW wi \in Seq(Message),
         NEW m \in Message
  PROVE  /\ m.kind # "out" => There(sh, pe, Append(wi, m)) = There(sh, pe, wi)
         /\ m.kind = "out" => There(sh, pe, Append(wi, m)) = Append(There(sh, pe, wi), m.no)
  <1>1. PICK T, p, w : T = 1..MaxOut /\ p = Printed(pe) /\ w = Printed(wi)
    OBVIOUS
  <1>2. sh \in Seq(T) /\ p \in Seq(T) /\ w \in Seq(T)
    BY <1>1, PrintedType
  <1>3. Printed(Append(wi, m)) = Seen(w, m)
    BY <1>1, PrintedAppend
  <1>4. CASE m.kind = "out"
    <2>1. PICK e \in T : e = m.no
      BY <1>1, <1>4, SeenOne
    <2>2. PICK u : u = sh \o p
      OBVIOUS
    <2>3. u \in Seq(T)
      BY <1>2, <2>2, ConcatProperties
    <2>4. u \o Append(w, e) = Append(u \o w, e)
      <3>1. Append(w, e) = w \o <<e>> /\ <<e>> \in Seq(T) /\ u \o w \in Seq(T)
        BY <1>2, <2>3, AppendIsConcat, ConcatProperties
      <3>2. u \o (w \o <<e>>) = (u \o w) \o <<e>>
        BY <1>2, <2>3, <3>1, ConcatAssociative
      <3>3. Append(u \o w, e) = (u \o w) \o <<e>>
        BY <3>1, AppendIsConcat
      <3> QED BY <3>1, <3>2, <3>3
    <2> QED BY <1>1, <1>3, <1>4, <2>1, <2>2, <2>4 DEF There, Seen
  <1>5. CASE m.kind # "out"
    BY <1>1, <1>3, <1>5 DEF There, Seen
  <1> QED BY <1>4, <1>5

LEMMA Numbers ==
  ASSUME NEW n \in Nat
  PROVE  /\ [i \in 1..0 |-> i] = <<>>
         /\ Append([i \in 1..n |-> i], n + 1) = [i \in 1..(n + 1) |-> i]
  <1>1. [i \in 1..0 |-> i] = <<>>
    OBVIOUS
  <1>2. PICK a, b : a = [i \in 1..n |-> i] /\ b = [i \in 1..(n + 1) |-> i]
    OBVIOUS
  <1>3. a \in Seq(Nat) /\ Len(a) = n /\ b \in Seq(Nat) /\ Len(b) = n + 1
    BY <1>2
  <1>4. Append(a, n + 1) \in Seq(Nat) /\ Len(Append(a, n + 1)) = n + 1
        /\ (\A i \in 1..n : Append(a, n + 1)[i] = a[i]) /\ Append(a, n + 1)[n + 1] = n + 1
    BY <1>3
  <1>5. \A i \in 1..(n + 1) : Append(a, n + 1)[i] = b[i]
    BY <1>2, <1>4
  <1>6. Append(a, n + 1) = b
    BY <1>3, <1>4, <1>5, SeqEqual
  <1> QED BY <1>1, <1>2, <1>6

WholeInv == Unborn /\ Exits /\ Whole

(* A step that moves none of the messages and shows nothing.                  *)
LEMMA WholeStays ==
  ASSUME WholeInv, UNCHANGED <<wire, cut, pending, shown, session>>,
         \/ UNCHANGED <<main, outcome>>
         \/ main \in Early /\ main' \in Early /\ UNCHANGED outcome
         \/ main' \in Gone /\ outcome' \in {outcome, "error"}
  PROVE  WholeInv'
  <1>1. Outs' = Outs
    BY DEF Outs
  <1>2. Exits'
    BY DEF WholeInv, Exits
  <1>3. Unborn'
    BY DEF WholeInv, Unborn, Early, Gone
  <1>4. main' \in Waiting => main' = main
    BY DEF Early, Gone, Waiting
  <1>5. outcome' # "none" => main' \in Gone
    BY DEF WholeInv, Whole, Early, Gone
  <1>6. main' = "passing" => main = "passing"
    BY <1>4 DEF Waiting
  <1>7. outcome' = "exit" => outcome = "exit"
    OBVIOUS
  <1>8. Whole'
    BY <1>1, <1>4, <1>5, <1>6, <1>7 DEF WholeInv, Whole
  <1> QED BY <1>2, <1>3, <1>8 DEF WholeInv

(* The server sends something that is no output.                              *)
LEMMA WholeSend ==
  ASSUME TypeOK, WholeInv, NEW m \in Message, m.kind # "out", Send(m), ~cut,
         UNCHANGED <<program, screen>>, session'.outs = session.outs,
         session'.asked = session.asked,
         session'.life = session.life \/ (session'.life = "ended" /\ session.asked),
         m.kind = "exit" => session'.life = "ended"
  PROVE  WholeInv'
  <1>0. /\ wire \in Seq(Message) /\ pending \in Seq(Message) /\ shown \in Seq(1..MaxOut)
        /\ wire' = Append(wire, m) /\ cut' = cut /\ pending' = pending /\ shown' = shown
        /\ main' = main /\ outcome' = outcome
    BY DEF TypeOK, Send, program, screen
  <1>1. PICK w : w = Append(wire, m)
    OBVIOUS
  <1>2. /\ \A k : Has(w, k) <=> Has(wire, k) \/ m.kind = k
        /\ Quiet(wire) => Quiet(w)
        /\ ExitIsLast(wire) => ExitIsLast(w)
    BY <1>0, <1>1, AddedTo
  <1>3. There(shown, pending, w) = There(shown, pending, wire)
    BY <1>0, <1>1, Sent
  <1>4. Outs' = Outs
    BY DEF Outs
  <1>5. Unborn'
    BY <1>0, <1>1, <1>2 DEF WholeInv, Unborn
  <1>6. Exits'
    BY <1>0, <1>1, <1>2 DEF WholeInv, Exits
  <1>7. Whole'
    BY <1>0, <1>1, <1>3, <1>4 DEF WholeInv, Whole, There
  <1> QED BY <1>5, <1>6, <1>7 DEF WholeInv

LEMMA WholePrints ==
  ASSUME TypeOK, WholeInv, ServerPrints
  PROVE  WholeInv'
  <1>0. /\ wire \in Seq(Message) /\ pending \in Seq(Message) /\ shown \in Seq(1..MaxOut)
        /\ session \in Sessions /\ session.life = "runs" /\ session.outs < MaxOut /\ ~cut
        /\ cut' = cut /\ pending' = pending /\ shown' = shown /\ main' = main /\ outcome' = outcome
    BY TypeParts DEF TypeOK, ServerOK, ServerPrints, CanSend, Send, program, screen
  <1>1. PICK n : n = session.outs
    OBVIOUS
  <1>2. n \in Nat /\ n + 1 \in 1..MaxOut /\ session' = [session EXCEPT !.outs = n + 1]
    <2>1. n \in Nat
      BY <1>0, <1>1, ProcessBounds DEF Sessions
    <2>2. n + 1 \in 1..MaxOut
      BY <1>0, <1>1, SessionBecomes
    <2>3. session' = [session EXCEPT !.outs = n + 1]
      BY <1>1 DEF ServerPrints
    <2> QED BY <2>1, <2>2, <2>3
  <1>3. session'.outs = n + 1 /\ session'.life = "runs" /\ session'.asked = session.asked
    BY <1>0, <1>2 DEF Sessions
  <1>4. PICK m \in Message : m = [kind |-> "out", no |-> n + 1]
    BY <1>2, SaysAreMessages
  <1>5. PICK w : w = Append(wire, m)
    OBVIOUS
  <1>6. wire' = w
    BY <1>1, <1>4, <1>5 DEF ServerPrints, Send
  <1>7. ~Has(pending, "exit") /\ ~Has(wire, "exit")
    BY <1>0 DEF WholeInv, Exits
  <1>8. ~Has(w, "exit") /\ (ExitIsLast(wire) => ExitIsLast(w))
    BY <1>0, <1>4, <1>5, <1>7, AddedTo
  <1>9. There(shown, pending, w) = Append(There(shown, pending, wire), n + 1)
    BY <1>0, <1>4, <1>5, Sent
  <1>10. Outs' = Append(Outs, n + 1)
    BY <1>1, <1>2, <1>3, Numbers DEF Outs
  <1>11. Unborn'
    BY <1>0, <1>3 DEF WholeInv, Unborn
  <1>12. Exits'
    BY <1>0, <1>6, <1>7, <1>8 DEF WholeInv, Exits
  <1>13. outcome # "exit"
    BY <1>0 DEF WholeInv, Whole
  <1>14. Whole'
    BY <1>0, <1>6, <1>9, <1>10, <1>13 DEF WholeInv, Whole, There
  <1> QED BY <1>11, <1>12, <1>14 DEF WholeInv

LEMMA WholeServer ==
  ASSUME TypeOK, WholeInv, ServerNext
  PROVE  WholeInv'
  <1>0. session \in Sessions
    BY TypeParts DEF ServerOK
  <1>1. CASE ServerStarts
    <2>1. /\ UNCHANGED <<main, outcome, wire, cut, pending, shown>> /\ session.asked
          /\ session.life = "none" /\ session' = [session EXCEPT !.life = "runs"]
      BY <1>1 DEF ServerStarts, program, line, screen
    <2>2. session'.outs = session.outs /\ session'.asked = session.asked /\ session'.life = "runs"
      BY <1>0, <2>1 DEF Sessions
    <2>3. Outs' = Outs
      BY <2>2 DEF Outs
    <2>4. Unborn'
      BY <2>1, <2>2 DEF WholeInv, Unborn
    <2>5. Exits'
      BY <2>1, <2>2 DEF WholeInv, Exits
    <2>6. Whole'
      BY <2>1, <2>2, <2>3 DEF WholeInv, Whole
    <2> QED BY <2>4, <2>5, <2>6 DEF WholeInv
  <1>2. CASE ServerTells
    <2>1. session'.outs = session.outs /\ session'.asked = session.asked
          /\ session'.life = session.life
      BY <1>0, <1>2 DEF ServerTells, Sessions
    <2>2. Say("created") \in Message /\ Say("created").kind = "created"
      BY SaysAreMessages
    <2>3. Send(Say("created")) /\ ~cut /\ UNCHANGED <<program, screen>>
      BY <1>2 DEF ServerTells, CanSend
    <2> QED BY <2>1, <2>2, <2>3, WholeSend
  <1>3. CASE ServerPrints
    BY <1>3, WholePrints
  <1>4. CASE SessionEnds
    <2>0. session.asked
      BY <1>4 DEF SessionEnds, WholeInv, Unborn
    <2>1. session'.outs = session.outs /\ session'.asked = session.asked
          /\ session'.life = "ended"
      BY <1>0, <1>4 DEF SessionEnds, Sessions
    <2>2. Say("exit") \in Message /\ Say("exit").kind = "exit"
      BY SaysAreMessages
    <2>3. Send(Say("exit")) /\ ~cut /\ UNCHANGED <<program, screen>>
      BY <1>4 DEF SessionEnds, CanSend
    <2> QED BY <2>0, <2>1, <2>2, <2>3, WholeSend
  <1>5. CASE ServerFails
    <2>1. session'.outs = session.outs /\ session'.asked = session.asked
          /\ session'.life = "ended" /\ session.asked
      BY <1>0, <1>5 DEF ServerFails, Sessions
    <2>2. Say("error") \in Message /\ Say("error").kind = "error"
      BY SaysAreMessages
    <2>3. Send(Say("error")) /\ ~cut /\ UNCHANGED <<program, screen>>
      BY <1>5 DEF ServerFails, CanSend
    <2> QED BY <2>1, <2>2, <2>3, WholeSend
  <1>6. CASE ServerAssigns
    <2>1. PICK r \in Cache : Send(Say(r))
      BY <1>6 DEF ServerAssigns
    <2>2. Say(r) \in Message /\ Say(r).kind = r /\ r # "out" /\ r # "exit"
      BY SaysAreMessages DEF Cache
    <2>3. ~cut /\ UNCHANGED <<program, screen, session>>
      BY <1>6 DEF ServerAssigns, CanSend
    <2>4. PICK m \in Message : m = Say(r)
      BY <2>2
    <2> QED BY <2>1, <2>2, <2>3, <2>4, WholeSend
  <1>7. CASE SocketCloses
    <2>1. UNCHANGED <<main, outcome, pending, shown, session>>
      BY <1>7 DEF SocketCloses, program, screen, server
    <2>2. CASE UNCHANGED <<wire, cut>>
      BY <2>1, <2>2, WholeStays
    <2>3. CASE wire # <<>> /\ wire' = <<>> /\ cut' = TRUE
      <3>1. ~cut
        BY <2>3 DEF WholeInv, Whole
      <3>2. Unborn'
        BY <2>1, <2>3, NothingIn DEF WholeInv, Unborn
      <3>3. Exits'
        BY <2>1, <2>3, NothingIn DEF WholeInv, Exits
      <3>4. Has(pending, "exit") => Printed(wire) = <<>>
        BY PrintedQuiet DEF WholeInv, Exits, TypeOK
      <3>5. Outs' = Outs
        BY <2>1 DEF Outs
      <3>6. Whole'
        BY <2>1, <2>3, <3>1, <3>4, <3>5, PrintedEmpty DEF WholeInv, Whole
      <3> QED BY <3>2, <3>3, <3>6 DEF WholeInv
    <2> QED BY <1>7, <2>2, <2>3 DEF SocketCloses
  <1> QED BY <1>1, <1>2, <1>3, <1>4, <1>5, <1>6, <1>7 DEF ServerNext

-----------------------------------------------------------------------------
(* The output at the client.                                                  *)

LEMMA WholeCreated ==
  ASSUME TypeOK, WholeInv, Created
  PROVE  WholeInv'
  <1>1. CASE Fail /\ UNCHANGED <<pending, session>>
    <2>1. UNCHANGED <<wire, cut, pending, shown, session>> /\ main' \in Gone /\ outcome' = "error"
      BY <1>1 DEF Created, Fail, Gone, line
    <2> QED BY <2>1, WholeStays
  <1>2. CASE main' = "awaiting" /\ pending' = <<>>
             /\ session' = [session EXCEPT !.asked = TRUE] /\ UNCHANGED outcome
    <2>1. UNCHANGED <<wire, cut, shown>> /\ main = "creating"
      BY <1>2 DEF Created, line
    <2>2. session'.life = session.life /\ session'.outs = session.outs /\ session'.asked
      BY <1>2, TypeParts DEF ServerOK, Sessions
    <2>3. session.life = "none" /\ session.outs = 0 /\ shown = <<>> /\ Quiet(wire)
      BY <2>1 DEF WholeInv, Unborn, Early
    <2>4. wire \in Seq(Message)
      BY DEF TypeOK
    <2>5. Printed(wire) = <<>>
      BY <2>3, <2>4, PrintedQuiet
    <2>6. Outs' = <<>>
      BY <2>2, <2>3, Numbers DEF Outs
    <2>7. <<>> \o <<>> \o <<>> = <<>>
      OBVIOUS
    <2>8. ~Has(wire, "exit")
      BY <2>3 DEF WholeInv, Exits
    <2>9. outcome # "exit"
      BY <2>3 DEF WholeInv, Whole
    <2>10. Unborn'
      BY <1>2, <2>1, <2>2, <2>3 DEF Unborn, Early
    <2>11. Exits'
      BY <1>2, <2>1, <2>8, NothingIn DEF WholeInv, Exits
    <2>12. outcome' = "none" \/ main' \in Gone
      BY <1>2, <2>1 DEF WholeInv, Whole, Gone
    <2>13. Whole'
      BY <1>2, <2>1, <2>3, <2>5, <2>6, <2>7, <2>9, <2>12, PrintedEmpty DEF WholeInv, Whole
    <2> QED BY <2>10, <2>11, <2>13 DEF WholeInv
  <1> QED BY <1>1, <1>2 DEF Created

LEMMA WholeAttached ==
  ASSUME TypeOK, WholeInv, Attached
  PROVE  WholeInv'
  <1>0. /\ wire \in Seq(Message) /\ pending \in Seq(Message) /\ shown \in Seq(1..MaxOut)
        /\ main = "created" /\ outcome = "none"
        /\ UNCHANGED <<wire, cut, session>>
    BY DEF TypeOK, Attached, line, server, WholeInv, Whole, Gone
  <1>1. PICK end : end = SelectInSeq(pending, LAMBDA m : m.kind \in Over)
    OBVIOUS
  <1>2. /\ end = 0 => \A i \in 1..Len(pending) : pending[i].kind \notin Over
        /\ end # 0 => end \in 1..Len(pending) /\ pending[end].kind \in Over
    BY <1>0, <1>1, EndIs
  <1>3. Outs' = Outs
    BY <1>0 DEF Outs
  <1>4. CASE /\ end = 0
             /\ main' = "passing" /\ pending' = <<>>
             /\ shown' = Flushed(shown, pending)
             /\ UNCHANGED outcome
    <2>1. ~Has(pending, "exit")
      BY <1>2, <1>4 DEF Has, Over
    <2>2. There(shown', <<>>, wire) = There(shown, pending, wire)
      BY <1>0, <1>4, Flush
    <2>3. Unborn'
      BY <1>0, <1>4 DEF WholeInv, Unborn, Early
    <2>4. Exits'
      BY <1>0, <1>4, NothingIn DEF WholeInv, Exits
    <2>5. Whole'
      BY <1>0, <1>3, <1>4, <2>1, <2>2, NothingIn DEF WholeInv, Whole, Waiting, There
    <2> QED BY <2>3, <2>4, <2>5 DEF WholeInv
  <1>5. CASE /\ end # 0
             /\ main' = "leaving" /\ outcome' = pending[end].kind
             /\ pending' = SubSeq(pending, end + 1, Len(pending))
             /\ shown' = Flushed(shown, SubSeq(pending, 1, end))
    <2>1. PICK rest : rest = SubSeq(pending, end + 1, Len(pending))
      OBVIOUS
    <2>2. Has(rest, "exit") => Has(pending, "exit")
      BY <1>0, <1>2, <1>5, <2>1, LeftBehind
    <2>3. ExitIsLast(pending) => ExitIsLast(rest)
      BY <1>0, <1>2, <1>5, <2>1, LeftBehind
    <2>4. Exits'
      BY <1>0, <1>5, <2>1, <2>2, <2>3 DEF WholeInv, Exits
    <2>5. Unborn'
      BY <1>0, <1>5 DEF WholeInv, Unborn, Early
    <2>6. ASSUME pending[end].kind = "exit"
          PROVE  shown' = Outs /\ session.life = "ended"
      <3>1. Has(pending, "exit") /\ end \in 1..Len(pending)
        BY <1>2, <1>5, <2>6 DEF Has
      <3>2. ExitIsLast(pending) /\ Quiet(wire) /\ session.life = "ended"
        BY <3>1 DEF WholeInv, Exits
      <3>3. shown' = There(shown, pending, wire)
        BY <1>0, <1>5, <2>6, <3>1, <3>2, FlushToExit
      <3>4. There(shown, pending, wire) = Outs
        BY <1>0, <3>1 DEF WholeInv, Whole, Waiting, There
      <3> QED BY <3>2, <3>3, <3>4
    <2>7. Whole'
      BY <1>0, <1>3, <1>5, <2>6 DEF WholeInv, Whole, Waiting, Gone
    <2> QED BY <2>4, <2>5, <2>7 DEF WholeInv
  <1> QED BY <1>1, <1>4, <1>5 DEF Attached

LEMMA WholeReceive ==
  ASSUME TypeOK, WholeInv, Receive
  PROVE  WholeInv'
  <1>0. /\ wire \in Seq(Message) /\ pending \in Seq(Message) /\ shown \in Seq(1..MaxOut)
        /\ wire # <<>> /\ wire' = Tail(wire) /\ UNCHANGED <<cut, session>>
    BY DEF TypeOK, Receive, server
  <1>1. PICK m, t : m = Head(wire) /\ t = Tail(wire)
    OBVIOUS
  <1>2. /\ m \in Message /\ t \in Seq(Message) /\ Has(wire, m.kind)
        /\ \A k : Has(t, k) => Has(wire, k)
        /\ Quiet(wire) => Quiet(t) /\ m.kind # "out"
        /\ ExitIsLast(wire) => ExitIsLast(t)
        /\ ExitIsLast(wire) /\ m.kind = "exit" => Quiet(t)
    BY <1>0, <1>1, TakenOff
  <1>3. Outs' = Outs /\ ~cut
    BY <1>0 DEF Outs, WholeInv, Whole
  <1>4. (session.life = "none" => session.outs = 0 /\ Quiet(wire))'
    BY <1>0, <1>1, <1>2 DEF WholeInv, Unborn
  <1>5. (Has(wire, "exit") => session.life = "ended")' /\ ExitIsLast(wire')
    BY <1>0, <1>1, <1>2 DEF WholeInv, Exits
  <1>e. ASSUME pending' = pending
        PROVE  Exits'
    BY <1>0, <1>1, <1>2, <1>5, <1>e DEF WholeInv, Exits
  <1>p. m.kind # "out" => Printed(t) = Printed(wire)
    BY <1>0, <1>1, Passed
  (* A message that shows nothing and is for nobody who waits.                *)
  <1>6. ASSUME UNCHANGED <<outcome, pending, shown>>,
               \/ main' = main /\ m.kind # "out"
               \/ main' = main /\ main \notin Waiting
               \/ main = "awaiting" /\ main' = "created" /\ m.kind # "out"
        PROVE  WholeInv'
    <2>1. Unborn'
      BY <1>0, <1>4, <1>6 DEF WholeInv, Unborn, Early
    <2>2. main' \in Waiting => main \in Waiting /\ m.kind # "out"
      BY <1>6 DEF Waiting
    <2>3. main' \in Gone <=> main \in Gone
      BY <1>6 DEF Gone
    <2>4. main' = "passing" => main = "passing"
      BY <1>6
    <2>5. Whole'
      BY <1>0, <1>1, <1>3, <1>6, <1>p, <2>2, <2>3, <2>4 DEF WholeInv, Whole
    <2> QED BY <1>e, <1>6, <2>1, <2>5 DEF WholeInv
  <1>7. CASE main = "passing" /\ m.kind = "out" /\ shown' = Append(shown, m.no)
             /\ UNCHANGED <<program, pending, tty>>
    <2>1. pending = <<>> /\ main' = main /\ outcome' = outcome /\ outcome = "none" /\ pending' = pending
      BY <1>7 DEF WholeInv, Whole, program, Gone
    <2>2. There(shown', <<>>, t) = There(shown, <<>>, wire)
      BY <1>0, <1>1, <1>7, Displayed
    <2>3. Unborn'
      BY <1>0, <1>4, <1>7, <2>1 DEF WholeInv, Unborn, Early
    <2>4. Whole'
      BY <1>0, <1>1, <1>3, <1>7, <2>1, <2>2 DEF WholeInv, Whole, There, Waiting
    <2> QED BY <1>e, <2>1, <2>3, <2>4 DEF WholeInv
  <1>8. CASE /\ \/ main = "passing" /\ m.kind \in Over
                \/ main = "awaiting" /\ m.kind = "error"
             /\ Finish(m.kind)
             /\ UNCHANGED <<pending, shown>>
    <2>1. main' = "leaving" /\ outcome' = m.kind /\ pending' = pending /\ shown' = shown
      BY <1>8 DEF Finish
    <2>2. Unborn'
      BY <1>0, <1>4, <2>1 DEF WholeInv, Unborn, Early
    <2>3. ASSUME m.kind = "exit"
          PROVE  shown = Outs /\ session.life = "ended"
      <3>1. main = "passing" /\ pending = <<>> /\ session.life = "ended"
        BY <1>2, <1>8, <2>3 DEF WholeInv, Whole, Exits
      <3>2. Quiet(t) /\ Printed(t) = Printed(wire)
        BY <1>2, <1>p, <2>3 DEF WholeInv, Exits
      <3>3. Printed(wire) = <<>>
        BY <1>2, <3>2, PrintedQuiet
      <3>4. shown \o <<>> \o <<>> = shown
        BY <1>0, ConcatEmptySeq
      <3>5. shown \o Printed(pending) \o Printed(wire) = Outs
        BY <1>3, <3>1 DEF WholeInv, Whole, Waiting
      <3> QED BY <3>1, <3>3, <3>4, <3>5, PrintedEmpty
    <2>4. Whole'
      BY <1>0, <1>3, <2>1, <2>3 DEF Whole, Waiting, Gone
    <2> QED BY <1>e, <2>1, <2>2, <2>4 DEF WholeInv
  <1>9. CASE /\ \/ main \notin {"awaiting", "passing"}
                \/ main = "awaiting" /\ m.kind \in {"out", "exit"}
             /\ pending' = Append(pending, m)
             /\ UNCHANGED <<program, shown, tty>>
    <2>1. main' = main /\ outcome' = outcome /\ shown' = shown /\ main # "passing"
      BY <1>9 DEF program
    <2>2. PICK q : q = Append(pending, m)
      OBVIOUS
    <2>3. /\ Has(q, "exit") <=> Has(pending, "exit") \/ m.kind = "exit"
          /\ ExitIsLast(pending) /\ (Has(pending, "exit") => m.kind # "out") => ExitIsLast(q)
      BY <1>0, <1>2, <2>2, AddedTo
    <2>4. There(shown, q, t) = There(shown, pending, wire)
      BY <1>0, <1>1, <2>2, Kept
    <2>5. Has(pending, "exit") => session.life = "ended" /\ Quiet(t) /\ m.kind # "out"
      BY <1>2 DEF WholeInv, Exits
    <2>6. m.kind = "exit" => session.life = "ended" /\ Quiet(t)
      BY <1>2 DEF WholeInv, Exits
    <2>7. Exits'
      BY <1>0, <1>1, <1>5, <1>9, <2>2, <2>3, <2>5, <2>6 DEF WholeInv, Exits
    <2>8. Unborn'
      BY <1>0, <1>4, <2>1 DEF WholeInv, Unborn
    <2>9. Whole'
      BY <1>0, <1>1, <1>3, <1>9, <2>1, <2>2, <2>4 DEF WholeInv, Whole, There
    <2> QED BY <2>7, <2>8, <2>9 DEF WholeInv
  <1>10. CASE UNCHANGED <<program, screen>> /\ (main = "opening" \/ m.kind \in Cache)
    <2>1. UNCHANGED <<outcome, pending, shown, main>>
      BY <1>10 DEF program, screen
    <2> QED BY <1>6, <1>10, <2>1 DEF Cache, Waiting
  <1>11. CASE Consume(m)
    <2>1. CASE main = "awaiting" /\ m.kind = "created" /\ main' = "created"
               /\ UNCHANGED <<oneShot, cacheOn, outcome, screen>>
      BY <1>6, <2>1 DEF screen
    <2>2. CASE m.kind # "out" /\ UNCHANGED <<program, screen>>
      BY <1>6, <2>2 DEF program, screen
    <2> QED BY <1>7, <1>8, <1>9, <1>11, <2>1, <2>2 DEF Consume
  <1> QED BY <1>1, <1>10, <1>11 DEF Receive

LEMMA WholeStep ==
  ASSUME TypeOK, WholeInv, [Next]_vars
  PROVE  WholeInv'
  <1>s. ASSUME UNCHANGED <<wire, cut, pending, shown, session>>,
               \/ UNCHANGED <<main, outcome>>
               \/ main \in Early /\ main' \in Early /\ UNCHANGED outcome
               \/ main' \in Gone /\ outcome' \in {outcome, "error"}
        PROVE  WholeInv'
    BY <1>s, WholeStays
  <1>1. CASE ServerNext
    BY <1>1, WholeServer
  <1>2. CASE TaskNext \/ SyncFails \/ TaskRefused \/ HeartbeatFails \/ ForcedExit \/ ProcessExits
             \/ Interrupt
    <2>1. UNCHANGED <<program, line, screen, session>>
      BY <1>2 DEF TaskNext, HandlerResumes, WatcherStarts, Synced, SyncReported, FaultReported,
                  WatcherStops, SyncFails, TaskRefused, HeartbeatFails, ForcedExit, ProcessExits,
                  Interrupt, server
    <2> QED BY <1>s, <2>1 DEF program, line, screen
  <1>3. CASE Opened \/ Greeted \/ Prepared
    <2>1. UNCHANGED <<line, screen, session>>
      BY <1>3 DEF Opened, Greeted, Prepared, server
    <2>2. \/ main \in Early /\ main' \in Early /\ UNCHANGED outcome
          \/ main' = "leaving" /\ outcome' = "error"
      BY <1>3 DEF Opened, Greeted, Prepared, Fail, Early
    <2> QED BY <1>s, <2>1, <2>2 DEF line, screen, Gone
  <1>4. CASE Created
    BY <1>4, WholeCreated
  <1>5. CASE Attached
    BY <1>5, WholeAttached
  <1>6. CASE KeyFails
    <2>1. UNCHANGED <<line, pending, shown, session>>
      BY <1>6 DEF KeyFails, server
    <2>2. UNCHANGED <<main, outcome>> \/ (main' = "leaving" /\ outcome' = "error")
      BY <1>6 DEF KeyFails, Fail
    <2> QED BY <1>s, <2>1, <2>2 DEF line, Gone
  <1>7. CASE Leave
    <2>1. UNCHANGED <<outcome, line, screen, session>> /\ main' = "closing"
      BY <1>7 DEF Leave, server
    <2> QED BY <1>s, <2>1 DEF line, screen, Gone
  <1>8. CASE CloseEvent
    <2>1. UNCHANGED <<wire, cut, pending, shown, session>>
      BY <1>8 DEF CloseEvent, server
    <2>2. UNCHANGED <<main, outcome>> \/ (main' = "leaving" /\ outcome' = "error")
      BY <1>8 DEF CloseEvent, HeardClose, Finish, program
    <2> QED BY <1>s, <2>1, <2>2 DEF Gone
  <1>9. ASSUME NEW who \in Closer, Disconnected(who)
        PROVE  WholeInv'
    <2>1. UNCHANGED <<program, wire, cut, screen, session>>
      BY <1>9 DEF Disconnected, server
    <2> QED BY <1>s, <2>1 DEF program, screen
  <1>10. ASSUME NEW who \in Closer, Closed(who)
         PROVE  WholeInv'
    <2>1. UNCHANGED <<outcome, line, screen, session>> /\ (main' = main \/ main' = "over")
      BY <1>10 DEF Closed, server
    <2> QED BY <1>s, <2>1 DEF line, screen, Gone
  <1>11. CASE Receive
    BY <1>11, WholeReceive
  <1>12. CASE UNCHANGED vars
    BY <1>12, <1>s DEF vars, program, line, screen, server
  <1> QED BY <1>1, <1>2, <1>3, <1>4, <1>5, <1>6, <1>7, <1>8, <1>9, <1>10, <1>11, <1>12
          DEF Next, MainNext, CloseNext, AtRest

LEMMA WholeInit == Init => WholeInv
  <1> SUFFICES ASSUME Init PROVE WholeInv
    OBVIOUS
  <1>1. PICK w : w = <<Say("connected")>>
    OBVIOUS
  <1>2. Quiet(w) /\ ~Has(w, "exit") /\ ExitIsLast(w)
    <2>1. Len(w) = 1 /\ w[1].kind = "connected"
      BY <1>1, SaysAreMessages
    <2> QED BY <2>1 DEF Quiet, Has, ExitIsLast
  <1>3. Unborn
    BY <1>1, <1>2 DEF Init, Unborn
  <1>4. Exits
    BY <1>1, <1>2, NothingIn DEF Init, Exits
  <1>5. Whole
    BY DEF Init, Whole, Waiting
  <1> QED BY <1>3, <1>4, <1>5 DEF WholeInv

(* The session's output reaches the terminal whole and in order, what came    *)
(* before the program listened for it and what was under way when the session *)
(* ended included.                                                            *)
THEOREM WholeOutput == Spec => []OutputIsWhole
  <1>1. Init => TypeOK /\ WholeInv
    BY InitTypes, WholeInit
  <1>2. TypeOK /\ WholeInv /\ [Next]_vars => (TypeOK /\ WholeInv)'
    BY StepTypes, WholeStep
  <1>3. TypeOK /\ WholeInv => OutputIsWhole
    BY DEF WholeInv, Whole, OutputIsWhole, Waiting
  <1> QED BY <1>1, <1>2, <1>3, PTL DEF Spec
=============================================================================
