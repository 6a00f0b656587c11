------------------------- MODULE ConfigurationProofs -------------------------
(***************************************************************************)
(* Theorems about Configuration, for any files, settings and passwords.    *)
(* What merge_ini makes of a file is proved by induction on its lines: a   *)
(* set of sequences that has the empty one, and with each the longer ones, *)
(* has them all.                                                           *)
(***************************************************************************)
EXTENDS Configuration, TLAPS, WellFoundedInduction

-----------------------------------------------------------------------------
(* Induction *)

LEMMA LeastOf ==
  ASSUME NEW T \in SUBSET Nat, T # {}
  PROVE  \E n \in T : \A m \in T : n <= m
<1>1. IsWellFoundedOn(OpToRel(<, Nat), Nat)
  BY NatLessThanWellFounded
<1>2. PICK n \in T : \A m \in T : ~(<<m, n>> \in OpToRel(<, Nat))
  BY <1>1, WFMin
<1>3. \A m \in T : ~(m < n)
  BY <1>2 DEF OpToRel
<1> QED BY <1>3

LEMMA RangeInduction ==
  ASSUME NEW n \in Nat, NEW T, 0 \in T, \A i \in 1 .. n : i - 1 \in T => i \in T
  PROVE  \A i \in 0 .. n : i \in T
<1> DEFINE R == {i \in 0 .. n : i \notin T}
<1>1. SUFFICES ASSUME R # {} PROVE FALSE
  OBVIOUS
<1>2. PICK i \in R : \A j \in R : i <= j
  <2>1. R \in SUBSET Nat
    OBVIOUS
  <2> HIDE DEF R
  <2> QED BY <1>1, <2>1, LeastOf
<1>3. i # 0 /\ i \in 0 .. n
  OBVIOUS
<1>4. i - 1 \in 0 .. n /\ i - 1 \notin R
  BY <1>2, <1>3
<1> QED BY <1>3, <1>4

LEMMA SequenceInduction ==
  ASSUME NEW S, NEW T, <<>> \in T, \A s \in Seq(S), e \in S : s \in T => Append(s, e) \in T
  PROVE  \A s \in Seq(S) : s \in T
<1> DEFINE N == {n \in Nat : \E s \in Seq(S) : Len(s) = n /\ s \notin T}
<1>1. SUFFICES ASSUME N # {} PROVE FALSE
  OBVIOUS
<1>2. PICK n \in N : \A m \in N : n <= m
  <2>1. N \in SUBSET Nat
    OBVIOUS
  <2> HIDE DEF N
  <2> QED BY <1>1, <2>1, LeastOf
<1>3. PICK s \in Seq(S) : Len(s) = n /\ s \notin T
  OBVIOUS
<1>4. n \in Nat /\ n # 0
  <2>1. Len(s) = 0 => s = <<>>
    OBVIOUS
  <2> QED BY <1>3, <2>1
<1> DEFINE front == [i \in 1 .. n - 1 |-> s[i]]
<1>5. front \in Seq(S) /\ Len(front) = n - 1 /\ s[n] \in S
  BY <1>3, <1>4
<1>6. s = Append(front, s[n])
  BY <1>3, <1>4, <1>5
<1>7. front \in T
  <2>1. n - 1 \notin N
    BY <1>2, <1>4
  <2> QED BY <1>4, <1>5, <2>1
<1> HIDE DEF front
<1> QED BY <1>3, <1>5, <1>6, <1>7

\* What steps on a set make of a sequence, after each of its elements.
Repeats(f, D, step, b, s) ==
  /\ f[0] = b /\ \A i \in 0 .. Len(s) : f[i] \in D
  /\ \A i \in 1 .. Len(s) : f[i] = step[s[i]][f[i - 1]]

LEMMA Repeated ==
  ASSUME NEW S, NEW D, NEW step \in [S -> [D -> D]], NEW b \in D, NEW s \in Seq(S)
  PROVE  \E f \in [0 .. Len(s) -> D] : Repeats(f, D, step, b, s)
<1> DEFINE n == Len(s)
           Is(f, m) == f[0] = b /\ \A i \in 1 .. m : f[i] = step[s[i]][f[i - 1]]
           T == {m \in 0 .. n : \E f \in [0 .. m -> D] : Is(f, m)}
<1>1. n \in Nat /\ \A i \in 1 .. n : s[i] \in S
  OBVIOUS
<1> HIDE DEF n
<1>2. 0 \in T
  <2>1. [i \in 0 .. 0 |-> b] \in [0 .. 0 -> D] /\ Is([i \in 0 .. 0 |-> b], 0)
    OBVIOUS
  <2> HIDE DEF Is
  <2> QED BY <1>1, <2>1
<1>3. ASSUME NEW m \in 1 .. n, m - 1 \in T PROVE m \in T
  <2>1. PICK f \in [0 .. m - 1 -> D] : Is(f, m - 1)
    BY <1>3
  <2> DEFINE g == [i \in 0 .. m |-> IF i = m THEN step[s[m]][f[m - 1]] ELSE f[i]]
  <2>2. f[m - 1] \in D /\ step[s[m]][f[m - 1]] \in D
    BY <1>1, <2>1
  <2>3. g \in [0 .. m -> D] /\ g[0] = b
    BY <1>1, <2>1, <2>2
  <2>4. g[m] = step[s[m]][g[m - 1]]
    BY <1>1
  <2>5. ASSUME NEW i \in 1 .. m - 1 PROVE g[i] = step[s[i]][g[i - 1]]
    BY <1>1, <2>1
  <2> HIDE DEF g
  <2>6. ASSUME NEW i \in 1 .. m PROVE g[i] = step[s[i]][g[i - 1]]
    <3>1. i = m \/ i \in 1 .. m - 1
      BY <1>1
    <3> QED BY <2>4, <2>5, <3>1
  <2>7. Is(g, m)
    BY <2>3, <2>6
  <2> HIDE DEF Is
  <2> QED BY <1>1, <2>3, <2>7
<1>4. n \in T
  <2> HIDE DEF T
  <2>1. \A m \in 0 .. n : m \in T
    BY <1>1, <1>2, <1>3, RangeInduction
  <2> QED BY <1>1, <2>1
<1>5. PICK f \in [0 .. n -> D] : Is(f, n)
  <2> HIDE DEF Is
  <2> QED BY <1>4
<1>6. Repeats(f, D, step, b, s)
  BY <1>1, <1>5 DEF Repeats, n
<1> QED BY <1>5, <1>6 DEF n

\* What makes such steps for each sequence, as long as it is in the set, makes one
\* step more for one element more.
Chain(chain, S, D, step, b) ==
  \A s \in Seq(S) :
    chain[s][0] = b /\ \A i \in 1 .. Len(s) :
                         chain[s][i - 1] \in D => chain[s][i] = step[s[i]][chain[s][i - 1]]
Loops(chain, S, D, step, b) ==
  /\ chain[<<>>][Len(<<>>)] = b
  /\ \A s \in Seq(S) : chain[s][Len(s)] \in D
  /\ \A s \in Seq(S), e \in S : chain[Append(s, e)][Len(Append(s, e))] = step[e][chain[s][Len(s)]]

LEMMA Loop ==
  ASSUME NEW S, NEW D, NEW step \in [S -> [D -> D]], NEW b \in D, NEW chain,
         Chain(chain, S, D, step, b)
  PROVE  Loops(chain, S, D, step, b)
<1>1. ASSUME NEW s \in Seq(S)
      PROVE  /\ Len(s) \in Nat /\ chain[s][0] = b /\ \A i \in 0 .. Len(s) : chain[s][i] \in D
             /\ \A i \in 1 .. Len(s) : chain[s][i] = step[s[i]][chain[s][i - 1]]
  <2> DEFINE T == {i \in 0 .. Len(s) : chain[s][i] \in D}
  <2>1. Len(s) \in Nat /\ \A i \in 1 .. Len(s) : s[i] \in S
    OBVIOUS
  <2>2. 0 \in T
    BY <2>1 DEF Chain
  <2>3. ASSUME NEW i \in 1 .. Len(s), i - 1 \in T PROVE i \in T
    BY <2>1, <2>3 DEF Chain
  <2> HIDE DEF T
  <2>4. \A i \in 0 .. Len(s) : i \in T
    BY <2>1, <2>2, <2>3, RangeInduction
  <2>5. \A i \in 0 .. Len(s) : chain[s][i] \in D
    BY <2>4 DEF T
  <2>6. \A i \in 1 .. Len(s) : i - 1 \in 0 .. Len(s)
    BY <2>1
  <2> QED BY <2>1, <2>5, <2>6 DEF Chain
<1>2. chain[<<>>][Len(<<>>)] = b
  <2>1. <<>> \in Seq(S) /\ Len(<<>>) = 0
    OBVIOUS
  <2> QED BY <1>1, <2>1
<1>3. ASSUME NEW s \in Seq(S), NEW e \in S
      PROVE  chain[Append(s, e)][Len(Append(s, e))] = step[e][chain[s][Len(s)]]
  <2>1. PICK u : u = Append(s, e)
    OBVIOUS
  <2>2. u \in Seq(S) /\ Len(u) = Len(s) + 1 /\ u[Len(s) + 1] = e /\ \A i \in 1 .. Len(s) : u[i] = s[i]
    BY <2>1
  <2> DEFINE T == {i \in 0 .. Len(s) : chain[s][i] = chain[u][i]}
  <2>3. 0 \in T
    BY <1>1, <2>2
  <2>4. ASSUME NEW i \in 1 .. Len(s), i - 1 \in T PROVE i \in T
    <3>1. i \in 1 .. Len(u)
      BY <1>1, <2>2
    <3>2. chain[s][i] = step[s[i]][chain[s][i - 1]] /\ chain[u][i] = step[u[i]][chain[u][i - 1]]
      BY <1>1, <2>2, <3>1
    <3> QED BY <2>2, <2>4, <3>2
  <2> HIDE DEF T
  <2>5. \A i \in 0 .. Len(s) : i \in T
    BY <1>1, <2>3, <2>4, RangeInduction
  <2>6. chain[s][Len(s)] = chain[u][Len(s)]
    BY <1>1, <2>5 DEF T
  <2>7. Len(u) \in 1 .. Len(u) /\ Len(u) - 1 = Len(s)
    BY <1>1, <2>2
  <2>8. chain[u][Len(u)] = step[u[Len(u)]][chain[u][Len(u) - 1]]
    BY <1>1, <2>2, <2>7
  <2> QED BY <2>1, <2>2, <2>6, <2>7, <2>8
<1>4. \A s \in Seq(S) : chain[s][Len(s)] \in D
  BY <1>1
<1> QED BY <1>2, <1>3, <1>4 DEF Loops

-----------------------------------------------------------------------------
(* The loops of merge_ini: what they make of nothing, and of one more element *)

\* The types of one step of each loop.
LEMMA Lines ==
  /\ \A l \in Line : /\ Normal(l.name) \in Text
                     /\ IsKey(l) => l.kind = "key" /\ Indent(l) \in Nat
  /\ \A s \in Seq(Line), n \in Nat : s # <<>> => Indented(s, n) \in Seq(Line)
  /\ \A e \in Item : /\ e.title \in Seq(Line) /\ e.text \in Seq(Line) /\ e.text # <<>>
                     /\ Normal(e.key) \in Text /\ Normal(e.section) \in Text
  /\ Blank \in Line /\ Blank.kind = "blank"
<1>1. ASSUME NEW l \in Line
      PROVE  Normal(l.name) \in Text /\ (IsKey(l) => l.kind = "key" /\ Indent(l) \in Nat)
  BY DEF Line, Name, Normal, IsKey, Indent
<1>2. ASSUME NEW s \in Seq(Line), NEW n \in Nat, s # <<>> PROVE Indented(s, n) \in Seq(Line)
  <2>1. 1 \in DOMAIN s /\ s[1] \in Line
    BY <1>2
  <2>2. [s[1] EXCEPT !.margin = @ + n] \in Line
    BY <2>1 DEF Line
  <2> QED BY <2>1, <2>2 DEF Indented
<1>3. ASSUME NEW e \in Item
      PROVE  /\ e.title \in Seq(Line) /\ e.text \in Seq(Line) /\ e.text # <<>>
             /\ Normal(e.key) \in Text /\ Normal(e.section) \in Text
  BY DEF Item, Name, Normal
<1>4. Blank \in Line /\ Blank.kind = "blank"
  <2>1. <<"", "">> \in Name
    BY TextAssumption DEF Nowhere, Name
  <2> QED BY <2>1, TextAssumption DEF Blank, Line
<1> QED BY <1>1, <1>2, <1>3, <1>4

\* The types of one step of each loop.
LEMMA Steps ==
  /\ \A e \in Item, put \in Seq(Item) : Put(put, e) \in Seq(Item)
  /\ \A e \in Item, at \in Pass, n \in Nat : Give(at, e, n) \in Pass
  /\ \A e \in Item, at \in Pass : Supply(at, e) \in Pass /\ Headed(at, e) \in Pass
  /\ \A l \in Line, at \in Pass : Copy(at, l) \in Pass /\ Titled(at, l) \in Pass
  /\ \A l \in Line, at \in Pass, pending \in Seq(Item) : IsKey(l) => Replace(at, l, pending) \in Pass
  /\ Start \in Pass /\ Nowhere \in Text
<1>1. ASSUME NEW e \in Item, NEW put \in Seq(Item) PROVE Put(put, e) \in Seq(Item)
  BY DEF Put
<1>2. ASSUME NEW e \in Item, NEW at \in Pass, NEW n \in Nat PROVE Give(at, e, n) \in Pass
  <2>1. at.output \o Indented(e.text, n) \in Seq(Line)
    <3>1. Indented(e.text, n) \in Seq(Line) /\ at.output \in Seq(Line)
      BY Lines DEF Pass
    <3> QED BY <3>1
  <2>2. at.keys \cup {<<at.section, Normal(e.key)>>} \in SUBSET (Text \X Text)
    BY Lines DEF Pass
  <2> QED BY <2>1, <2>2 DEF Give, Pass
<1>3. ASSUME NEW e \in Item, NEW at \in Pass PROVE Supply(at, e) \in Pass
  BY <1>2 DEF Supply
<1>4. ASSUME NEW e \in Item, NEW at \in Pass PROVE Headed(at, e) \in Pass
  <2>1. at.output \o e.title \in Seq(Line)
    BY Lines DEF Pass
  <2>2. Normal(e.section) \in Text /\ at.sections \cup {Normal(e.section)} \in SUBSET Text
    BY Lines DEF Pass
  <2> QED BY <2>1, <2>2 DEF Headed, Pass
<1>5. ASSUME NEW l \in Line, NEW at \in Pass PROVE Copy(at, l) \in Pass /\ Titled(at, l) \in Pass
  <2>1. Append(at.output, l) \in Seq(Line)
    BY DEF Pass
  <2>2. Normal(l.name) \in Text /\ at.sections \cup {Normal(l.name)} \in SUBSET Text
    BY Lines DEF Pass
  <2> QED BY <2>1, <2>2 DEF Copy, Titled, Pass
<1>6. ASSUME NEW l \in Line, NEW at \in Pass, NEW pending \in Seq(Item), IsKey(l)
      PROVE  Replace(at, l, pending) \in Pass
  <2>1. CASE Mine(at, l, pending) = {}
    BY <1>5, <2>1 DEF Replace
  <2>2. CASE Mine(at, l, pending) # {}
    <3>1. (CHOOSE i \in Mine(at, l, pending) : TRUE) \in DOMAIN pending /\ Indent(l) \in Nat
      BY <1>6, <2>2, Lines DEF Mine
    <3> QED BY <1>2, <2>2, <3>1 DEF Replace
  <2> QED BY <2>1, <2>2
<1>7. Start \in Pass /\ Nowhere \in Text
  <2>1. Nowhere \in Text
    BY TextAssumption
  <2>2. <<>> \in Seq(Line)
    OBVIOUS
  <2> QED BY <2>1, <2>2 DEF Start, Pass
<1> QED BY <1>1, <1>2, <1>3, <1>4, <1>5, <1>6, <1>7

LEMMA PendingEquations ==
  /\ Pending(<<>>) = <<>>
  /\ \A s \in Seq(Item) : Pending(s) \in Seq(Item)
  /\ \A s \in Seq(Item), e \in Item : Pending(Append(s, e)) = Put(Pending(s), e)
<1> DEFINE D == Seq(Item)
           step == [e \in Item |-> [p \in D |-> Put(p, e)]]
           Is(f, s) == f = [i \in 0 .. Len(s) |-> IF i = 0 THEN <<>> ELSE Put(f[i - 1], s[i])]
           chain == [s \in Seq(Item) |-> CHOOSE f : Is(f, s)]
<1>1. D = Seq(Item) /\ step \in [Item -> [D -> D]] /\ <<>> \in D
      /\ \A e \in Item : \A p \in D : step[e][p] = Put(p, e)
  BY Steps
<1> HIDE DEF step, D
<1>2. ASSUME NEW s \in Seq(Item)
      PROVE  /\ Pending(s) = chain[s][Len(s)]
             /\ chain[s][0] = <<>> /\ \A i \in 1 .. Len(s) :
                   chain[s][i - 1] \in D => chain[s][i] = step[s[i]][chain[s][i - 1]]
  <2>1. Len(s) \in Nat /\ \A i \in 1 .. Len(s) : s[i] \in Item
    OBVIOUS
  <2>2. PICK f \in [0 .. Len(s) -> D] : Repeats(f, D, step, <<>>, s)
    BY <1>1, Repeated
  <2>3. ASSUME NEW i \in 1 .. Len(s) PROVE f[i] = Put(f[i - 1], s[i])
    <3>1. f[i - 1] \in D /\ f[i] = step[s[i]][f[i - 1]] /\ s[i] \in Item
      BY <2>1, <2>2 DEF Repeats
    <3>2. step[s[i]][f[i - 1]] = Put(f[i - 1], s[i])
      BY <1>1, <3>1
    <3> QED BY <3>1, <3>2
  <2>4. Is(f, s)
    BY <2>2, <2>3 DEF Repeats
  <2>5. Is(chain[s], s) /\ Pending(s) = chain[s][Len(s)]
    BY <2>4 DEF Pending
  <2> HIDE DEF chain
  <2>6. \A i \in 0 .. Len(s) : chain[s][i] = IF i = 0 THEN <<>> ELSE Put(chain[s][i - 1], s[i])
    BY <2>5
  <2>7. ASSUME NEW i \in 1 .. Len(s), chain[s][i - 1] \in D
        PROVE  chain[s][i] = step[s[i]][chain[s][i - 1]]
    <3>1. step[s[i]][chain[s][i - 1]] = Put(chain[s][i - 1], s[i])
      BY <1>1, <2>1, <2>7
    <3> QED BY <2>1, <2>6, <3>1
  <2>8. chain[s][0] = <<>>
    BY <2>1, <2>6
  <2> QED BY <2>5, <2>7, <2>8
<1> HIDE DEF chain
<1>3. Loops(chain, Item, D, step, <<>>)
  <2>1. Chain(chain, Item, D, step, <<>>)
    BY <1>2 DEF Chain
  <2> QED BY <1>1, <2>1, Loop
<1>4. <<>> \in Seq(Item) /\ \A s \in Seq(Item), e \in Item : Append(s, e) \in Seq(Item)
  OBVIOUS
<1>5. \A s \in Seq(Item), e \in Item : Pending(Append(s, e)) = Put(Pending(s), e)
  <2> SUFFICES ASSUME NEW s \in Seq(Item), NEW e \in Item PROVE Pending(Append(s, e)) = Put(Pending(s), e)
    OBVIOUS
  <2>1. Pending(Append(s, e)) = step[e][Pending(s)] /\ Pending(s) \in D
    BY <1>2, <1>3, <1>4 DEF Loops
  <2> QED BY <1>1, <2>1
<1> QED BY <1>1, <1>2, <1>3, <1>4, <1>5 DEF Loops

LEMMA AppendMissingEquations ==
  ASSUME NEW at \in Pass
  PROVE  /\ AppendMissing(at, <<>>) = at
         /\ \A s \in Seq(Item) : AppendMissing(at, s) \in Pass
         /\ \A s \in Seq(Item), e \in Item : AppendMissing(at, Append(s, e)) = Supply(AppendMissing(at, s), e)
<1> DEFINE D == Pass
           step == [e \in Item |-> [d \in D |-> Supply(d, e)]]
           Is(f, s) == f = [i \in 0 .. Len(s) |-> IF i = 0 THEN at ELSE Supply(f[i - 1], s[i])]
           chain == [s \in Seq(Item) |-> CHOOSE f : Is(f, s)]
<1>1. D = Pass /\ step \in [Item -> [D -> D]] /\ at \in D
      /\ \A e \in Item : \A d \in D : step[e][d] = Supply(d, e)
  BY Steps
<1> HIDE DEF step, D
<1>2. ASSUME NEW s \in Seq(Item)
      PROVE  /\ AppendMissing(at, s) = chain[s][Len(s)]
             /\ chain[s][0] = at /\ \A i \in 1 .. Len(s) :
                   chain[s][i - 1] \in D => chain[s][i] = step[s[i]][chain[s][i - 1]]
  <2>1. Len(s) \in Nat /\ \A i \in 1 .. Len(s) : s[i] \in Item
    OBVIOUS
  <2>2. PICK f \in [0 .. Len(s) -> D] : Repeats(f, D, step, at, s)
    BY <1>1, Repeated
  <2>3. ASSUME NEW i \in 1 .. Len(s) PROVE f[i] = Supply(f[i - 1], s[i])
    <3>1. f[i - 1] \in D /\ f[i] = step[s[i]][f[i - 1]] /\ s[i] \in Item
      BY <2>1, <2>2 DEF Repeats
    <3>2. step[s[i]][f[i - 1]] = Supply(f[i - 1], s[i])
      BY <1>1, <3>1
    <3> QED BY <3>1, <3>2
  <2>4. Is(f, s)
    BY <2>2, <2>3 DEF Repeats
  <2>5. Is(chain[s], s) /\ AppendMissing(at, s) = chain[s][Len(s)]
    BY <2>4 DEF AppendMissing
  <2> HIDE DEF chain
  <2>6. \A i \in 0 .. Len(s) : chain[s][i] = IF i = 0 THEN at ELSE Supply(chain[s][i - 1], s[i])
    BY <2>5
  <2>7. ASSUME NEW i \in 1 .. Len(s), chain[s][i - 1] \in D
        PROVE  chain[s][i] = step[s[i]][chain[s][i - 1]]
    <3>1. step[s[i]][chain[s][i - 1]] = Supply(chain[s][i - 1], s[i])
      BY <1>1, <2>1, <2>7
    <3> QED BY <2>1, <2>6, <3>1
  <2>8. chain[s][0] = at
    BY <2>1, <2>6
  <2> QED BY <2>5, <2>7, <2>8
<1> HIDE DEF chain
<1>3. Loops(chain, Item, D, step, at)
  <2>1. Chain(chain, Item, D, step, at)
    BY <1>2 DEF Chain
  <2> QED BY <1>1, <2>1, Loop
<1>4. <<>> \in Seq(Item) /\ \A s \in Seq(Item), e \in Item : Append(s, e) \in Seq(Item)
  OBVIOUS
<1>5. \A s \in Seq(Item), e \in Item : AppendMissing(at, Append(s, e)) = Supply(AppendMissing(at, s), e)
  <2> SUFFICES ASSUME NEW s \in Seq(Item), NEW e \in Item PROVE AppendMissing(at, Append(s, e)) = Supply(AppendMissing(at, s), e)
    OBVIOUS
  <2>1. AppendMissing(at, Append(s, e)) = step[e][AppendMissing(at, s)] /\ AppendMissing(at, s) \in D
    BY <1>2, <1>3, <1>4 DEF Loops
  <2> QED BY <1>1, <2>1
<1> QED BY <1>1, <1>2, <1>3, <1>4, <1>5 DEF Loops

LEMMA TakeInPass ==
  ASSUME NEW pending \in Seq(Item), NEW at \in Pass, NEW line \in Line
  PROVE  Take(at, line, pending) \in Pass
<1>1. AppendMissing(at, pending) \in Pass
  BY AppendMissingEquations
<1> QED BY <1>1, Steps DEF Take

LEMMA ReadEquations ==
  ASSUME NEW pending \in Seq(Item)
  PROVE  /\ Read(<<>>, pending) = Start
         /\ \A s \in Seq(Line) : Read(s, pending) \in Pass
         /\ \A s \in Seq(Line), e \in Line : Read(Append(s, e), pending) = Take(Read(s, pending), e, pending)
<1> DEFINE D == Pass
           step == [e \in Line |-> [d \in D |-> Take(d, e, pending)]]
           Is(f, s) == f = [i \in 0 .. Len(s) |-> IF i = 0 THEN Start ELSE Take(f[i - 1], s[i], pending)]
           chain == [s \in Seq(Line) |-> CHOOSE f : Is(f, s)]
<1>1. D = Pass /\ step \in [Line -> [D -> D]] /\ Start \in D
      /\ \A e \in Line : \A d \in D : step[e][d] = Take(d, e, pending)
  BY Steps, TakeInPass
<1> HIDE DEF step, D
<1>2. ASSUME NEW s \in Seq(Line)
      PROVE  /\ Read(s, pending) = chain[s][Len(s)]
             /\ chain[s][0] = Start /\ \A i \in 1 .. Len(s) :
                   chain[s][i - 1] \in D => chain[s][i] = step[s[i]][chain[s][i - 1]]
  <2>1. Len(s) \in Nat /\ \A i \in 1 .. Len(s) : s[i] \in Line
    OBVIOUS
  <2>2. PICK f \in [0 .. Len(s) -> D] : Repeats(f, D, step, Start, s)
    BY <1>1, Repeated
  <2>3. ASSUME NEW i \in 1 .. Len(s) PROVE f[i] = Take(f[i - 1], s[i], pending)
    <3>1. f[i - 1] \in D /\ f[i] = step[s[i]][f[i - 1]] /\ s[i] \in Line
      BY <2>1, <2>2 DEF Repeats
    <3>2. step[s[i]][f[i - 1]] = Take(f[i - 1], s[i], pending)
      BY <1>1, <3>1
    <3> QED BY <3>1, <3>2
  <2>4. Is(f, s)
    BY <2>2, <2>3 DEF Repeats
  <2>5. Is(chain[s], s) /\ Read(s, pending) = chain[s][Len(s)]
    BY <2>4 DEF Read
  <2> HIDE DEF chain
  <2>6. \A i \in 0 .. Len(s) : chain[s][i] = IF i = 0 THEN Start ELSE Take(chain[s][i - 1], s[i], pending)
    BY <2>5
  <2>7. ASSUME NEW i \in 1 .. Len(s), chain[s][i - 1] \in D
        PROVE  chain[s][i] = step[s[i]][chain[s][i - 1]]
    <3>1. step[s[i]][chain[s][i - 1]] = Take(chain[s][i - 1], s[i], pending)
      BY <1>1, <2>1, <2>7
    <3> QED BY <2>1, <2>6, <3>1
  <2>8. chain[s][0] = Start
    BY <2>1, <2>6
  <2> QED BY <2>5, <2>7, <2>8
<1> HIDE DEF chain
<1>3. Loops(chain, Line, D, step, Start)
  <2>1. Chain(chain, Line, D, step, Start)
    BY <1>2 DEF Chain
  <2> QED BY <1>1, <2>1, Loop
<1>4. <<>> \in Seq(Line) /\ \A s \in Seq(Line), e \in Line : Append(s, e) \in Seq(Line)
  OBVIOUS
<1>5. \A s \in Seq(Line), e \in Line : Read(Append(s, e), pending) = Take(Read(s, pending), e, pending)
  <2> SUFFICES ASSUME NEW s \in Seq(Line), NEW e \in Line PROVE Read(Append(s, e), pending) = Take(Read(s, pending), e, pending)
    OBVIOUS
  <2>1. Read(Append(s, e), pending) = step[e][Read(s, pending)] /\ Read(s, pending) \in D
    BY <1>2, <1>3, <1>4 DEF Loops
  <2> QED BY <1>1, <2>1
<1> QED BY <1>1, <1>2, <1>3, <1>4, <1>5 DEF Loops

LEMMA AddSectionInPass ==
  ASSUME NEW pending \in Seq(Item), NEW at \in Pass, NEW e \in Item
  PROVE  AddSection(at, e, pending) \in Pass
<1>1. Spaced(at) \in Pass
  BY Lines, Steps DEF Spaced
<1>2. Headed(Spaced(at), e) \in Pass
  BY <1>1, Steps
<1> QED BY <1>2, AppendMissingEquations DEF AddSection

LEMMA AddSectionsEquations ==
  ASSUME NEW at \in Pass, NEW pending \in Seq(Item)
  PROVE  /\ AddSections(at, <<>>, pending) = at
         /\ \A s \in Seq(Item) : AddSections(at, s, pending) \in Pass
         /\ \A s \in Seq(Item), e \in Item : AddSections(at, Append(s, e), pending) = AddSection(AddSections(at, s, pending), e, pending)
<1> DEFINE D == Pass
           step == [e \in Item |-> [d \in D |-> AddSection(d, e, pending)]]
           Is(f, s) == f = [i \in 0 .. Len(s) |-> IF i = 0 THEN at ELSE AddSection(f[i - 1], s[i], pending)]
           chain == [s \in Seq(Item) |-> CHOOSE f : Is(f, s)]
<1>1. D = Pass /\ step \in [Item -> [D -> D]] /\ at \in D
      /\ \A e \in Item : \A d \in D : step[e][d] = AddSection(d, e, pending)
  BY AddSectionInPass
<1> HIDE DEF step, D
<1>2. ASSUME NEW s \in Seq(Item)
      PROVE  /\ AddSections(at, s, pending) = chain[s][Len(s)]
             /\ chain[s][0] = at /\ \A i \in 1 .. Len(s) :
                   chain[s][i - 1] \in D => chain[s][i] = step[s[i]][chain[s][i - 1]]
  <2>1. Len(s) \in Nat /\ \A i \in 1 .. Len(s) : s[i] \in Item
    OBVIOUS
  <2>2. PICK f \in [0 .. Len(s) -> D] : Repeats(f, D, step, at, s)
    BY <1>1, Repeated
  <2>3. ASSUME NEW i \in 1 .. Len(s) PROVE f[i] = AddSection(f[i - 1], s[i], pending)
    <3>1. f[i - 1] \in D /\ f[i] = step[s[i]][f[i - 1]] /\ s[i] \in Item
      BY <2>1, <2>2 DEF Repeats
    <3>2. step[s[i]][f[i - 1]] = AddSection(f[i - 1], s[i], pending)
      BY <1>1, <3>1
    <3> QED BY <3>1, <3>2
  <2>4. Is(f, s)
    BY <2>2, <2>3 DEF Repeats
  <2>5. Is(chain[s], s) /\ AddSections(at, s, pending) = chain[s][Len(s)]
    BY <2>4 DEF AddSections
  <2> HIDE DEF chain
  <2>6. \A i \in 0 .. Len(s) : chain[s][i] = IF i = 0 THEN at ELSE AddSection(chain[s][i - 1], s[i], pending)
    BY <2>5
  <2>7. ASSUME NEW i \in 1 .. Len(s), chain[s][i - 1] \in D
        PROVE  chain[s][i] = step[s[i]][chain[s][i - 1]]
    <3>1. step[s[i]][chain[s][i - 1]] = AddSection(chain[s][i - 1], s[i], pending)
      BY <1>1, <2>1, <2>7
    <3> QED BY <2>1, <2>6, <3>1
  <2>8. chain[s][0] = at
    BY <2>1, <2>6
  <2> QED BY <2>5, <2>7, <2>8
<1> HIDE DEF chain
<1>3. Loops(chain, Item, D, step, at)
  <2>1. Chain(chain, Item, D, step, at)
    BY <1>2 DEF Chain
  <2> QED BY <1>1, <2>1, Loop
<1>4. <<>> \in Seq(Item) /\ \A s \in Seq(Item), e \in Item : Append(s, e) \in Seq(Item)
  OBVIOUS
<1>5. \A s \in Seq(Item), e \in Item : AddSections(at, Append(s, e), pending) = AddSection(AddSections(at, s, pending), e, pending)
  <2> SUFFICES ASSUME NEW s \in Seq(Item), NEW e \in Item PROVE AddSections(at, Append(s, e), pending) = AddSection(AddSections(at, s, pending), e, pending)
    OBVIOUS
  <2>1. AddSections(at, s, pending) = chain[s][Len(s)] /\ chain[s][Len(s)] \in D
    BY <1>2, <1>3 DEF Loops
  <2>2. AddSections(at, Append(s, e), pending) = chain[Append(s, e)][Len(Append(s, e))]
    BY <1>2, <1>4
  <2>3. chain[Append(s, e)][Len(Append(s, e))] = step[e][chain[s][Len(s)]]
    BY <1>3 DEF Loops
  <2> QED BY <1>1, <2>1, <2>2, <2>3
<1> QED BY <1>1, <1>2, <1>3, <1>4, <1>5 DEF Loops


-----------------------------------------------------------------------------
(* The sections of a file, and the lines that are not set *)

LEMMA Sections ==
  ASSUME NEW s \in Seq(Line)
  PROVE  /\ SectionAt(s, 0) = Nowhere
         /\ \A i \in 1 .. Len(s) :
              SectionAt(s, i) = IF s[i].kind = "section" THEN Normal(s[i].name) ELSE SectionAt(s, i - 1)
<1> DEFINE before(i) == {j \in 1 .. i : s[j].kind = "section"}
           nameOf(B) == IF B = {} THEN Nowhere ELSE Normal(s[CHOOSE j \in B : \A k \in B : k <= j].name)
<1>0. \A i : SectionAt(s, i) = nameOf(before(i))
  BY DEF SectionAt
<1>1. SectionAt(s, 0) = Nowhere
  <2>1. before(0) = {}
    OBVIOUS
  <2> HIDE DEF before
  <2> QED BY <1>0, <2>1
<1>2. ASSUME NEW i \in 1 .. Len(s), s[i].kind = "section" PROVE SectionAt(s, i) = Normal(s[i].name)
  <2>1. i \in before(i) /\ before(i) \subseteq 1 .. i
    BY <1>2
  <2>2. \A j \in before(i) : (\A k \in before(i) : k <= j) <=> j = i
    <3> HIDE DEF before
    <3> QED BY <2>1
  <2>3. (CHOOSE j \in before(i) : \A k \in before(i) : k <= j) = i
    <3> HIDE DEF before
    <3> QED BY <2>1, <2>2
  <2> HIDE DEF before
  <2> QED BY <1>0, <2>1, <2>3
<1>3. ASSUME NEW i \in 1 .. Len(s), s[i].kind # "section" PROVE SectionAt(s, i) = SectionAt(s, i - 1)
  <2>1. before(i) = before(i - 1)
    BY <1>3
  <2> HIDE DEF before, nameOf
  <2> QED BY <1>0, <2>1
<1> QED BY <1>1, <1>2, <1>3

LEMMA SectionsOfLonger ==
  ASSUME NEW s \in Seq(Line), NEW x \in Line
  PROVE  /\ \A i \in 0 .. Len(s) : SectionAt(Append(s, x), i) = SectionAt(s, i)
         /\ SectionAt(Append(s, x), Len(s) + 1) =
              IF x.kind = "section" THEN Normal(x.name) ELSE SectionAt(s, Len(s))
<1>1. PICK u : u = Append(s, x)
  OBVIOUS
<1>2. u \in Seq(Line) /\ Len(s) \in Nat /\ Len(u) = Len(s) + 1 /\ u[Len(s) + 1] = x
      /\ \A i \in 1 .. Len(s) : u[i] = s[i]
  BY <1>1
<1> DEFINE T == {i \in 0 .. Len(s) : SectionAt(u, i) = SectionAt(s, i)}
<1>3. 0 \in T
  BY <1>2, Sections
<1>4. ASSUME NEW i \in 1 .. Len(s), i - 1 \in T PROVE i \in T
  <2>1. SectionAt(u, i) = IF u[i].kind = "section" THEN Normal(u[i].name) ELSE SectionAt(u, i - 1)
    BY <1>2, Sections
  <2>2. SectionAt(s, i) = IF s[i].kind = "section" THEN Normal(s[i].name) ELSE SectionAt(s, i - 1)
    BY Sections
  <2> QED BY <1>2, <1>4, <2>1, <2>2
<1>5. \A i \in 0 .. Len(s) : i \in T
  <2> HIDE DEF T
  <2> QED BY <1>2, <1>3, <1>4, RangeInduction
<1>6. SectionAt(u, Len(u)) = IF x.kind = "section" THEN Normal(x.name) ELSE SectionAt(u, Len(u) - 1)
  <2>1. Len(u) \in 1 .. Len(u)
    BY <1>2
  <2> QED BY <1>2, <2>1, Sections
<1>7. SectionAt(u, Len(s)) = SectionAt(s, Len(s))
  BY <1>2, <1>5
<1> QED BY <1>1, <1>2, <1>5, <1>6, <1>7

LEMMA UnsetEquations ==
  ASSUME NEW updates \in Seq(Item)
  PROVE  /\ Unset(<<>>, updates) = <<>>
         /\ \A s \in Seq(Text \X Line) : Unset(s, updates) \in Seq(Text \X Line)
         /\ \A s \in Seq(Text \X Line), e \in Text \X Line : Unset(Append(s, e), updates) = KeptWith(Unset(s, updates), e, updates)
<1> DEFINE D == Seq(Text \X Line)
           step == [e \in Text \X Line |-> [d \in D |-> KeptWith(d, e, updates)]]
           Is(f, s) == f = [i \in 0 .. Len(s) |-> IF i = 0 THEN <<>> ELSE KeptWith(f[i - 1], s[i], updates)]
           chain == [s \in Seq(Text \X Line) |-> CHOOSE f : Is(f, s)]
<1>1. D = Seq(Text \X Line) /\ step \in [Text \X Line -> [D -> D]] /\ <<>> \in D
      /\ \A e \in Text \X Line : \A d \in D : step[e][d] = KeptWith(d, e, updates)
  BY DEF KeptWith
<1> HIDE DEF step, D
<1>2. ASSUME NEW s \in Seq(Text \X Line)
      PROVE  /\ Unset(s, updates) = chain[s][Len(s)]
             /\ chain[s][0] = <<>> /\ \A i \in 1 .. Len(s) :
                   chain[s][i - 1] \in D => chain[s][i] = step[s[i]][chain[s][i - 1]]
  <2>1. Len(s) \in Nat /\ \A i \in 1 .. Len(s) : s[i] \in Text \X Line
    OBVIOUS
  <2>2. PICK f \in [0 .. Len(s) -> D] : Repeats(f, D, step, <<>>, s)
    BY <1>1, Repeated
  <2>3. ASSUME NEW i \in 1 .. Len(s) PROVE f[i] = KeptWith(f[i - 1], s[i], updates)
    <3>1. f[i - 1] \in D /\ f[i] = step[s[i]][f[i - 1]] /\ s[i] \in Text \X Line
      BY <2>1, <2>2 DEF Repeats
    <3>2. step[s[i]][f[i - 1]] = KeptWith(f[i - 1], s[i], updates)
      BY <1>1, <3>1
    <3> QED BY <3>1, <3>2
  <2>4. Is(f, s)
    BY <2>2, <2>3 DEF Repeats
  <2>5. Is(chain[s], s) /\ Unset(s, updates) = chain[s][Len(s)]
    BY <2>4 DEF Unset
  <2> HIDE DEF chain
  <2>6. \A i \in 0 .. Len(s) : chain[s][i] = IF i = 0 THEN <<>> ELSE KeptWith(chain[s][i - 1], s[i], updates)
    BY <2>5
  <2>7. ASSUME NEW i \in 1 .. Len(s), chain[s][i - 1] \in D
        PROVE  chain[s][i] = step[s[i]][chain[s][i - 1]]
    <3>1. step[s[i]][chain[s][i - 1]] = KeptWith(chain[s][i - 1], s[i], updates)
      BY <1>1, <2>1, <2>7
    <3> QED BY <2>1, <2>6, <3>1
  <2>8. chain[s][0] = <<>>
    BY <2>1, <2>6
  <2> QED BY <2>5, <2>7, <2>8
<1> HIDE DEF chain
<1>3. Loops(chain, Text \X Line, D, step, <<>>)
  <2>1. Chain(chain, Text \X Line, D, step, <<>>)
    BY <1>2 DEF Chain
  <2> QED BY <1>1, <2>1, Loop
<1>4. <<>> \in Seq(Text \X Line) /\ \A s \in Seq(Text \X Line), e \in Text \X Line : Append(s, e) \in Seq(Text \X Line)
  OBVIOUS
<1>5. \A s \in Seq(Text \X Line), e \in Text \X Line : Unset(Append(s, e), updates) = KeptWith(Unset(s, updates), e, updates)
  <2> SUFFICES ASSUME NEW s \in Seq(Text \X Line), NEW e \in Text \X Line PROVE Unset(Append(s, e), updates) = KeptWith(Unset(s, updates), e, updates)
    OBVIOUS
  <2>1. Unset(s, updates) = chain[s][Len(s)] /\ chain[s][Len(s)] \in D
    BY <1>2, <1>3 DEF Loops
  <2>2. Unset(Append(s, e), updates) = chain[Append(s, e)][Len(Append(s, e))]
    BY <1>2, <1>4
  <2>3. chain[Append(s, e)][Len(Append(s, e))] = step[e][chain[s][Len(s)]]
    BY <1>3 DEF Loops
  <2> QED BY <1>1, <2>1, <2>2, <2>3
<1> QED BY <1>1, <1>2, <1>3, <1>4, <1>5 DEF Loops

LEMMA KeptEquations ==
  ASSUME NEW updates \in Seq(Item)
  PROVE  /\ Kept(<<>>, updates) = <<>>
         /\ \A s \in Seq(Line) : Kept(s, updates) \in Seq(Text \X Line)
         /\ \A s \in Seq(Line), x \in Line :
              LET placed == <<IF x.kind = "section" THEN Normal(x.name) ELSE SectionAt(s, Len(s)), x>>
              IN placed \in Text \X Line /\ Kept(Append(s, x), updates) = KeptWith(Kept(s, updates), placed, updates)
<1>1. \A s \in Seq(Line) : Placed(s) \in Seq(Text \X Line)
  <2> SUFFICES ASSUME NEW s \in Seq(Line) PROVE Placed(s) \in Seq(Text \X Line)
    OBVIOUS
  <2>1. Len(s) \in Nat /\ DOMAIN s = 1 .. Len(s) /\ \A i \in 1 .. Len(s) : s[i] \in Line
    OBVIOUS
  <2> DEFINE T == {i \in 0 .. Len(s) : SectionAt(s, i) \in Text}
  <2>2. 0 \in T
    <3>1. SectionAt(s, 0) = Nowhere /\ Nowhere \in Text
      BY Sections, TextAssumption
    <3> QED BY <2>1, <3>1
  <2>3. ASSUME NEW i \in 1 .. Len(s), i - 1 \in T PROVE i \in T
    <3>1. Normal(s[i].name) \in Text
      BY <2>1 DEF Line, Name, Normal
    <3> QED BY <2>1, <2>3, <3>1, Sections
  <2> HIDE DEF T
  <2>4. \A i \in 0 .. Len(s) : i \in T
    BY <2>1, <2>2, <2>3, RangeInduction
  <2>5. \A i \in 1 .. Len(s) : <<SectionAt(s, i), s[i]>> \in Text \X Line
    BY <2>1, <2>4 DEF T
  <2> QED BY <2>1, <2>5 DEF Placed
<1>2. Placed(<<>>) = <<>>
  BY DEF Placed
<1>3. ASSUME NEW s \in Seq(Line), NEW x \in Line
      PROVE  LET placed == <<IF x.kind = "section" THEN Normal(x.name) ELSE SectionAt(s, Len(s)), x>>
             IN placed \in Text \X Line /\ Placed(Append(s, x)) = Append(Placed(s), placed)
  <2> DEFINE placed == <<IF x.kind = "section" THEN Normal(x.name) ELSE SectionAt(s, Len(s)), x>>
  <2>1. PICK u : u = Append(s, x)
    OBVIOUS
  <2>2. u \in Seq(Line) /\ Len(s) \in Nat /\ Len(u) = Len(s) + 1 /\ u[Len(s) + 1] = x
        /\ \A i \in 1 .. Len(s) : u[i] = s[i]
    BY <2>1
  <2>3. DOMAIN s = 1 .. Len(s) /\ DOMAIN u = 1 .. Len(s) + 1
    BY <2>2
  <2>4. Placed(s) \in Seq(Text \X Line) /\ Placed(u) \in Seq(Text \X Line)
    BY <1>1, <2>2
  <2>5. Len(Placed(s)) = Len(s) /\ Len(Placed(u)) = Len(s) + 1
    BY <2>2 DEF Placed
  <2>6. ASSUME NEW i \in 1 .. Len(s) PROVE Placed(u)[i] = Placed(s)[i]
    <3>1. SectionAt(u, i) = SectionAt(s, i)
      BY <2>1, <2>2, SectionsOfLonger
    <3> QED BY <2>2, <2>3, <3>1 DEF Placed
  <2>7. Placed(u)[Len(s) + 1] = placed
    <3>1. SectionAt(u, Len(s) + 1) = IF x.kind = "section" THEN Normal(x.name) ELSE SectionAt(s, Len(s))
      BY <2>1, SectionsOfLonger
    <3> QED BY <2>2, <2>3, <3>1 DEF Placed
  <2> HIDE DEF placed
  <2>8. placed \in Text \X Line
    BY <2>2, <2>4, <2>5, <2>7
  <2>9. Placed(u) = Append(Placed(s), placed)
    BY <2>2, <2>4, <2>5, <2>6, <2>7, <2>8
  <2> QED BY <2>1, <2>8, <2>9 DEF placed
<1>4. ASSUME NEW s \in Seq(Line), NEW x \in Line
      PROVE  LET placed == <<IF x.kind = "section" THEN Normal(x.name) ELSE SectionAt(s, Len(s)), x>>
             IN placed \in Text \X Line /\ Kept(Append(s, x), updates) = KeptWith(Kept(s, updates), placed, updates)
  BY <1>1, <1>3, UnsetEquations DEF Kept
<1>5. Kept(<<>>, updates) = <<>>
  BY <1>2, UnsetEquations DEF Kept
<1>6. \A s \in Seq(Line) : Kept(s, updates) \in Seq(Text \X Line)
  BY <1>1, UnsetEquations DEF Kept
<1> QED BY <1>4, <1>5, <1>6

-----------------------------------------------------------------------------
(* What is pending *)

LEMMA SameAgain ==
  \A e, f, g : Same(e, e) /\ (Same(e, f) => Same(f, e)) /\ (Same(e, f) /\ Same(f, g) => Same(e, g))
BY DEF Same

\* There is one entry for whatever is set, the last that sets it.
Stands(p, u) ==
  /\ p \in Seq(Item)
  /\ \A i, j \in DOMAIN p : Same(p[i], p[j]) => i = j
  /\ \A i \in DOMAIN u : \E j \in DOMAIN p : Same(p[j], u[i])
  /\ \A j \in DOMAIN p : \E i \in DOMAIN u : p[j] = u[i] /\ \A k \in DOMAIN u : k > i => ~Same(u[k], u[i])

LEMMA PutStands ==
  ASSUME NEW u \in Seq(Item), NEW p, Stands(p, u), NEW e \in Item
  PROVE  Stands(Put(p, e), Append(u, e))
<1>1. PICK v : v = Append(u, e)
  OBVIOUS
<1>2. v \in Seq(Item) /\ Len(u) \in Nat /\ DOMAIN u = 1 .. Len(u) /\ DOMAIN v = 1 .. Len(u) + 1
      /\ v[Len(u) + 1] = e /\ \A i \in DOMAIN u : v[i] = u[i]
  BY <1>1
<1>3. PICK q : q = Put(p, e)
  OBVIOUS
<1>4. q \in Seq(Item) /\ p \in Seq(Item)
  BY <1>3, Steps DEF Stands
<1>5. CASE \E i \in DOMAIN p : Same(p[i], e)
  <2>1. DOMAIN q = DOMAIN p /\ \A i \in DOMAIN p : q[i] = IF Same(p[i], e) THEN e ELSE p[i]
    BY <1>3, <1>5 DEF Put
  <2>2. \A i \in DOMAIN p : Same(q[i], p[i])
    BY <2>1, SameAgain
  <2>3. \A i, j \in DOMAIN q : Same(q[i], q[j]) => i = j
    BY <2>1, <2>2, SameAgain DEF Stands
  <2>4. ASSUME NEW i \in DOMAIN v PROVE \E j \in DOMAIN q : Same(q[j], v[i])
    <3>1. CASE i \in DOMAIN u
      <4>1. PICK j \in DOMAIN p : Same(p[j], u[i])
        BY <3>1 DEF Stands
      <4> QED BY <1>2, <2>1, <2>2, <3>1, <4>1, SameAgain
    <3>2. CASE i = Len(u) + 1
      BY <1>2, <1>5, <2>1, <3>2, SameAgain
    <3> QED BY <1>2, <3>1, <3>2
  <2>5. ASSUME NEW j \in DOMAIN q
        PROVE  \E i \in DOMAIN v : q[j] = v[i] /\ \A k \in DOMAIN v : k > i => ~Same(v[k], v[i])
    <3>1. CASE Same(p[j], e)
      <4>1. q[j] = v[Len(u) + 1]
        BY <1>2, <2>1, <3>1
      <4> QED BY <1>2, <4>1
    <3>2. CASE ~Same(p[j], e)
      <4>1. PICK i \in DOMAIN u : p[j] = u[i] /\ \A k \in DOMAIN u : k > i => ~Same(u[k], u[i])
        BY <2>1 DEF Stands
      <4>2. i \in DOMAIN v /\ q[j] = v[i] /\ v[i] = u[i] /\ ~Same(v[Len(u) + 1], v[i])
        BY <1>2, <2>1, <3>2, <4>1, SameAgain
      <4>3. \A k \in DOMAIN v : k > i => ~Same(v[k], v[i])
        BY <1>2, <4>1, <4>2
      <4> QED BY <4>2, <4>3
    <3> QED BY <3>1, <3>2
  <2> QED BY <1>1, <1>3, <1>4, <2>3, <2>4, <2>5 DEF Stands
<1>6. CASE ~\E i \in DOMAIN p : Same(p[i], e)
  <2>1. Len(p) \in Nat /\ DOMAIN p = 1 .. Len(p) /\ DOMAIN q = 1 .. Len(p) + 1
        /\ q[Len(p) + 1] = e /\ \A i \in DOMAIN p : q[i] = p[i]
    BY <1>3, <1>4, <1>6 DEF Put
  <2>2. ASSUME NEW i \in DOMAIN q, NEW j \in DOMAIN q, Same(q[i], q[j]) PROVE i = j
    <3>1. CASE i \in DOMAIN p /\ j \in DOMAIN p
      BY <2>1, <2>2, <3>1 DEF Stands
    <3>2. CASE ~(i \in DOMAIN p /\ j \in DOMAIN p)
      <4>1. ~(i \in DOMAIN p /\ j = Len(p) + 1) /\ ~(j \in DOMAIN p /\ i = Len(p) + 1)
        BY <1>6, <2>1, <2>2, SameAgain
      <4> QED BY <2>1, <3>2, <4>1
    <3> QED BY <3>1, <3>2
  <2>3. ASSUME NEW i \in DOMAIN v PROVE \E j \in DOMAIN q : Same(q[j], v[i])
    <3>1. CASE i \in DOMAIN u
      <4>1. PICK j \in DOMAIN p : Same(p[j], u[i])
        BY <3>1 DEF Stands
      <4> QED BY <1>2, <2>1, <3>1, <4>1
    <3>2. CASE i = Len(u) + 1
      BY <1>2, <2>1, <3>2, SameAgain
    <3> QED BY <1>2, <3>1, <3>2
  <2>4. ASSUME NEW j \in DOMAIN q
        PROVE  \E i \in DOMAIN v : q[j] = v[i] /\ \A k \in DOMAIN v : k > i => ~Same(v[k], v[i])
    <3>1. CASE j = Len(p) + 1
      BY <1>2, <2>1, <3>1
    <3>2. CASE j \in DOMAIN p
      <4>1. PICK i \in DOMAIN u : p[j] = u[i] /\ \A k \in DOMAIN u : k > i => ~Same(u[k], u[i])
        BY <3>2 DEF Stands
      <4>2. i \in DOMAIN v /\ q[j] = v[i] /\ v[i] = u[i] /\ ~Same(v[Len(u) + 1], v[i])
        BY <1>2, <1>6, <2>1, <3>2, <4>1, SameAgain
      <4>3. \A k \in DOMAIN v : k > i => ~Same(v[k], v[i])
        BY <1>2, <4>1, <4>2
      <4> QED BY <4>2, <4>3
    <3> QED BY <2>1, <3>1, <3>2
  <2> QED BY <1>1, <1>3, <1>4, <2>2, <2>3, <2>4 DEF Stands
<1> QED BY <1>5, <1>6

LEMMA PendingStands ==
  ASSUME NEW u \in Seq(Item)
  PROVE  Stands(Pending(u), u)
<1> DEFINE T == {s \in Seq(Item) : Stands(Pending(s), s)}
<1>1. <<>> \in T
  <2>1. <<>> \in Seq(Item) /\ DOMAIN <<>> = {}
    OBVIOUS
  <2> QED BY <2>1, PendingEquations DEF Stands
<1>2. ASSUME NEW s \in Seq(Item), NEW e \in Item, s \in T PROVE Append(s, e) \in T
  <2>1. Append(s, e) \in Seq(Item)
    OBVIOUS
  <2> QED BY <1>2, <2>1, PendingEquations, PutStands
<1> HIDE DEF T
<1>3. u \in T
  BY <1>1, <1>2, SequenceInduction
<1> QED BY <1>3 DEF T


-----------------------------------------------------------------------------
(* One pass: what holds of its output, of the entries E that are pending *)

\* The line as which an entry is written after n characters of indentation.
Said(e, n) == [e.text[1] EXCEPT !.margin = @ + n]
Says(x, e) == \E n \in Nat : x = Said(e, n)

LEMMA SaidIs ==
  ASSUME NEW e \in Item, Readable(e), NEW n \in Nat
  PROVE  /\ Indented(e.text, n) = <<Said(e, n)>> /\ Said(e, n) \in Line /\ e.text[1] \in Line
         /\ IsKey(Said(e, n)) /\ Normal(Said(e, n).name) = Normal(e.key)
         /\ Said(e, n).value = e.text[1].value
         /\ Steady(e) => Indent(Said(e, n)) = n
<1>1. PICK x : x = e.text[1]
  OBVIOUS
<1>2. e.text = <<x>> /\ x \in Line /\ IsKey(x) /\ Normal(x.name) = Normal(e.key)
  <2>1. e.text \in Seq(Line) /\ Len(e.text) = 1 /\ IsKey(x) /\ Normal(x.name) = Normal(e.key)
    BY <1>1, Lines DEF Readable
  <2> QED BY <1>1, <2>1
<1>3. PICK y : y = [x EXCEPT !.margin = @ + n]
  OBVIOUS
<1>4. y \in Line /\ y.name = x.name /\ y.value = x.value /\ y.kind = x.kind /\ y.margin = x.margin + n
      /\ x.margin \in Nat
  BY <1>2, <1>3 DEF Line
<1>5. Indented(e.text, n) = <<y>>
  BY <1>2, <1>3 DEF Indented
<1>6. IsKey(y)
  BY <1>2, <1>4 DEF IsKey
<1>7. ASSUME Steady(e) PROVE Indent(y) = n
  <2>1. Indent(x) = 0
    BY <1>1, <1>7 DEF Steady
  <2> QED BY <1>4, <2>1 DEF Indent
<1> QED BY <1>1, <1>2, <1>3, <1>4, <1>5, <1>6, <1>7 DEF Said

\* The line assigns the key of the entry, in its section.
Assigns(lines, i, e) ==
  /\ IsKey(lines[i])
  /\ SectionAt(lines, i) = Normal(e.section) /\ Normal(lines[i].name) = Normal(e.key)

Has(lines, e) == \E i \in DOMAIN lines : Assigns(lines, i, e)

\* Wherever an entry's key is assigned, it is as the entry says.
Written(lines, E) ==
  \A e \in E : \A i \in DOMAIN lines : Assigns(lines, i, e) => Says(lines[i], e)

\* A section that has ended has all its entries.
Ended(lines, E) ==
  \A e \in E : \A i \in DOMAIN lines :
    lines[i].kind = "section" /\ SectionAt(lines, i - 1) = Normal(e.section)
      => \E h \in 1 .. i - 1 : Assigns(lines, h, e)

Held(at, E) ==
  /\ at \in Pass
  /\ at.section = SectionAt(at.output, Len(at.output))
  /\ Written(at.output, E) /\ Ended(at.output, E)
  /\ \A e \in E : <<Normal(e.section), Normal(e.key)>> \in at.keys => Has(at.output, e)
  /\ \A e \in E : Normal(e.section) \in at.sections /\ Normal(e.section) # at.section => Has(at.output, e)

\* All entries of the section the pass is in have been written.
Complete(at, E) ==
  \A e \in E : Normal(e.section) = at.section => <<Normal(e.section), Normal(e.key)>> \in at.keys

\* v is the lines of s, and x.
IsLonger(v, s, x) ==
  /\ v \in Seq(Line) /\ Len(s) \in Nat /\ DOMAIN s = 1 .. Len(s) /\ DOMAIN v = 1 .. Len(s) + 1
  /\ Len(v) = Len(s) + 1 /\ v[Len(s) + 1] = x /\ \A i \in DOMAIN s : v[i] = s[i]
  /\ \A i \in 0 .. Len(s) : SectionAt(v, i) = SectionAt(s, i)
  /\ SectionAt(v, Len(s) + 1) = IF x.kind = "section" THEN Normal(x.name) ELSE SectionAt(s, Len(s))
  /\ \A e : \A h \in DOMAIN s : Assigns(v, h, e) <=> Assigns(s, h, e)
  /\ \A e : Assigns(v, Len(s) + 1, e) <=>
       IsKey(x) /\ SectionAt(s, Len(s)) = Normal(e.section) /\ Normal(x.name) = Normal(e.key)

LEMMA Longer ==
  ASSUME NEW s \in Seq(Line), NEW x \in Line
  PROVE  IsLonger(Append(s, x), s, x)
<1>1. PICK v : v = Append(s, x)
  OBVIOUS
<1>2. /\ v \in Seq(Line) /\ Len(s) \in Nat /\ DOMAIN s = 1 .. Len(s) /\ DOMAIN v = 1 .. Len(s) + 1
      /\ Len(v) = Len(s) + 1 /\ v[Len(s) + 1] = x /\ \A i \in DOMAIN s : v[i] = s[i]
  BY <1>1
<1>3. /\ \A i \in 0 .. Len(s) : SectionAt(v, i) = SectionAt(s, i)
      /\ SectionAt(v, Len(s) + 1) = IF x.kind = "section" THEN Normal(x.name) ELSE SectionAt(s, Len(s))
  BY <1>1, SectionsOfLonger
<1>4. ASSUME NEW e, NEW h \in DOMAIN s PROVE Assigns(v, h, e) <=> Assigns(s, h, e)
  <2>1. SectionAt(v, h) = SectionAt(s, h) /\ v[h] = s[h]
    BY <1>2, <1>3
  <2> QED BY <2>1 DEF Assigns
<1>5. ASSUME NEW e
      PROVE  Assigns(v, Len(s) + 1, e) <=>
               IsKey(x) /\ SectionAt(s, Len(s)) = Normal(e.section) /\ Normal(x.name) = Normal(e.key)
  <2>1. CASE IsKey(x)
    <3>1. SectionAt(v, Len(s) + 1) = SectionAt(s, Len(s))
      BY <1>3, <2>1 DEF IsKey
    <3> QED BY <1>2, <3>1 DEF Assigns
  <2>2. CASE ~IsKey(x)
    BY <1>2, <2>2 DEF Assigns
  <2> QED BY <2>1, <2>2
<1>6. IsLonger(v, s, x)
  BY <1>2, <1>3, <1>4, <1>5 DEF IsLonger
<1> QED BY <1>1, <1>6

\* An entry that occurs goes on to occur.
LEMMA LongerHas ==
  ASSUME NEW s \in Seq(Line), NEW x \in Line, NEW e, Has(s, e)
  PROVE  Has(Append(s, x), e)
<1>1. PICK v : v = Append(s, x) /\ IsLonger(v, s, x)
  BY Longer
<1>2. PICK i \in DOMAIN s : Assigns(s, i, e)
  BY DEF Has
<1>3. i \in DOMAIN v /\ Assigns(v, i, e)
  BY <1>1, <1>2 DEF IsLonger
<1> QED BY <1>1, <1>3 DEF Has

\* A line that is no section leaves it at that, if it assigns what the entries say.
LEMMA LongerWritten ==
  ASSUME NEW s \in Seq(Line), NEW x \in Line, NEW E, Written(s, E), Ended(s, E), x.kind # "section",
         \A e \in E : IsKey(x) /\ SectionAt(s, Len(s)) = Normal(e.section) /\ Normal(x.name) = Normal(e.key)
                        => Says(x, e)
  PROVE  Written(Append(s, x), E) /\ Ended(Append(s, x), E)
<1>1. PICK v : v = Append(s, x) /\ IsLonger(v, s, x)
  BY Longer
<1>2. ASSUME NEW e \in E, NEW i \in DOMAIN v, Assigns(v, i, e) PROVE Says(v[i], e)
  <2>1. CASE i \in DOMAIN s
    BY <1>1, <1>2, <2>1 DEF IsLonger, Written
  <2>2. CASE i = Len(s) + 1
    BY <1>1, <1>2, <2>2 DEF IsLonger
  <2> QED BY <1>1, <2>1, <2>2 DEF IsLonger
<1>3. ASSUME NEW e \in E, NEW i \in DOMAIN v, v[i].kind = "section", SectionAt(v, i - 1) = Normal(e.section)
      PROVE  \E h \in 1 .. i - 1 : Assigns(v, h, e)
  <2>1. i \in DOMAIN s /\ v[i] = s[i]
    BY <1>1, <1>3 DEF IsLonger
  <2>2. SectionAt(v, i - 1) = SectionAt(s, i - 1)
    BY <1>1, <2>1 DEF IsLonger
  <2>3. PICK h \in 1 .. i - 1 : Assigns(s, h, e)
    BY <1>3, <2>1, <2>2 DEF Ended
  <2>4. Assigns(v, h, e)
    BY <1>1, <2>1, <2>3 DEF IsLonger
  <2> QED BY <2>4
<1> QED BY <1>1, <1>2, <1>3 DEF Written, Ended

LEMMA TitledWritten ==
  ASSUME NEW s \in Seq(Line), NEW x \in Line, NEW E, Written(s, E), Ended(s, E), x.kind = "section",
         \A e \in E : SectionAt(s, Len(s)) = Normal(e.section) => Has(s, e)
  PROVE  Written(Append(s, x), E) /\ Ended(Append(s, x), E)
<1>1. PICK v : v = Append(s, x) /\ IsLonger(v, s, x)
  BY Longer
<1>2. ASSUME NEW e \in E, NEW i \in DOMAIN v, Assigns(v, i, e) PROVE Says(v[i], e)
  <2>1. i \in DOMAIN s
    BY <1>1, <1>2 DEF IsLonger, IsKey
  <2> QED BY <1>1, <1>2, <2>1 DEF IsLonger, Written
<1>3. ASSUME NEW e \in E, NEW i \in DOMAIN v, v[i].kind = "section", SectionAt(v, i - 1) = Normal(e.section)
      PROVE  \E h \in 1 .. i - 1 : Assigns(v, h, e)
  <2>1. SectionAt(v, i - 1) = SectionAt(s, i - 1) /\ i \in 1 .. Len(s) + 1 /\ DOMAIN s = 1 .. Len(s)
    BY <1>1 DEF IsLonger
  <2>2. PICK h \in 1 .. i - 1 : Assigns(s, h, e)
    <3>1. CASE i \in DOMAIN s
      <4>1. v[i] = s[i]
        BY <1>1, <3>1 DEF IsLonger
      <4> QED BY <1>3, <2>1, <3>1, <4>1 DEF Ended
    <3>2. CASE i = Len(s) + 1
      <4>1. Has(s, e)
        BY <1>1, <1>3, <2>1, <3>2 DEF IsLonger
      <4> QED BY <1>1, <3>2, <4>1 DEF IsLonger, Has
    <3> QED BY <2>1, <3>1, <3>2
  <2>3. h \in DOMAIN s /\ Assigns(v, h, e)
    BY <1>1, <2>1, <2>2 DEF IsLonger
  <2> QED BY <2>3
<1> QED BY <1>1, <1>2, <1>3 DEF Written, Ended


\* E has one entry of u for whatever u sets.
Covers(E, u) ==
  /\ u \in Seq(Item) /\ E \subseteq Item /\ \A e \in E : Readable(e)
  /\ \A e, f \in E : Same(e, f) => e = f
  /\ \A e \in E : \E j \in DOMAIN u : e = u[j]
  /\ \A j \in DOMAIN u : \E e \in E : Same(e, u[j])

\* What a step makes of a pass, in the same section, that keeps its lines.
Further(to, at, u) ==
  /\ to \in Pass /\ to.section = at.section /\ to.sections = at.sections /\ at.keys \subseteq to.keys
  /\ Kept(to.output, u) = Kept(at.output, u)

LEMMA Fields ==
  /\ \A at \in Pass : at.output \in Seq(Line) /\ at.section \in Text
  /\ \A at \in Pass, x \in Line :
       /\ Copy(at, x).output = Append(at.output, x)
       /\ Copy(at, x).section = at.section /\ Copy(at, x).sections = at.sections /\ Copy(at, x).keys = at.keys
       /\ Titled(at, x).output = Append(at.output, x)
       /\ Titled(at, x).section = Normal(x.name) /\ Titled(at, x).keys = at.keys
       /\ Titled(at, x).sections = at.sections \cup {Normal(x.name)}
<1>1. \A at \in Pass : at.output \in Seq(Line) /\ at.section \in Text
  BY DEF Pass
<1>2. ASSUME NEW at \in Pass, NEW x \in Line
      PROVE  /\ Copy(at, x).output = Append(at.output, x)
             /\ Copy(at, x).section = at.section /\ Copy(at, x).sections = at.sections /\ Copy(at, x).keys = at.keys
             /\ Titled(at, x).output = Append(at.output, x)
             /\ Titled(at, x).section = Normal(x.name) /\ Titled(at, x).keys = at.keys
             /\ Titled(at, x).sections = at.sections \cup {Normal(x.name)}
  BY DEF Copy, Titled, Pass
<1> QED BY <1>1, <1>2

LEMMA Given ==
  ASSUME NEW at \in Pass, NEW e \in Item, NEW n \in Nat
  PROVE  /\ Give(at, e, n).output = at.output \o Indented(e.text, n)
         /\ Give(at, e, n).section = at.section /\ Give(at, e, n).sections = at.sections
         /\ Give(at, e, n).keys = at.keys \cup {<<at.section, Normal(e.key)>>}
BY DEF Give, Pass

\* What is written for an entry that is readable is one line.
LEMMA GivesLine ==
  ASSUME NEW at \in Pass, NEW e \in Item, Readable(e), NEW n \in Nat
  PROVE  Give(at, e, n).output = Append(at.output, Said(e, n))
<1>1. PICK s \in Seq(Line) : s = at.output
  BY Fields
<1>2. PICK x \in Line : x = Said(e, n)
  BY SaidIs
<1>3. s \o <<x>> = Append(s, x)
  OBVIOUS
<1>4. Give(at, e, n).output = s \o <<x>>
  <2>1. Give(at, e, n).output = s \o Indented(e.text, n)
    BY <1>1, Given
  <2>2. Indented(e.text, n) = <<x>>
    BY <1>2, SaidIs
  <2> QED BY ONLY <2>1, <2>2
<1> QED BY <1>1, <1>2, <1>3, <1>4

LEMMA HeadedTitled ==
  ASSUME NEW at \in Pass, NEW e \in Item, Readable(e)
  PROVE  Headed(at, e) = Titled(at, Section(e.section)) /\ Section(e.section) \in Line
<1>1. PICK s \in Seq(Line) : s = at.output
  BY Fields
<1>2. Section(e.section) \in Line /\ Section(e.section).name = e.section
  BY TextAssumption DEF Section, Item, Line
<1>3. PICK x \in Line : x = Section(e.section) /\ e.title = <<x>>
  BY <1>2 DEF Readable
<1>4. s \o <<x>> = Append(s, x)
  OBVIOUS
<1> QED BY <1>1, <1>2, <1>3, <1>4 DEF Headed, Titled

\* Writing an entry of the section the pass is in.
LEMMA HeldGive ==
  ASSUME NEW u, NEW E, Covers(E, u), NEW at, Held(at, E), NEW e \in E, Normal(e.section) = at.section,
         NEW n \in Nat
  PROVE  /\ Held(Give(at, e, n), E) /\ Further(Give(at, e, n), at, u)
         /\ <<Normal(e.section), Normal(e.key)>> \in Give(at, e, n).keys
<1> DEFINE to == Give(at, e, n)
           x == Said(e, n)
           s == at.output
<1>1. e \in Item /\ Readable(e) /\ at \in Pass /\ s \in Seq(Line) /\ to \in Pass
  BY Fields, Steps DEF Covers, Held
<1>2. /\ to.output = Append(s, x) /\ to.section = at.section /\ to.sections = at.sections
      /\ to.keys = at.keys \cup {<<at.section, Normal(e.key)>>}
      /\ x \in Line /\ IsKey(x) /\ Normal(x.name) = Normal(e.key)
  <2>1. x \in Line /\ IsKey(x) /\ Normal(x.name) = Normal(e.key)
    BY <1>1, SaidIs
  <2>2. to.output = Append(s, x)
    BY <1>1, GivesLine
  <2>3. to.section = at.section /\ to.sections = at.sections
        /\ to.keys = at.keys \cup {<<at.section, Normal(e.key)>>}
    BY <1>1, Given
  <2> QED BY <2>1, <2>2, <2>3
<1>3. at.section = SectionAt(s, Len(s)) /\ Written(s, E) /\ Ended(s, E)
  BY DEF Held
<1> HIDE DEF to
<1>4. Written(to.output, E) /\ Ended(to.output, E)
  <2>1. ASSUME NEW f \in E, SectionAt(s, Len(s)) = Normal(f.section), Normal(x.name) = Normal(f.key)
        PROVE  Says(x, f)
    <3>1. Same(e, f)
      BY <1>2, <1>3, <2>1 DEF Same
    <3>2. e = f
      BY <3>1 DEF Covers
    <3> QED BY <3>2 DEF Says
  <2> HIDE DEF x, s
  <2>2. x.kind # "section"
    BY <1>2 DEF IsKey
  <2> QED BY <1>1, <1>2, <1>3, <2>1, <2>2, LongerWritten
<1>5. ASSUME NEW f \in E, Has(s, f) PROVE Has(to.output, f)
  BY <1>1, <1>2, <1>5, LongerHas
<1>6. PICK v : v = to.output /\ IsLonger(v, s, x)
  BY <1>1, <1>2, Longer
<1>7. to.section = SectionAt(to.output, Len(to.output))
  BY <1>2, <1>3, <1>6 DEF IsLonger, IsKey
<1>8. ASSUME NEW f \in E, <<Normal(f.section), Normal(f.key)>> \in to.keys PROVE Has(to.output, f)
  <2>1. CASE <<Normal(f.section), Normal(f.key)>> \in at.keys
    BY <1>5, <2>1 DEF Held
  <2>2. CASE <<Normal(f.section), Normal(f.key)>> = <<at.section, Normal(e.key)>>
    <3> HIDE DEF x, s
    <3>1. Normal(f.section) = at.section /\ Normal(f.key) = Normal(e.key)
      BY <2>2
    <3>2. Assigns(v, Len(s) + 1, f) /\ Len(s) + 1 \in DOMAIN v
      BY <1>2, <1>3, <1>6, <3>1 DEF IsLonger
    <3> QED BY <1>6, <3>2 DEF Has
  <2> QED BY <1>2, <1>8, <2>1, <2>2
<1>9. ASSUME NEW f \in E, Normal(f.section) \in to.sections, Normal(f.section) # to.section PROVE Has(to.output, f)
  BY <1>2, <1>5, <1>9 DEF Held
<1>10. Kept(to.output, u) = Kept(s, u)
  <2>1. PICK j \in DOMAIN u : e = u[j]
    BY DEF Covers
  <2> DEFINE placed == <<IF x.kind = "section" THEN Normal(x.name) ELSE SectionAt(s, Len(s)), x>>
  <2>2. placed = <<at.section, x>>
    BY <1>2, <1>3 DEF IsKey
  <2>3. Kept(Append(s, x), u) = KeptWith(Kept(s, u), placed, u)
    <3> HIDE DEF x, s
    <3> QED BY <1>1, <1>2, KeptEquations DEF Covers
  <2> HIDE DEF placed, x, s
  <2>4. IsSet(placed, u)
    BY <1>2, <2>1, <2>2 DEF IsSet
  <2> QED BY <1>2, <2>3, <2>4 DEF KeptWith
<1>11. <<Normal(e.section), Normal(e.key)>> \in to.keys
  BY <1>2
<1>12. Held(to, E)
  BY <1>1, <1>4, <1>7, <1>8, <1>9 DEF Held
<1>13. Further(to, at, u)
  BY <1>1, <1>2, <1>10 DEF Further
<1> QED BY <1>11, <1>12, <1>13 DEF to

\* Copying a line that is no section and assigns no entry.
LEMMA HeldCopy ==
  ASSUME NEW E, NEW at, Held(at, E), NEW x \in Line, x.kind # "section",
         IsKey(x) => \A e \in E : ~(Normal(e.section) = at.section /\ Normal(e.key) = Normal(x.name))
  PROVE  Held(Copy(at, x), E)
<1> DEFINE to == Copy(at, x)
           s == at.output
<1>1. at \in Pass /\ s \in Seq(Line) /\ to \in Pass
  BY Fields, Steps DEF Held
<1>2. to.output = Append(s, x) /\ to.section = at.section /\ to.sections = at.sections /\ to.keys = at.keys
  BY <1>1, Fields
<1>3. at.section = SectionAt(s, Len(s)) /\ Written(s, E) /\ Ended(s, E)
  BY DEF Held
<1> HIDE DEF to
<1>4. Written(to.output, E) /\ Ended(to.output, E)
  <2>1. \A f \in E : ~(IsKey(x) /\ SectionAt(s, Len(s)) = Normal(f.section) /\ Normal(x.name) = Normal(f.key))
    BY <1>3
  <2> HIDE DEF s
  <2> QED BY <1>1, <1>2, <1>3, <2>1, LongerWritten
<1>5. ASSUME NEW f \in E, Has(s, f) PROVE Has(to.output, f)
  BY <1>1, <1>2, <1>5, LongerHas
<1>6. to.section = SectionAt(to.output, Len(to.output))
  <2>1. IsLonger(to.output, s, x)
    BY <1>1, <1>2, Longer
  <2> QED BY <1>2, <1>3, <2>1 DEF IsLonger
<1>7. Held(to, E)
  BY <1>1, <1>2, <1>4, <1>5, <1>6 DEF Held
<1> QED BY <1>7 DEF to

\* The line of the next section, when that before it is complete.
LEMMA HeldTitled ==
  ASSUME NEW E, NEW at, Held(at, E), Complete(at, E), NEW x \in Line, x.kind = "section"
  PROVE  Held(Titled(at, x), E)
<1> DEFINE to == Titled(at, x)
           s == at.output
<1>1. at \in Pass /\ s \in Seq(Line) /\ to \in Pass
  BY Fields, Steps DEF Held
<1>2. /\ to.output = Append(s, x) /\ to.section = Normal(x.name) /\ to.keys = at.keys
      /\ to.sections = at.sections \cup {Normal(x.name)}
  BY <1>1, Fields
<1>3. at.section = SectionAt(s, Len(s)) /\ Written(s, E) /\ Ended(s, E)
  BY DEF Held
<1>4. \A f \in E : at.section = Normal(f.section) => Has(s, f)
  BY DEF Held, Complete
<1> HIDE DEF to
<1>5. Written(to.output, E) /\ Ended(to.output, E)
  <2> HIDE DEF s
  <2> QED BY <1>1, <1>2, <1>3, <1>4, TitledWritten
<1>6. ASSUME NEW f \in E, Has(s, f) PROVE Has(to.output, f)
  BY <1>1, <1>2, <1>6, LongerHas
<1>7. to.section = SectionAt(to.output, Len(to.output))
  <2>1. IsLonger(to.output, s, x)
    BY <1>1, <1>2, Longer
  <2> QED BY <1>2, <2>1 DEF IsLonger
<1>8. ASSUME NEW f \in E, Normal(f.section) \in to.sections, Normal(f.section) # to.section PROVE Has(to.output, f)
  <2>1. Normal(f.section) \in at.sections
    BY <1>2, <1>8
  <2>2. Has(s, f)
    BY <1>4, <2>1 DEF Held
  <2> QED BY <1>6, <2>2
<1>9. Held(to, E)
  BY <1>1, <1>2, <1>5, <1>6, <1>7, <1>8 DEF Held
<1> QED BY <1>9 DEF to


-----------------------------------------------------------------------------
(* The loops *)

Entries(p) == {p[j] : j \in DOMAIN p}

LEMMA CoversPending ==
  ASSUME NEW u \in Seq(Item), \A j \in DOMAIN u : Readable(u[j])
  PROVE  Covers(Entries(Pending(u)), u)
<1>1. Stands(Pending(u), u)
  BY PendingStands
<1>2. \A j \in DOMAIN Pending(u) : Pending(u)[j] \in Item
  BY <1>1 DEF Stands
<1> QED BY <1>1, <1>2 DEF Stands, Covers, Entries

Supplied(to, at, p, E, u) ==
  /\ Held(to, E) /\ Further(to, at, u)
  /\ \A j \in DOMAIN p : Normal(p[j].section) = at.section => <<Normal(p[j].section), Normal(p[j].key)>> \in to.keys

LEMMA HeldAppendMissing ==
  ASSUME NEW u, NEW E, Covers(E, u), NEW at, Held(at, E), NEW p \in Seq(Item), Entries(p) \subseteq E
  PROVE  Supplied(AppendMissing(at, p), at, p, E, u)
<1> DEFINE T == {s \in Seq(Item) : Entries(s) \subseteq E => Supplied(AppendMissing(at, s), at, s, E, u)}
<1>1. at \in Pass
  BY DEF Held
<1>2. <<>> \in T
  <2>1. Further(at, at, u)
    BY <1>1 DEF Further
  <2>2. <<>> \in Seq(Item) /\ DOMAIN <<>> = {}
    OBVIOUS
  <2> QED BY <1>1, <2>1, <2>2, AppendMissingEquations DEF Supplied
<1>3. ASSUME NEW s \in Seq(Item), NEW e \in Item, s \in T PROVE Append(s, e) \in T
  <2>1. PICK v : v = Append(s, e)
    OBVIOUS
  <2>2. v \in Seq(Item) /\ DOMAIN s = 1 .. Len(s) /\ DOMAIN v = 1 .. Len(s) + 1 /\ Len(s) \in Nat
        /\ v[Len(s) + 1] = e /\ \A i \in DOMAIN s : v[i] = s[i]
    BY <2>1
  <2>3. SUFFICES ASSUME Entries(v) \subseteq E PROVE Supplied(AppendMissing(at, v), at, v, E, u)
    BY <2>1, <2>2
  <2>4. Entries(s) \subseteq E /\ e \in E
    BY <2>2, <2>3 DEF Entries
  <2>5. PICK to : to = AppendMissing(at, s) /\ Supplied(to, at, s, E, u)
    BY <1>3, <2>4
  <2>6. AppendMissing(at, v) = Supply(to, e)
    BY <1>1, <2>1, <2>5, AppendMissingEquations
  <2>7. Held(to, E) /\ Further(to, at, u)
    BY <2>5 DEF Supplied
  <2>8. CASE Normal(e.section) = to.section /\ <<to.section, Normal(e.key)>> \notin to.keys
    <3>1. Supply(to, e) = Give(to, e, 0)
      BY <2>8 DEF Supply
    <3>2. Held(Give(to, e, 0), E) /\ Further(Give(to, e, 0), to, u) /\ <<Normal(e.section), Normal(e.key)>> \in Give(to, e, 0).keys
      BY <2>4, <2>7, <2>8, HeldGive
    <3>3. Further(Give(to, e, 0), at, u)
      BY <2>7, <3>2 DEF Further
    <3>4. to.keys \subseteq Give(to, e, 0).keys
      BY <3>2 DEF Further
    <3>5. \A j \in DOMAIN s : Normal(s[j].section) = at.section
                              => <<Normal(s[j].section), Normal(s[j].key)>> \in Give(to, e, 0).keys
      BY <2>5, <3>4 DEF Supplied
    <3>6. ASSUME NEW j \in DOMAIN v, Normal(v[j].section) = at.section
          PROVE  <<Normal(v[j].section), Normal(v[j].key)>> \in Give(to, e, 0).keys
      <4>1. CASE j \in DOMAIN s
        <5>1. v[j] = s[j]
          BY <2>2, <4>1
        <5> QED BY <3>5, <3>6, <4>1, <5>1
      <4>2. CASE j = Len(s) + 1
        <5>1. v[j] = e
          BY <2>2, <4>2
        <5> QED BY <3>2, <3>6, <5>1
      <4> QED BY <2>2, <4>1, <4>2
    <3> QED BY <2>6, <3>1, <3>2, <3>3, <3>6 DEF Supplied
  <2>9. CASE ~(Normal(e.section) = to.section /\ <<to.section, Normal(e.key)>> \notin to.keys)
    <3>1. Supply(to, e) = to /\ to.section = at.section
      BY <2>7, <2>9 DEF Supply, Further
    <3>2. \A j \in DOMAIN s : Normal(s[j].section) = at.section
                              => <<Normal(s[j].section), Normal(s[j].key)>> \in to.keys
      BY <2>5 DEF Supplied
    <3>3. Normal(e.section) = at.section => <<Normal(e.section), Normal(e.key)>> \in to.keys
      BY <2>9, <3>1
    <3>4. ASSUME NEW j \in DOMAIN v, Normal(v[j].section) = at.section
          PROVE  <<Normal(v[j].section), Normal(v[j].key)>> \in to.keys
      <4>1. CASE j \in DOMAIN s
        <5>1. v[j] = s[j]
          BY <2>2, <4>1
        <5> QED BY <3>2, <3>4, <4>1, <5>1
      <4>2. CASE j = Len(s) + 1
        <5>1. v[j] = e
          BY <2>2, <4>2
        <5> QED BY <3>3, <3>4, <5>1
      <4> QED BY <2>2, <4>1, <4>2
    <3> QED BY <2>6, <2>7, <3>1, <3>4 DEF Supplied
  <2> QED BY <2>8, <2>9
<1> HIDE DEF T
<1>4. p \in T
  BY <1>2, <1>3, SequenceInduction
<1> QED BY <1>4 DEF T

\* After append_missing the section is complete.
LEMMA AppendMissingCompletes ==
  ASSUME NEW u, NEW p \in Seq(Item), Covers(Entries(p), u), NEW at, Held(at, Entries(p))
  PROVE  LET to == AppendMissing(at, p)
         IN Held(to, Entries(p)) /\ Further(to, at, u) /\ Complete(to, Entries(p))
<1>1. PICK to : to = AppendMissing(at, p) /\ Supplied(to, at, p, Entries(p), u)
  BY HeldAppendMissing
<1>2. Complete(to, Entries(p))
  <2>1. to.section = at.section
    BY <1>1 DEF Supplied, Further
  <2> QED BY <1>1, <2>1 DEF Supplied, Complete, Entries
<1> QED BY <1>1, <1>2 DEF Supplied

\* The pass has read the lines, and no other.
InStep(at, lines, E, u) ==
  /\ Held(at, E) /\ Kept(at.output, u) = Kept(lines, u)
  /\ at.section = SectionAt(lines, Len(lines))

LEMMA TakeInStep ==
  ASSUME NEW u, NEW p \in Seq(Item), Covers(Entries(p), u), NEW l \in Seq(Line), NEW x \in Line,
         NEW at, InStep(at, l, Entries(p), u)
  PROVE  InStep(Take(at, x, p), Append(l, x), Entries(p), u)
<1> DEFINE E == Entries(p)
           placed == <<IF x.kind = "section" THEN Normal(x.name) ELSE at.section, x>>
<1>1. u \in Seq(Item) /\ Held(at, E) /\ at \in Pass /\ at.output \in Seq(Line)
  BY Fields DEF InStep, Held, Covers
<1>2. at.section = SectionAt(at.output, Len(at.output)) /\ at.section = SectionAt(l, Len(l))
      /\ Kept(at.output, u) = Kept(l, u)
  BY DEF InStep, Held
<1>3. PICK m : m = Append(l, x) /\ IsLonger(m, l, x)
  BY Longer
<1>4. Kept(m, u) = KeptWith(Kept(l, u), placed, u)
  BY <1>1, <1>2, <1>3, KeptEquations
<1>5. SectionAt(m, Len(m)) = IF x.kind = "section" THEN Normal(x.name) ELSE at.section
  BY <1>2, <1>3 DEF IsLonger
<1> HIDE DEF E
<1>6. CASE x.kind = "section"
  <2>1. PICK to : to = AppendMissing(at, p) /\ Held(to, E) /\ Further(to, at, u) /\ Complete(to, E)
    BY <1>1, AppendMissingCompletes DEF E
  <2>2. Take(at, x, p) = Titled(to, x) /\ Held(Titled(to, x), E)
    BY <1>6, <2>1, HeldTitled DEF Take, IsKey
  <2>3. to \in Pass /\ to.output \in Seq(Line) /\ Kept(to.output, u) = Kept(l, u)
    BY <1>2, <2>1, Fields DEF Further
  <2>4. Titled(to, x).output = Append(to.output, x) /\ Titled(to, x).section = Normal(x.name)
    BY <2>3, Fields
  <2>5. placed = <<Normal(x.name), x>> /\ Kept(Append(to.output, x), u) = KeptWith(Kept(to.output, u), <<Normal(x.name), x>>, u)
    BY <1>1, <1>6, <2>3, KeptEquations
  <2> QED BY <1>3, <1>4, <1>5, <1>6, <2>2, <2>3, <2>4, <2>5 DEF InStep, E
<1>7. CASE x.kind # "section"
  <2>1. placed = <<at.section, x>> /\ x.kind # "section"
    BY <1>7
  <2> HIDE DEF placed
  <2>2. Kept(Append(at.output, x), u) = Kept(m, u)
    <3>1. Kept(Append(at.output, x), u) = KeptWith(Kept(at.output, u), <<SectionAt(at.output, Len(at.output)), x>>, u)
      BY <1>1, <1>7, KeptEquations
    <3> QED BY <1>2, <1>4, <2>1, <3>1
  <2>3. CASE Take(at, x, p) = Copy(at, x) /\ (IsKey(x) => Mine(at, x, p) = {})
    <3>1. IsKey(x) => \A e \in E : ~(Normal(e.section) = at.section /\ Normal(e.key) = Normal(x.name))
      BY <2>3 DEF Mine, E, Entries
    <3>2. Held(Copy(at, x), E)
      BY <1>1, <1>7, <3>1, HeldCopy
    <3>3. Copy(at, x).output = Append(at.output, x) /\ Copy(at, x).section = at.section
      BY <1>1, Fields
    <3> QED BY <1>3, <1>5, <1>7, <2>2, <2>3, <3>2, <3>3 DEF InStep, E
  <2>4. CASE IsKey(x) /\ Mine(at, x, p) # {}
    <3>1. PICK c \in Mine(at, x, p) : Take(at, x, p) = Give(at, p[c], Indent(x))
      BY <1>7, <2>4 DEF Take, Replace
    <3>2. p[c] \in E /\ Normal(p[c].section) = at.section /\ Normal(p[c].key) = Normal(x.name)
      BY DEF Mine, E, Entries
    <3>3. Held(Give(at, p[c], Indent(x)), E) /\ Further(Give(at, p[c], Indent(x)), at, u)
      BY <1>1, <2>4, <3>2, HeldGive, Lines DEF E
    <3>4. PICK j \in DOMAIN u : p[c] = u[j]
      BY <3>2 DEF Covers, E
    <3>5. IsSet(placed, u)
      BY <2>1, <2>4, <3>2, <3>4 DEF IsSet
    <3>6. Kept(m, u) = Kept(l, u)
      BY <1>4, <3>5 DEF KeptWith
    <3> QED BY <1>2, <1>3, <1>5, <1>7, <3>1, <3>3, <3>6 DEF InStep, Further, E
  <2> QED BY <1>7, <2>3, <2>4 DEF Take, Replace, IsKey
<1> QED BY <1>6, <1>7

LEMMA ReadInStep ==
  ASSUME NEW u, NEW p \in Seq(Item), Covers(Entries(p), u), NEW lines \in Seq(Line)
  PROVE  InStep(Read(lines, p), lines, Entries(p), u)
<1> DEFINE T == {l \in Seq(Line) : InStep(Read(l, p), l, Entries(p), u)}
<1>1. <<>> \in T
  <2>1. <<>> \in Seq(Line) /\ Len(<<>>) = 0 /\ DOMAIN <<>> = {}
    OBVIOUS
  <2>2. Start \in Pass /\ Start.output = <<>> /\ Start.section = Nowhere /\ Start.sections = {} /\ Start.keys = {}
    BY Steps DEF Start
  <2>3. SectionAt(<<>>, 0) = Nowhere
    BY <2>1, Sections
  <2>4. Held(Start, Entries(p))
    BY <2>1, <2>2, <2>3 DEF Held, Written, Ended
  <2> QED BY <2>1, <2>2, <2>3, <2>4, ReadEquations DEF InStep
<1>2. ASSUME NEW l \in Seq(Line), NEW x \in Line, l \in T PROVE Append(l, x) \in T
  <2>1. Append(l, x) \in Seq(Line)
    OBVIOUS
  <2> QED BY <1>2, <2>1, TakeInStep, ReadEquations
<1> HIDE DEF T
<1>3. lines \in T
  BY <1>1, <1>2, SequenceInduction
<1> QED BY <1>3 DEF T


\* Nothing but empty lines and sections is added to what is kept.
Grown(old, new) ==
  /\ old \in Seq(Text \X Line) /\ new \in Seq(Text \X Line) /\ Len(old) <= Len(new)
  /\ \A i \in 1 .. Len(old) : new[i] = old[i]
  /\ \A i \in Len(old) + 1 .. Len(new) : new[i][2].kind \in {"blank", "section"}

LEMMA GrownOn ==
  ASSUME NEW a, NEW b, NEW c, Grown(a, b), Grown(b, c)
  PROVE  Grown(a, c)
<1>1. Len(a) \in Nat /\ Len(b) \in Nat /\ Len(c) \in Nat
  BY DEF Grown
<1>2. \A i \in 1 .. Len(a) : i \in 1 .. Len(b)
  BY <1>1 DEF Grown
<1>3. \A i \in Len(a) + 1 .. Len(c) :
        \/ i \in Len(a) + 1 .. Len(b) /\ i \in 1 .. Len(b)
        \/ i \in Len(b) + 1 .. Len(c)
  BY <1>1 DEF Grown
<1>4. \A i \in Len(a) + 1 .. Len(c) : c[i][2].kind \in {"blank", "section"}
  BY <1>3 DEF Grown
<1> QED BY <1>1, <1>2, <1>4 DEF Grown

LEMMA GrownByOne ==
  ASSUME NEW u \in Seq(Item), NEW s \in Seq(Line), NEW x \in Line, x.kind \in {"blank", "section"}
  PROVE  Grown(Kept(s, u), Kept(Append(s, x), u))
<1> DEFINE placed == <<IF x.kind = "section" THEN Normal(x.name) ELSE SectionAt(s, Len(s)), x>>
<1>1. Kept(Append(s, x), u) = KeptWith(Kept(s, u), placed, u)
  BY KeptEquations
<1>2. placed[2] = x /\ ~IsSet(placed, u)
  BY DEF IsSet, IsKey
<1> HIDE DEF placed
<1>3. Kept(Append(s, x), u) = Append(Kept(s, u), placed)
  BY <1>1, <1>2 DEF KeptWith
<1>4. Kept(s, u) \in Seq(Text \X Line) /\ Kept(Append(s, x), u) \in Seq(Text \X Line)
  <2>1. Append(s, x) \in Seq(Line)
    OBVIOUS
  <2> QED BY <2>1, KeptEquations
<1> QED BY <1>2, <1>3, <1>4 DEF Grown

LEMMA GrownNot ==
  ASSUME NEW u \in Seq(Item), NEW s \in Seq(Line)
  PROVE  Grown(Kept(s, u), Kept(s, u))
<1>1. Kept(s, u) \in Seq(Text \X Line)
  BY KeptEquations
<1> QED BY <1>1 DEF Grown

\* Sections have been added, the last of which has its entries.
Added(to, at, E, u) ==
  /\ Held(to, E) /\ Complete(to, E) /\ at.sections \subseteq to.sections
  /\ Grown(Kept(at.output, u), Kept(to.output, u))

LEMMA SectionAdded ==
  ASSUME NEW u, NEW p \in Seq(Item), Covers(Entries(p), u), NEW e \in Item, Readable(e),
         NEW at, Held(at, Entries(p)), Complete(at, Entries(p))
  PROVE  Added(AddSection(at, e, p), at, Entries(p), u) /\ Normal(e.section) \in AddSection(at, e, p).sections
<1> DEFINE E == Entries(p)
           x == Section(e.section)
<1>1. u \in Seq(Item) /\ at \in Pass /\ at.output \in Seq(Line)
  BY Fields DEF Held, Covers
<1>2. /\ x \in Line /\ x.kind = "section" /\ Normal(x.name) = Normal(e.section)
      /\ Blank \in Line /\ Blank.kind = "blank"
  <2>1. x \in Line
    BY <1>1, HeadedTitled
  <2> QED BY <2>1, Lines DEF Section
<1> HIDE DEF E, x
<1>3. CASE Normal(e.section) \in at.sections
  <2>1. AddSection(at, e, p) = at
    BY <1>3 DEF AddSection
  <2> QED BY <1>1, <1>3, <2>1, GrownNot DEF Added, E
<1>4. CASE Normal(e.section) \notin at.sections
  <2>1. PICK spaced : spaced = Spaced(at)
    OBVIOUS
  <2>2. Held(spaced, E) /\ Complete(spaced, E) /\ spaced.sections = at.sections /\ spaced \in Pass
        /\ Grown(Kept(at.output, u), Kept(spaced.output, u))
    <3>1. CASE spaced = at
      BY <1>1, <3>1, GrownNot DEF E
    <3>2. CASE spaced = Copy(at, Blank)
      <4>1. Held(spaced, E)
        BY <1>2, <3>2, HeldCopy DEF E, IsKey
      <4>2. spaced.output = Append(at.output, Blank) /\ spaced.section = at.section
            /\ spaced.sections = at.sections /\ spaced.keys = at.keys
        BY <1>1, <1>2, <3>2, Fields
      <4>3. Complete(spaced, E)
        BY <4>2 DEF Complete, E
      <4>4. Grown(Kept(at.output, u), Kept(spaced.output, u))
        BY <1>1, <1>2, <4>2, GrownByOne
      <4> QED BY <4>1, <4>2, <4>3, <4>4 DEF Held
    <3> QED BY <2>1, <3>1, <3>2 DEF Spaced
  <2>3. PICK titled : titled = Titled(spaced, x)
    OBVIOUS
  <2>4. Held(titled, E)
    BY <1>2, <2>2, <2>3, HeldTitled
  <2>5. spaced.output \in Seq(Line) /\ titled.output = Append(spaced.output, x)
        /\ titled.sections = at.sections \cup {Normal(e.section)}
    BY <1>2, <2>2, <2>3, Fields
  <2>6. Grown(Kept(spaced.output, u), Kept(titled.output, u))
    BY <1>1, <1>2, <2>5, GrownByOne
  <2>7. PICK to : to = AppendMissing(titled, p) /\ Held(to, E) /\ Further(to, titled, u) /\ Complete(to, E)
    BY <2>4, AppendMissingCompletes DEF E
  <2>8. AddSection(at, e, p) = to
    BY <1>4, <2>1, <2>2, <2>3, <2>7, HeadedTitled DEF AddSection, x
  <2>9. Grown(Kept(at.output, u), Kept(to.output, u))
    <3>1. Kept(to.output, u) = Kept(titled.output, u)
      BY <2>7 DEF Further
    <3> QED BY <2>2, <2>6, <3>1, GrownOn
  <2>10. at.sections \subseteq to.sections /\ Normal(e.section) \in to.sections
    BY <2>5, <2>7 DEF Further
  <2> QED BY <2>7, <2>8, <2>9, <2>10 DEF Added, E
<1> QED BY <1>3, <1>4

LEMMA SectionsAdded ==
  ASSUME NEW u, NEW p \in Seq(Item), Covers(Entries(p), u),
         NEW s \in Seq(Item), \A j \in DOMAIN s : Readable(s[j]),
         NEW at, Held(at, Entries(p)), Complete(at, Entries(p))
  PROVE  /\ Added(AddSections(at, s, p), at, Entries(p), u)
         /\ \A j \in DOMAIN s : Normal(s[j].section) \in AddSections(at, s, p).sections
<1> DEFINE E == Entries(p)
           Is(to, r) == Added(to, at, E, u) /\ \A j \in DOMAIN r : Normal(r[j].section) \in to.sections
           R == {e \in Item : Readable(e)}
           T == {r \in Seq(R) : Is(AddSections(at, r, p), r)}
<1>1. u \in Seq(Item) /\ at \in Pass /\ at.output \in Seq(Line)
  BY Fields DEF Held, Covers
<1>2. <<>> \in T
  <2>1. <<>> \in Seq(R) /\ DOMAIN <<>> = {}
    OBVIOUS
  <2>2. Added(at, at, E, u)
    BY <1>1, GrownNot DEF Added
  <2> QED BY <1>1, <2>1, <2>2, AddSectionsEquations
<1>3. ASSUME NEW r \in Seq(R), NEW e \in R, r \in T PROVE Append(r, e) \in T
  <2>0. r \in Seq(Item) /\ e \in Item /\ Readable(e)
    OBVIOUS
  <2>1. PICK to : to = AddSections(at, r, p) /\ Is(to, r)
    BY <1>3
  <2>2. PICK next : next = AddSection(to, e, p)
    OBVIOUS
  <2>3. Added(next, to, E, u) /\ Normal(e.section) \in next.sections
    BY <2>0, <2>1, <2>2, SectionAdded DEF Added
  <2>4. AddSections(at, Append(r, e), p) = next
    BY <1>1, <2>0, <2>1, <2>2, AddSectionsEquations
  <2>5. Added(next, at, E, u)
    <3>1. Grown(Kept(at.output, u), Kept(next.output, u))
      BY <2>1, <2>3, GrownOn DEF Added
    <3> QED BY <2>1, <2>3, <3>1 DEF Added
  <2>6. PICK v : v = Append(r, e)
    OBVIOUS
  <2>7. v \in Seq(R) /\ DOMAIN v = 1 .. Len(r) + 1 /\ DOMAIN r = 1 .. Len(r) /\ Len(r) \in Nat
        /\ v[Len(r) + 1] = e /\ \A j \in DOMAIN r : v[j] = r[j]
    BY <2>6
  <2>8. ASSUME NEW j \in DOMAIN v PROVE Normal(v[j].section) \in next.sections
    <3>1. CASE j \in DOMAIN r
      BY <2>1, <2>3, <2>7, <3>1 DEF Added
    <3>2. CASE j = Len(r) + 1
      BY <2>3, <2>7, <3>2
    <3> QED BY <2>7, <3>1, <3>2
  <2> QED BY <2>4, <2>5, <2>6, <2>7, <2>8
<1>4. s \in T
  <2>1. s \in Seq(R)
    OBVIOUS
  <2> HIDE DEF T, R
  <2> QED BY <1>2, <1>3, <2>1, SequenceInduction
<1> QED BY <1>4

\* The file has each entry, and what the entry says wherever it has its key; a
\* section has all its entries when it ends.
Settled(lines, E) == Written(lines, E) /\ Ended(lines, E) /\ \A e \in E : Has(lines, e)

LEMMA MergeSettles ==
  ASSUME NEW lines \in Seq(Line), NEW u \in Seq(Item), \A j \in DOMAIN u : Readable(u[j])
  PROVE  /\ Settled(Merge(lines, u), Entries(Pending(u)))
         /\ Grown(Kept(lines, u), Kept(Merge(lines, u), u))
<1>1. PICK p : p = Pending(u)
  OBVIOUS
<1>2. p \in Seq(Item) /\ Covers(Entries(p), u)
  BY <1>1, PendingEquations, CoversPending
<1>3. PICK E : E = Entries(p)
  OBVIOUS
<1>4. PICK read : read = Read(lines, p) /\ InStep(read, lines, E, u)
  BY <1>2, <1>3, ReadInStep
<1>5. PICK at : at = AppendMissing(read, p) /\ Held(at, E) /\ Further(at, read, u) /\ Complete(at, E)
  BY <1>2, <1>3, <1>4, AppendMissingCompletes DEF InStep
<1>6. PICK to : /\ to = AddSections(at, u, p) /\ Added(to, at, E, u)
                /\ \A j \in DOMAIN u : Normal(u[j].section) \in to.sections
  BY <1>2, <1>3, <1>5, SectionsAdded DEF Covers
<1>7. Merge(lines, u) = to.output
  BY <1>1, <1>4, <1>5, <1>6 DEF Merge
<1>9. Grown(Kept(lines, u), Kept(to.output, u))
  BY <1>4, <1>5, <1>6 DEF InStep, Further, Added
<1>10. ASSUME NEW e \in E PROVE Has(to.output, e)
  <2>1. Normal(e.section) \in to.sections
    BY <1>2, <1>3, <1>6 DEF Covers
  <2>2. Held(to, E) /\ Complete(to, E)
    BY <1>6 DEF Added
  <2> QED BY <2>1, <2>2 DEF Held, Complete
<1>11. Settled(to.output, E)
  BY <1>6, <1>10 DEF Added, Held, Settled
<1> QED BY <1>1, <1>3, <1>7, <1>9, <1>11


-----------------------------------------------------------------------------
(* What is settled stays as it is *)

LEMMA AppendNothing ==
  ASSUME NEW at \in Pass, NEW p \in Seq(Item),
         \A j \in DOMAIN p : Normal(p[j].section) = at.section => <<at.section, Normal(p[j].key)>> \in at.keys
  PROVE  AppendMissing(at, p) = at
<1> DEFINE Is(e) == Normal(e.section) = at.section => <<at.section, Normal(e.key)>> \in at.keys
           T == {s \in Seq(Item) : (\A j \in DOMAIN s : Is(s[j])) => AppendMissing(at, s) = at}
<1>1. <<>> \in T
  <2>1. <<>> \in Seq(Item)
    OBVIOUS
  <2> QED BY <2>1, AppendMissingEquations
<1>2. ASSUME NEW s \in Seq(Item), NEW e \in Item, s \in T PROVE Append(s, e) \in T
  <2>1. PICK v : v = Append(s, e)
    OBVIOUS
  <2>2. v \in Seq(Item) /\ DOMAIN v = 1 .. Len(s) + 1 /\ DOMAIN s = 1 .. Len(s) /\ Len(s) \in Nat
        /\ v[Len(s) + 1] = e /\ \A j \in DOMAIN s : v[j] = s[j]
    BY <2>1
  <2> HIDE DEF Is
  <2>3. SUFFICES ASSUME \A j \in DOMAIN v : Is(v[j]) PROVE AppendMissing(at, v) = at
    BY <2>1, <2>2
  <2>4. Is(e) /\ \A j \in DOMAIN s : Is(s[j])
    BY <2>2, <2>3
  <2>5. AppendMissing(at, s) = at
    BY <1>2, <2>4
  <2>6. AppendMissing(at, v) = Supply(at, e)
    BY <2>1, <2>5, AppendMissingEquations
  <2> QED BY <2>4, <2>6 DEF Supply, Is
<1>3. p \in T
  <2> HIDE DEF T
  <2> QED BY <1>1, <1>2, SequenceInduction
<1>4. \A j \in DOMAIN p : Is(p[j])
  OBVIOUS
<1> HIDE DEF Is
<1> QED BY <1>3, <1>4

LEMMA AddNothing ==
  ASSUME NEW at \in Pass, NEW p \in Seq(Item), NEW u \in Seq(Item),
         \A j \in DOMAIN u : Normal(u[j].section) \in at.sections
  PROVE  AddSections(at, u, p) = at
<1> DEFINE Is(e) == Normal(e.section) \in at.sections
           T == {s \in Seq(Item) : (\A j \in DOMAIN s : Is(s[j])) => AddSections(at, s, p) = at}
<1>1. <<>> \in T
  <2>1. <<>> \in Seq(Item)
    OBVIOUS
  <2> QED BY <2>1, AddSectionsEquations
<1>2. ASSUME NEW s \in Seq(Item), NEW e \in Item, s \in T PROVE Append(s, e) \in T
  <2>1. PICK v : v = Append(s, e)
    OBVIOUS
  <2>2. v \in Seq(Item) /\ DOMAIN v = 1 .. Len(s) + 1 /\ DOMAIN s = 1 .. Len(s) /\ Len(s) \in Nat
        /\ v[Len(s) + 1] = e /\ \A j \in DOMAIN s : v[j] = s[j]
    BY <2>1
  <2> HIDE DEF Is
  <2>3. SUFFICES ASSUME \A j \in DOMAIN v : Is(v[j]) PROVE AddSections(at, v, p) = at
    BY <2>1, <2>2
  <2>4. Is(e) /\ \A j \in DOMAIN s : Is(s[j])
    BY <2>2, <2>3
  <2>5. AddSections(at, s, p) = at
    BY <1>2, <2>4
  <2>6. AddSections(at, v, p) = AddSection(at, e, p)
    BY <2>1, <2>5, AddSectionsEquations
  <2> QED BY <2>4, <2>6 DEF AddSection, Is
<1>3. u \in T
  <2> HIDE DEF T
  <2> QED BY <1>1, <1>2, SequenceInduction
<1>4. \A j \in DOMAIN u : Is(u[j])
  OBVIOUS
<1> HIDE DEF Is
<1> QED BY <1>3, <1>4

LEMMA SectionHasLine ==
  ASSUME NEW l \in Seq(Line), NEW i \in 0 .. Len(l), SectionAt(l, i) # Nowhere
  PROVE  \E j \in DOMAIN l : l[j].kind = "section" /\ Normal(l[j].name) = SectionAt(l, i)
<1> DEFINE Is(s) == s = Nowhere \/ \E j \in DOMAIN l : l[j].kind = "section" /\ Normal(l[j].name) = s
           T == {k \in 0 .. Len(l) : Is(SectionAt(l, k))}
<1>1. Len(l) \in Nat /\ DOMAIN l = 1 .. Len(l)
  OBVIOUS
<1>2. 0 \in T
  BY <1>1, Sections
<1>3. ASSUME NEW k \in 1 .. Len(l), k - 1 \in T PROVE k \in T
  <2>1. SectionAt(l, k) = IF l[k].kind = "section" THEN Normal(l[k].name) ELSE SectionAt(l, k - 1)
    BY Sections
  <2>2. CASE l[k].kind = "section"
    <3>1. Is(SectionAt(l, k))
      BY <1>1, <2>1, <2>2
    <3> QED BY <1>1, <3>1
  <2>3. CASE l[k].kind # "section"
    <3> HIDE DEF Is
    <3> QED BY <1>1, <1>3, <2>1, <2>3
  <2> QED BY <2>2, <2>3
<1>4. \A k \in 0 .. Len(l) : k \in T
  <2> HIDE DEF T
  <2> QED BY <1>1, <1>2, <1>3, RangeInduction
<1>5. Is(SectionAt(l, i))
  <2> HIDE DEF Is
  <2> QED BY <1>4
<1> QED BY <1>5

\* The pass has left the lines as they were.
Reread(at, l, E) ==
  /\ at \in Pass /\ at.output = l /\ at.section = SectionAt(l, Len(l))
  /\ \A e \in E : Has(l, e) => <<Normal(e.section), Normal(e.key)>> \in at.keys
  /\ \A i \in DOMAIN l : l[i].kind = "section" => Normal(l[i].name) \in at.sections

LEMMA TakeRereads ==
  ASSUME NEW p \in Seq(Item), NEW l \in Seq(Line), NEW x \in Line, NEW at, Reread(at, l, Entries(p)),
         \A e \in Entries(p) : Steady(e),
         Written(Append(l, x), Entries(p)), Ended(Append(l, x), Entries(p))
  PROVE  Reread(Take(at, x, p), Append(l, x), Entries(p))
<1>1. PICK m : m = Append(l, x) /\ IsLonger(m, l, x)
  BY Longer
<1>2. PICK E : E = Entries(p)
  OBVIOUS
<1>3. Written(m, E) /\ Ended(m, E) /\ Reread(at, l, E) /\ at \in Pass /\ at.output = l
  BY <1>1, <1>2 DEF Reread
<1>4. \A e \in E : Has(m, e) => Has(l, e) \/ Assigns(m, Len(l) + 1, e)
  BY <1>1 DEF Has, IsLonger
<1>5. CASE x.kind = "section"
  <2>1. AppendMissing(at, p) = at
    <3>1. ASSUME NEW j \in DOMAIN p, Normal(p[j].section) = at.section
          PROVE  <<at.section, Normal(p[j].key)>> \in at.keys
      <4>1. p[j] \in E /\ SectionAt(m, Len(l)) = Normal(p[j].section) /\ m[Len(l) + 1] = x
            /\ Len(l) + 1 \in DOMAIN m /\ Len(l) \in Nat
        BY <1>1, <1>2, <1>3, <3>1 DEF Entries, Reread, IsLonger
      <4>2. PICK h \in 1 .. Len(l) : Assigns(m, h, p[j])
        BY <1>3, <1>5, <4>1 DEF Ended
      <4>3. Has(l, p[j])
        BY <1>1, <4>2 DEF IsLonger, Has
      <4> QED BY <1>3, <3>1, <4>1, <4>3 DEF Reread
    <3> QED BY <1>3, <3>1, AppendNothing
  <2>2. PICK to : to = Titled(at, x) /\ Take(at, x, p) = to
    BY <1>5, <2>1 DEF Take, IsKey
  <2>3. /\ to \in Pass /\ to.output = m /\ to.section = Normal(x.name) /\ to.keys = at.keys
        /\ to.sections = at.sections \cup {Normal(x.name)}
    <3>1. to \in Pass
      BY <1>3, <2>2, Steps
    <3>2. /\ Titled(at, x).output = Append(at.output, x)
          /\ Titled(at, x).section = Normal(x.name) /\ Titled(at, x).keys = at.keys
          /\ Titled(at, x).sections = at.sections \cup {Normal(x.name)}
      BY <1>3, Fields
    <3> QED BY <1>1, <1>3, <2>2, <3>1, <3>2
  <2>4. to.section = SectionAt(m, Len(m))
    BY <1>1, <1>5, <2>3 DEF IsLonger
  <2>5. \A e \in E : Has(m, e) => <<Normal(e.section), Normal(e.key)>> \in to.keys
    <3>1. \A e \in E : ~Assigns(m, Len(l) + 1, e)
      BY <1>1, <1>5 DEF IsLonger, IsKey
    <3> QED BY <1>3, <1>4, <2>3, <3>1 DEF Reread
  <2>6. ASSUME NEW i \in DOMAIN m, m[i].kind = "section" PROVE Normal(m[i].name) \in to.sections
    <3>1. CASE i \in DOMAIN l
      BY <1>1, <1>3, <2>3, <2>6, <3>1 DEF Reread, IsLonger
    <3>2. CASE i = Len(l) + 1
      BY <1>1, <2>3, <3>2 DEF IsLonger
    <3> QED BY <1>1, <3>1, <3>2 DEF IsLonger
  <2> QED BY <1>1, <1>2, <2>2, <2>3, <2>4, <2>5, <2>6 DEF Reread
<1>6. CASE x.kind # "section"
  <2>1. SectionAt(m, Len(m)) = at.section
    BY <1>1, <1>3, <1>6 DEF Reread, IsLonger
  <2>2. \A i \in DOMAIN m : m[i].kind = "section" => Normal(m[i].name) \in at.sections
    BY <1>1, <1>3, <1>6 DEF Reread, IsLonger
  <2>3. CASE Take(at, x, p) = Copy(at, x) /\ (IsKey(x) => Mine(at, x, p) = {})
    <3>1. PICK to : to = Copy(at, x)
      OBVIOUS
    <3>2. to \in Pass /\ to.output = m /\ to.section = at.section /\ to.keys = at.keys /\ to.sections = at.sections
      BY <1>1, <1>3, <3>1, Fields, Steps
    <3>3. \A e \in E : ~Assigns(m, Len(l) + 1, e)
      BY <1>1, <1>2, <1>3, <2>3 DEF IsLonger, Mine, Entries, Reread
    <3>4. \A e \in E : Has(m, e) => <<Normal(e.section), Normal(e.key)>> \in to.keys
      BY <1>3, <1>4, <3>2, <3>3 DEF Reread
    <3> QED BY <1>1, <1>2, <2>1, <2>2, <2>3, <3>1, <3>2, <3>4 DEF Reread
  <2>4. CASE IsKey(x) /\ Mine(at, x, p) # {}
    <3>1. PICK c \in Mine(at, x, p) : Take(at, x, p) = Give(at, p[c], Indent(x))
      BY <1>6, <2>4 DEF Take, Replace
    <3>2. p[c] \in E /\ p[c] \in Item /\ Normal(p[c].section) = at.section /\ Normal(p[c].key) = Normal(x.name)
      BY <1>2 DEF Mine, Entries
    <3>3. Assigns(m, Len(l) + 1, p[c]) /\ m[Len(l) + 1] = x /\ Len(l) + 1 \in DOMAIN m
      BY <1>1, <1>3, <2>4, <3>2 DEF IsLonger, Reread
    <3>4. PICK n \in Nat : x = Said(p[c], n)
      BY <1>3, <3>2, <3>3 DEF Written, Says
    <3>5. PICK to : to = Give(at, p[c], Indent(x))
      OBVIOUS
    <3>r. Readable(p[c]) /\ Indent(x) = n
      <4>1. Steady(p[c]) /\ Readable(p[c])
        BY <1>2, <3>2 DEF Steady
      <4> QED BY <3>2, <3>4, <4>1, SaidIs
    <3>6. to \in Pass /\ to.output = m /\ to.section = at.section /\ to.sections = at.sections
          /\ to.keys = at.keys \cup {<<at.section, Normal(p[c].key)>>}
      <4>1. to.output = Append(at.output, x)
        BY <1>3, <3>2, <3>4, <3>5, <3>r, GivesLine
      <4>3. to \in Pass
        BY <1>3, <3>2, <3>5, <3>r, Steps
      <4>2. to.section = at.section /\ to.sections = at.sections
            /\ to.keys = at.keys \cup {<<at.section, Normal(p[c].key)>>}
        BY <1>3, <3>2, <3>5, <3>r, Given
      <4> QED BY <1>1, <1>3, <4>1, <4>2, <4>3
    <3>7. ASSUME NEW e \in E, Assigns(m, Len(l) + 1, e) PROVE <<Normal(e.section), Normal(e.key)>> \in to.keys
      <4>1. Normal(e.section) = at.section /\ Normal(e.key) = Normal(p[c].key)
        BY <1>1, <1>3, <3>2, <3>7 DEF IsLonger, Reread
      <4> QED BY <3>6, <4>1
    <3>8. \A e \in E : Has(m, e) => <<Normal(e.section), Normal(e.key)>> \in to.keys
      BY <1>3, <1>4, <3>6, <3>7 DEF Reread
    <3> QED BY <1>1, <1>2, <2>1, <2>2, <3>1, <3>5, <3>6, <3>8 DEF Reread
  <2> QED BY <1>6, <2>3, <2>4 DEF Take, Replace, IsKey
<1> QED BY <1>5, <1>6

\* What holds of more lines holds of the lines before.
LEMMA EarlierWritten ==
  ASSUME NEW E, NEW l \in Seq(Line), NEW x \in Line, Written(Append(l, x), E), Ended(Append(l, x), E)
  PROVE  Written(l, E) /\ Ended(l, E)
<1>1. PICK m : m = Append(l, x) /\ IsLonger(m, l, x)
  BY Longer
<1>2. Written(l, E)
  BY <1>1 DEF Written, IsLonger
<1>3. ASSUME NEW e \in E, NEW i \in DOMAIN l, l[i].kind = "section", SectionAt(l, i - 1) = Normal(e.section)
      PROVE  \E h \in 1 .. i - 1 : Assigns(l, h, e)
  <2>1. i \in DOMAIN m /\ m[i] = l[i] /\ SectionAt(m, i - 1) = SectionAt(l, i - 1) /\ i \in 1 .. Len(l)
        /\ DOMAIN l = 1 .. Len(l) /\ Len(l) \in Nat
    BY <1>1 DEF IsLonger
  <2>2. PICK h \in 1 .. i - 1 : Assigns(m, h, e)
    BY <1>1, <1>3, <2>1 DEF Ended
  <2>3. h \in DOMAIN l
    BY <2>1
  <2> QED BY <1>1, <2>2, <2>3 DEF IsLonger
<1> QED BY <1>2, <1>3 DEF Ended

LEMMA ReadRereads ==
  ASSUME NEW p \in Seq(Item), NEW lines \in Seq(Line), Written(lines, Entries(p)), Ended(lines, Entries(p)),
         \A e \in Entries(p) : Steady(e)
  PROVE  Reread(Read(lines, p), lines, Entries(p))
<1> DEFINE E == Entries(p)
           T == {l \in Seq(Line) : Written(l, E) /\ Ended(l, E) => Reread(Read(l, p), l, E)}
<1>1. <<>> \in T
  <2>1. <<>> \in Seq(Line) /\ Len(<<>>) = 0 /\ DOMAIN <<>> = {}
    OBVIOUS
  <2>2. Start \in Pass /\ Start.output = <<>> /\ Start.section = Nowhere
    BY Steps DEF Start
  <2>3. SectionAt(<<>>, 0) = Nowhere
    BY <2>1, Sections
  <2>4. Reread(Start, <<>>, E)
    BY <2>1, <2>2, <2>3 DEF Reread, Has
  <2> QED BY <2>1, <2>4, ReadEquations
<1>2. ASSUME NEW l \in Seq(Line), NEW x \in Line, l \in T PROVE Append(l, x) \in T
  <2>1. Append(l, x) \in Seq(Line)
    OBVIOUS
  <2>2. SUFFICES ASSUME Written(Append(l, x), E), Ended(Append(l, x), E)
                 PROVE  Reread(Read(Append(l, x), p), Append(l, x), E)
    BY <2>1
  <2>3. Reread(Read(l, p), l, E)
    BY <1>2, <2>2, EarlierWritten
  <2> QED BY <2>2, <2>3, TakeRereads, ReadEquations
<1>3. lines \in T
  <2> HIDE DEF T
  <2> QED BY <1>1, <1>2, SequenceInduction
<1> QED BY <1>3

LEMMA MergeAgain ==
  ASSUME NEW lines \in Seq(Line), NEW u \in Seq(Item), \A j \in DOMAIN u : Steady(u[j]),
         Settled(lines, Entries(Pending(u)))
  PROVE  Merge(lines, u) = lines
<1>1. PICK p : p = Pending(u)
  OBVIOUS
<1>2. PICK E : E = Entries(p)
  OBVIOUS
<1>3. p \in Seq(Item) /\ Covers(E, u) /\ Settled(lines, E)
  BY <1>1, <1>2, PendingEquations, CoversPending DEF Steady
<1>4. PICK at : at = Read(lines, p) /\ Reread(at, lines, E)
  <2>1. \A e \in E : Steady(e)
    BY <1>3 DEF Covers
  <2> QED BY <1>2, <1>3, <2>1, ReadRereads DEF Settled
<1>5. AppendMissing(at, p) = at
  <2>1. \A j \in DOMAIN p : <<Normal(p[j].section), Normal(p[j].key)>> \in at.keys
    BY <1>2, <1>3, <1>4 DEF Settled, Reread, Entries
  <2> QED BY <1>3, <1>4, <2>1, AppendNothing DEF Reread
<1>6. ASSUME NEW j \in DOMAIN u PROVE Normal(u[j].section) \in at.sections
  <2>1. PICK e \in E : Same(e, u[j])
    BY <1>3 DEF Covers
  <2>2. PICK i \in DOMAIN lines : Assigns(lines, i, e)
    BY <1>3 DEF Settled, Has
  <2>3. SectionAt(lines, i) = Normal(e.section) /\ i \in 0 .. Len(lines)
    BY <2>2 DEF Assigns
  <2>4. Normal(e.section) # Nowhere
    <3>1. e \in Item
      BY <1>3 DEF Covers
    <3> QED BY <3>1 DEF Item, Name, Normal
  <2>5. PICK k \in DOMAIN lines : lines[k].kind = "section" /\ Normal(lines[k].name) = Normal(e.section)
    BY <2>3, <2>4, SectionHasLine
  <2>6. Normal(e.section) \in at.sections
    BY <1>4, <2>5 DEF Reread
  <2> QED BY <2>1, <2>6 DEF Same
<1>7. AddSections(at, u, p) = at
  BY <1>3, <1>4, <1>6, AddNothing DEF Reread
<1> QED BY <1>1, <1>4, <1>5, <1>7 DEF Merge, Reread

-----------------------------------------------------------------------------
(* The values that a file gives *)

LEMMA ValuesSettled ==
  ASSUME NEW lines \in Seq(Line), NEW E \in SUBSET Item, Settled(lines, E), NEW e \in E, Readable(e)
  PROVE  Values(lines, Normal(e.section), Normal(e.key)) = {e.text[1].value}
<1>1. ASSUME NEW i \in DOMAIN lines, Assigns(lines, i, e) PROVE lines[i].value = e.text[1].value
  <2>1. PICK n \in Nat : lines[i] = Said(e, n)
    BY <1>1 DEF Settled, Written, Says
  <2> QED BY <2>1, SaidIs
<1>2. \E i \in DOMAIN lines : Assigns(lines, i, e)
  BY DEF Settled, Has
<1>3. Values(lines, Normal(e.section), Normal(e.key)) = {lines[i].value : i \in {j \in DOMAIN lines : Assigns(lines, j, e)}}
  BY DEF Values, Assigns
<1> QED BY <1>1, <1>2, <1>3

-----------------------------------------------------------------------------
(* A merge writes no other lines than those of the file, of the entries, and *)
(* empty ones, but for the indentation                                       *)

\* The line with n more characters of white space.
Moved(l, n) == [l EXCEPT !.margin = @ + n]

Closed(W) ==
  /\ W \subseteq Line /\ Blank \in W
  /\ \A l \in W, n \in Nat : Moved(l, n) \in W

LEMMA MovedIs ==
  ASSUME NEW l \in Line, NEW n \in Nat
  PROVE  Moved(l, n) \in Line /\ Moved(l, n).value = l.value
BY DEF Moved, Line

\* The entries whose lines are in W.
Of(W) == {e \in Item : e.title \in Seq(W) /\ e.text \in Seq(W)}

LEMMA StepsWithin ==
  ASSUME NEW W, Closed(W)
  PROVE  /\ \A e \in Of(W), at \in Pass, n \in Nat : at.output \in Seq(W) => Give(at, e, n).output \in Seq(W)
         /\ \A e \in Of(W), at \in Pass : at.output \in Seq(W) => Supply(at, e).output \in Seq(W)
         /\ \A e \in Of(W), at \in Pass : at.output \in Seq(W) => Headed(at, e).output \in Seq(W)
         /\ \A x \in W, at \in Pass :
              at.output \in Seq(W) => Copy(at, x).output \in Seq(W) /\ Titled(at, x).output \in Seq(W)
<1>1. ASSUME NEW e \in Of(W), NEW at \in Pass, NEW n \in Nat, at.output \in Seq(W)
      PROVE  Give(at, e, n).output \in Seq(W)
  <2>1. e \in Item /\ e.text \in Seq(W) /\ e.text # <<>>
    BY Lines DEF Of
  <2>2. Indented(e.text, n) \in Seq(W)
    <3>1. PICK s \in Seq(W) : s = e.text
      BY <2>1
    <3>2. 1 \in DOMAIN s /\ s[1] \in W
      BY <2>1, <3>1
    <3>3. Moved(s[1], n) \in W
      BY <3>2 DEF Closed
    <3>4. [s EXCEPT ![1] = Moved(s[1], n)] \in Seq(W)
      BY <3>2, <3>3
    <3> QED BY <3>1, <3>4 DEF Indented, Moved
  <2>3. Give(at, e, n).output = at.output \o Indented(e.text, n)
    BY <2>1, Given
  <2> QED BY <1>1, <2>2, <2>3
<1>2. ASSUME NEW e \in Of(W), NEW at \in Pass, at.output \in Seq(W) PROVE Supply(at, e).output \in Seq(W)
  BY <1>1, <1>2 DEF Supply
<1>3. ASSUME NEW e \in Of(W), NEW at \in Pass, at.output \in Seq(W) PROVE Headed(at, e).output \in Seq(W)
  <2>1. Headed(at, e).output = at.output \o e.title
    BY DEF Headed, Pass
  <2>2. e.title \in Seq(W)
    BY DEF Of
  <2> QED BY <1>3, <2>1, <2>2
<1>4. ASSUME NEW x \in W, NEW at \in Pass, at.output \in Seq(W)
      PROVE  Copy(at, x).output \in Seq(W) /\ Titled(at, x).output \in Seq(W)
  <2>1. Copy(at, x).output = Append(at.output, x) /\ Titled(at, x).output = Append(at.output, x)
    BY Fields DEF Closed
  <2> QED BY <1>4, <2>1
<1> QED BY <1>1, <1>2, <1>3, <1>4

LEMMA OfItems ==
  ASSUME NEW W
  PROVE  /\ Of(W) \subseteq Item
         /\ \A s \in Seq(Of(W)) : s \in Seq(Item) /\ \A i \in DOMAIN s : s[i] \in Of(W)
<1>1. Of(W) \subseteq Item
  BY DEF Of
<1>2. ASSUME NEW s \in Seq(Of(W)) PROVE s \in Seq(Item) /\ \A i \in DOMAIN s : s[i] \in Of(W)
  BY <1>1
<1> QED BY <1>1, <1>2

LEMMA AppendMissingWithin ==
  ASSUME NEW W, Closed(W), NEW at \in Pass, at.output \in Seq(W), NEW p \in Seq(Of(W))
  PROVE  AppendMissing(at, p).output \in Seq(W)
<1> DEFINE T == {s \in Seq(Of(W)) : AppendMissing(at, s).output \in Seq(W)}
<1>1. <<>> \in T
  <2>1. <<>> \in Seq(Of(W))
    OBVIOUS
  <2> QED BY <2>1, AppendMissingEquations
<1>2. ASSUME NEW s \in Seq(Of(W)), NEW e \in Of(W), s \in T PROVE Append(s, e) \in T
  <2>1. Append(s, e) \in Seq(Of(W)) /\ s \in Seq(Item) /\ e \in Item
    BY OfItems
  <2>2. AppendMissing(at, Append(s, e)) = Supply(AppendMissing(at, s), e) /\ AppendMissing(at, s) \in Pass
    BY <2>1, AppendMissingEquations
  <2> QED BY <1>2, <2>1, <2>2, StepsWithin
<1> HIDE DEF T
<1>3. p \in T
  BY <1>1, <1>2, SequenceInduction
<1> QED BY <1>3 DEF T

LEMMA TakeWithin ==
  ASSUME NEW W, Closed(W), NEW at \in Pass, at.output \in Seq(W), NEW p \in Seq(Of(W)), NEW x \in W
  PROVE  Take(at, x, p).output \in Seq(W)
<1>1. p \in Seq(Item) /\ x \in Line /\ AppendMissing(at, p) \in Pass /\ AppendMissing(at, p).output \in Seq(W)
  BY OfItems, AppendMissingEquations, AppendMissingWithin DEF Closed
<1>2. Copy(at, x).output \in Seq(W) /\ Titled(AppendMissing(at, p), x).output \in Seq(W)
  BY <1>1, StepsWithin
<1>3. ASSUME IsKey(x) PROVE Replace(at, x, p).output \in Seq(W)
  <2>1. CASE Mine(at, x, p) = {}
    BY <1>2, <2>1 DEF Replace
  <2>2. CASE Mine(at, x, p) # {}
    <3>1. PICK c \in DOMAIN p : Replace(at, x, p) = Give(at, p[c], Indent(x))
      BY <2>2 DEF Replace, Mine
    <3>2. p[c] \in Of(W) /\ Indent(x) \in Nat
      BY <1>1, <1>3, OfItems, Lines
    <3> QED BY <3>1, <3>2, StepsWithin
  <2> QED BY <2>1, <2>2
<1> QED BY <1>2, <1>3 DEF Take

LEMMA ReadWithin ==
  ASSUME NEW W, Closed(W), NEW lines \in Seq(W), NEW p \in Seq(Of(W))
  PROVE  Read(lines, p).output \in Seq(W)
<1> DEFINE T == {s \in Seq(W) : Read(s, p).output \in Seq(W)}
<1>0. p \in Seq(Item) /\ \A s \in Seq(W) : s \in Seq(Line)
  BY OfItems DEF Closed
<1>1. <<>> \in T
  <2>1. <<>> \in Seq(W) /\ Start.output = <<>>
    BY DEF Start
  <2> QED BY <1>0, <2>1, ReadEquations
<1>2. ASSUME NEW s \in Seq(W), NEW x \in W, s \in T PROVE Append(s, x) \in T
  <2>1. Append(s, x) \in Seq(W) /\ s \in Seq(Line) /\ x \in Line
    BY <1>0 DEF Closed
  <2>2. Read(Append(s, x), p) = Take(Read(s, p), x, p) /\ Read(s, p) \in Pass
    BY <1>0, <2>1, ReadEquations
  <2> QED BY <1>2, <2>1, <2>2, TakeWithin
<1> HIDE DEF T
<1>3. lines \in T
  BY <1>1, <1>2, SequenceInduction
<1> QED BY <1>3 DEF T

LEMMA AddSectionsWithin ==
  ASSUME NEW W, Closed(W), NEW at \in Pass, at.output \in Seq(W), NEW u \in Seq(Of(W)), NEW p \in Seq(Of(W))
  PROVE  AddSections(at, u, p).output \in Seq(W)
<1> DEFINE T == {s \in Seq(Of(W)) : AddSections(at, s, p).output \in Seq(W)}
<1>0. p \in Seq(Item)
  BY OfItems
<1>1. <<>> \in T
  <2>1. <<>> \in Seq(Of(W))
    OBVIOUS
  <2> QED BY <1>0, <2>1, AddSectionsEquations
<1>2. ASSUME NEW s \in Seq(Of(W)), NEW e \in Of(W), s \in T PROVE Append(s, e) \in T
  <2>1. Append(s, e) \in Seq(Of(W)) /\ s \in Seq(Item) /\ e \in Item
    BY OfItems
  <2>2. PICK to \in Pass : to = AddSections(at, s, p) /\ AddSections(at, Append(s, e), p) = AddSection(to, e, p)
    BY <1>0, <2>1, AddSectionsEquations
  <2>3. to.output \in Seq(W)
    BY <1>2, <2>2
  <2>4. Spaced(to) \in Pass /\ Spaced(to).output \in Seq(W)
    BY <2>3, Lines, Steps, StepsWithin DEF Spaced, Closed
  <2>5. Headed(Spaced(to), e) \in Pass /\ Headed(Spaced(to), e).output \in Seq(W)
    BY <2>1, <2>4, Steps, StepsWithin
  <2>6. AddSection(to, e, p).output \in Seq(W)
    BY <2>3, <2>5, AppendMissingWithin DEF AddSection
  <2> QED BY <2>1, <2>2, <2>6
<1> HIDE DEF T
<1>3. u \in T
  BY <1>1, <1>2, SequenceInduction
<1> QED BY <1>3 DEF T

LEMMA MergeWithin ==
  ASSUME NEW W, Closed(W), NEW lines \in Seq(W), NEW u \in Seq(Of(W))
  PROVE  Merge(lines, u) \in Seq(W)
<1>1. PICK p : p = Pending(u)
  OBVIOUS
<1>2. u \in Seq(Item) /\ p \in Seq(Item) /\ Stands(p, u) /\ lines \in Seq(Line)
  BY <1>1, OfItems, PendingStands DEF Stands, Closed
<1>3. p \in Seq(Of(W))
  <2>1. ASSUME NEW j \in DOMAIN p PROVE p[j] \in Of(W)
    <3>1. PICK i \in DOMAIN u : p[j] = u[i]
      BY <1>2 DEF Stands
    <3> QED BY <3>1, OfItems
  <2> QED BY <1>2, <2>1
<1>4. PICK read \in Pass : read = Read(lines, p) /\ read.output \in Seq(W)
  BY <1>2, <1>3, ReadEquations, ReadWithin
<1>5. PICK at \in Pass : at = AppendMissing(read, p) /\ at.output \in Seq(W)
  BY <1>2, <1>3, <1>4, AppendMissingEquations, AppendMissingWithin
<1>6. AddSections(at, u, p).output \in Seq(W)
  BY <1>3, <1>5, AddSectionsWithin
<1> QED BY <1>1, <1>4, <1>5, <1>6 DEF Merge

\* What a merge writes is a file.
LEMMA MergeInLines ==
  ASSUME NEW lines \in Seq(Line), NEW u \in Seq(Item)
  PROVE  Merge(lines, u) \in Seq(Line)
<1>1. Closed(Line)
  BY Lines, MovedIs DEF Closed
<1>2. Of(Line) = Item
  BY Lines DEF Of
<1> QED BY <1>1, <1>2, MergeWithin

\* The lines that do not assign v.
Free(v) == {l \in Line : l.value # v}

LEMMA FreeClosed ==
  ASSUME NEW v, v # ""
  PROVE  Closed(Free(v))
<1>1. Blank \in Free(v)
  BY Lines DEF Free, Blank
<1>2. ASSUME NEW l \in Free(v), NEW n \in Nat PROVE Moved(l, n) \in Free(v)
  BY MovedIs DEF Free
<1> QED BY <1>1, <1>2 DEF Closed, Free

LEMMA FreeSequence ==
  ASSUME NEW s \in Seq(Line), NEW V, Without(s, V), NEW v \in V
  PROVE  s \in Seq(Free(v))
<1>1. \A i \in DOMAIN s : s[i] \in Free(v)
  BY DEF Without, Free
<1> QED BY <1>1

-----------------------------------------------------------------------------
(* The preparations *)

LEMMA SectionIs ==
  ASSUME NEW n \in Name
  PROVE  Section(n) \in Line /\ Section(n).kind = "section" /\ Section(n).value = ""
BY TextAssumption DEF Section, Line

LEMMA AssignmentIs ==
  ASSUME NEW n \in Name, NEW v \in Text
  PROVE  /\ Assignment(n, v) \in Line /\ Assignment(n, v).kind = "key"
         /\ Assignment(n, v).name = n /\ Assignment(n, v).value = v
BY DEF Assignment, Line

LEMMA EntryIs ==
  ASSUME NEW s \in Name, NEW k \in Name, NEW v \in Text
  PROVE  /\ Entry(s, k, v) \in Item
         /\ Entry(s, k, v).section = s /\ Entry(s, k, v).key = k
         /\ Normal(k) \notin Hidden => Readable(Entry(s, k, v))
         /\ \A w : w # v /\ w # "" => Entry(s, k, v) \in Of(Free(w))
<1>1. PICK x \in Line : x = Section(s) /\ x.kind = "section" /\ x.value = ""
  BY SectionIs
<1>2. PICK y \in Line : y = Assignment(k, v) /\ y.kind = "key" /\ y.name = k /\ y.value = v
  BY AssignmentIs
<1>3. PICK e : e = [section |-> s, key |-> k, title |-> <<x>>, text |-> <<y>>]
  OBVIOUS
<1>4. e = Entry(s, k, v)
  BY <1>1, <1>2, <1>3 DEF Entry
<1>5. e.section = s /\ e.key = k /\ e.title = <<x>> /\ e.text = <<y>>
      /\ e \in [section : Name, key : Name, title : Seq(Line), text : Seq(Line)]
  BY <1>3
<1>6. Last(<<x>>) = x /\ Last(<<y>>) = y
  BY DEF Last
<1>7. e \in Item
  <2>1. e.title # <<>> /\ Last(e.title).kind # "blank"
    <3>1. <<x>> # <<>>
      OBVIOUS
    <3> QED BY <1>1, <1>5, <1>6, <3>1, Zenon
  <2>2. e.text # <<>> /\ Last(e.text).kind # "blank"
    <3>1. <<y>> # <<>>
      OBVIOUS
    <3> QED BY <1>2, <1>5, <1>6, <3>1, Zenon
  <2> QED BY <1>5, <2>1, <2>2 DEF Item
<1>8. ASSUME Normal(k) \notin Hidden PROVE Readable(e)
  <2>1. IsKey(y) /\ Normal(y.name) = Normal(e.key)
    BY <1>2, <1>5, <1>8 DEF IsKey
  <2>2. Len(e.text) = 1 /\ e.text[1] = y
    BY <1>5
  <2>3. e.title = <<Section(e.section)>>
    BY <1>1, <1>5
  <2> QED BY <2>1, <2>2, <2>3 DEF Readable
<1>9. ASSUME NEW w, w # v, w # "" PROVE e \in Of(Free(w))
  <2>1. x \in Free(w) /\ y \in Free(w)
    BY <1>1, <1>2, <1>9 DEF Free
  <2>2. <<x>> \in Seq(Free(w)) /\ <<y>> \in Seq(Free(w))
    BY <2>1
  <2> QED BY <1>5, <1>7, <2>2 DEF Of
<1> QED BY <1>4, <1>5, <1>7, <1>8, <1>9

LEMMA AdminPasswordIs ==
  ASSUME NEW v \in Text
  PROVE  /\ AdminPassword(v) \in Item /\ Readable(AdminPassword(v))
         /\ Normal(AdminPassword(v).section) = "serversetting" /\ Normal(AdminPassword(v).key) = "adminpassword"
         /\ \A w : w # v /\ w # "" => AdminPassword(v) \in Of(Free(w))
<1>1. PICK s, k : s = <<"serversetting", "ServerSetting">> /\ k = <<"adminpassword", "AdminPassword">>
  OBVIOUS
<1>2. s \in Name /\ k \in Name /\ Normal(s) = "serversetting" /\ Normal(k) = "adminpassword"
  <2>1. {"serversetting", "ServerSetting", "adminpassword", "AdminPassword"} \subseteq Text
    BY NamesAssumption
  <2>2. "serversetting" \in Text /\ "adminpassword" \in Text /\ "ServerSetting" \in Text /\ "AdminPassword" \in Text
    BY <2>1
  <2>3. "serversetting" # Nowhere /\ "adminpassword" # Nowhere
    BY DEF Nowhere
  <2>4. s \in Name /\ k \in Name
    BY <1>1, <2>2, <2>3 DEF Name
  <2> QED BY <1>1, <2>4 DEF Normal
<1>3. PICK e : e = AdminPassword(v)
  OBVIOUS
<1>4. e = Entry(s, k, v)
  BY <1>1, <1>3 DEF AdminPassword
<1>5. Normal(k) \notin Hidden
  BY <1>2, NamesAssumption
<1>6. /\ e \in Item /\ e.section = s /\ e.key = k /\ Readable(e)
      /\ \A w : w # v /\ w # "" => e \in Of(Free(w))
  <2>1. /\ Entry(s, k, v) \in Item /\ Entry(s, k, v).section = s /\ Entry(s, k, v).key = k
        /\ Readable(Entry(s, k, v)) /\ \A w : w # v /\ w # "" => Entry(s, k, v) \in Of(Free(w))
    BY <1>2, <1>5, EntryIs, Zenon
  <2> QED BY <1>4, <2>1, Zenon
<1> QED BY <1>2, <1>3, <1>6

LEMMA Constants ==
  /\ Absent \notin Seq(Line)
  /\ \A s \in Settings : s.env \in Seq(Item) /\ s.extra \in Seq(Item) /\ s.env \o s.extra \in Seq(Item)
  /\ Generated \in Seq(Text) /\ DOMAIN Generated = 1 .. Len(Generated) /\ Len(Generated) \in Nat
  /\ \A i \in DOMAIN Generated : Generated[i] \in Text /\ Generated[i] \in Passwords /\ Generated[i] # ""
<1>1. Absent \notin Seq(Line)
  <2> DEFINE r == [kind |-> "absent", margin |-> 0, name |-> <<"", "">>, value |-> ""]
  <2>1. Absent = <<r>> /\ r.kind = "absent"
    BY DEF Absent
  <2> HIDE DEF r
  <2>2. r \notin Line
    BY <2>1 DEF Line
  <2>3. <<r>> \in Seq(Line) => r \in Line
    <3> SUFFICES ASSUME <<r>> \in Seq(Line) PROVE r \in Line
      OBVIOUS
    <3>1. PICK l \in Seq(Line) : l = <<r>>
      OBVIOUS
    <3>2. Len(l) = 1 /\ l[1] = r
      BY <3>1
    <3> QED BY <3>2
  <2> QED BY <2>1, <2>2, <2>3
<1>2. ASSUME NEW s \in Settings PROVE s.env \in Seq(Item) /\ s.extra \in Seq(Item) /\ s.env \o s.extra \in Seq(Item)
  <2>1. s.env \in Seq(Item) /\ s.extra \in Seq(Item)
    BY SettingsAssumption
  <2> QED BY <2>1
<1>3. Generated \in Seq(Text) /\ DOMAIN Generated = 1 .. Len(Generated) /\ Len(Generated) \in Nat
  <2>1. Generated \in Seq(Text)
    BY GeneratedAssumption, Zenon
  <2> QED BY <2>1
<1>4. ASSUME NEW i \in DOMAIN Generated
      PROVE  Generated[i] \in Text /\ Generated[i] \in Passwords /\ Generated[i] # ""
  <2>1. "" \notin Passwords
    BY GeneratedAssumption, Zenon
  <2>2. Generated[i] \in Passwords
    BY DEF Passwords
  <2>3. Generated[i] \in Text
    BY <1>3
  <2>4. Generated[i] # ""
    BY <2>1, <2>2, Zenon
  <2> QED BY <2>2, <2>3, <2>4
<1> QED BY <1>1, <1>2, <1>3, <1>4

\* What the settings write has no password that is generated.
LEMMA SettingsFree ==
  ASSUME NEW s \in Settings, NEW i \in DOMAIN Generated
  PROVE  s.env \o s.extra \in Seq(Of(Free(Generated[i])))
<1>1. Generated[i] \in Passwords
  BY Constants
<1>2. ASSUME NEW u \in {s.env, s.extra} PROVE u \in Seq(Of(Free(Generated[i])))
  <2>1. u \in Seq(Item)
    BY Constants
  <2>2. ASSUME NEW j \in DOMAIN u PROVE u[j] \in Of(Free(Generated[i]))
    <3>1. PICK e \in Item : e = u[j]
      BY <2>1
    <3>2. Without(e.title, Passwords) /\ Without(e.text, Passwords)
      BY <3>1, GeneratedAssumption
    <3>3. e.title \in Seq(Line) /\ e.text \in Seq(Line)
      BY Lines
    <3>4. e.title \in Seq(Free(Generated[i])) /\ e.text \in Seq(Free(Generated[i]))
      BY <1>1, <3>2, <3>3, FreeSequence
    <3> QED BY <3>1, <3>4 DEF Of
  <2> QED BY <2>1, <2>2
<1>3. s.env \in Seq(Of(Free(Generated[i]))) /\ s.extra \in Seq(Of(Free(Generated[i])))
  BY <1>2
<1> QED BY <1>3

LEMMA SettledLess ==
  ASSUME NEW l, NEW F, Settled(l, F), NEW E \in SUBSET F
  PROVE  Settled(l, E)
BY DEF Settled, Written, Ended

\* What the settings do not set can be added without replacing what they set.
LEMMA PendingMore ==
  ASSUME NEW u \in Seq(Item), NEW e \in Item, \A j \in DOMAIN u : ~Same(u[j], e)
  PROVE  Entries(Pending(u)) \subseteq Entries(Pending(Append(u, e)))
<1>1. PICK p : p = Pending(u)
  OBVIOUS
<1>2. Stands(p, u) /\ p \in Seq(Item)
  BY <1>1, PendingStands, PendingEquations
<1>3. \A i \in DOMAIN p : ~Same(p[i], e)
  BY <1>2 DEF Stands
<1>4. Pending(Append(u, e)) = Append(p, e)
  BY <1>1, <1>3, PendingEquations DEF Put
<1>5. \A i \in DOMAIN p : i \in DOMAIN Append(p, e) /\ Append(p, e)[i] = p[i]
  BY <1>2
<1> QED BY <1>1, <1>4, <1>5 DEF Entries

\* What the settings s set and the file has, unless they have an entry that is
\* read back as something else.
SettledBy(lines, s) ==
  /\ s \in Settings /\ lines \in Seq(Line)
  /\ (\A j \in DOMAIN (s.env \o s.extra) : Readable((s.env \o s.extra)[j]))
       => Settled(lines, Entries(Pending(s.env \o s.extra)))

\* If a file assigns the generated password i, then the password's file has it, or
\* another that was generated later.
Traced(lines, i) ==
  lines \in {Absent} \cup Seq(Free(Generated[i])) \/ (i <= generated /\ (i = generated => secret = i))

IInv ==
  /\ TypeOK
  /\ settings \in Settings /\ \A f \in {game, template, aside} : f \in {Absent} \cup Seq(Line)
  /\ adds # <<>> => /\ game = Absent /\ ~Sets(Updates, "adminpassword")
                    /\ generated \in 1 .. Len(Generated) /\ adds = <<AdminPassword(Generated[generated])>>
  /\ pc = "secret" => adds # <<>>
  /\ pc = "game" => IF adds = <<>> THEN ~Generates ELSE secret = generated
  /\ pc \in {"secret", "game", "engine", "done"} => \A i \in DOMAIN settings.extra : ~Overrides(settings.extra[i])
  /\ \A s \in merged : SettledBy(game, s)
  /\ pc \in {"engine", "done"} => merged = {settings}
  /\ \A i \in DOMAIN Generated :
       /\ template \in {Absent} \cup Seq(Free(Generated[i]))
       /\ Traced(game, i) /\ Traced(aside, i)
       /\ game \in {Absent} \cup Seq(Free(Generated[i])) \/ secret = i \/ restored

LEMMA IInvInit == Init => IInv
<1> SUFFICES ASSUME Init PROVE IInv
  OBVIOUS
<1>1. settings \in Settings /\ \A f \in {game, template, aside} : f \in {Absent} \cup Seq(Line)
  BY FilesAssumption DEF Init
<1>2. TypeOK
  <2>1. Len(Generated) \in Nat /\ MaxFaults \in Nat /\ MaxAgain \in Nat
    BY Constants, BoundsAssumption
  <2>2. adds = <<>> /\ pc = "down" /\ secret = 0 /\ generated = 0 /\ faults = 0 /\ restored = FALSE /\ again = 0
    BY DEF Init
  <2>3. adds \in {<<>>} \cup {<<AdminPassword(Generated[i])>> : i \in 1 .. Len(Generated)}
    BY <2>2
  <2>4. secret \in 0 .. Len(Generated) /\ generated \in 0 .. Len(Generated) /\ secret <= generated
        /\ faults \in 0 .. MaxFaults /\ again \in 0 .. MaxAgain
    BY <2>1, <2>2
  <2> QED BY <2>2, <2>3, <2>4, Zenon DEF TypeOK
<1>3. ASSUME NEW i \in DOMAIN Generated
      PROVE  \A f \in {game, template, aside} : f \in {Absent} \cup Seq(Free(Generated[i]))
  <2>1. ASSUME NEW f \in Files \cup Templates, f # Absent PROVE f \in Seq(Free(Generated[i]))
    <3>1. f \in Seq(Line) /\ Without(f, Passwords) /\ Generated[i] \in Passwords
      BY <2>1, FilesAssumption, GeneratedAssumption, Constants
    <3> QED BY <3>1, FreeSequence
  <2> QED BY <2>1 DEF Init
<1> QED BY <1>1, <1>2, <1>3 DEF Init, IInv, Traced

\* What a merge of Game.ini finds and leaves.
LEMMA MergeGameMerges ==
  ASSUME IInv, MergeGame
  PROVE  /\ Updates \in Seq(Item) /\ Updates \o adds \in Seq(Item) /\ Present \in Seq(Line)
         /\ game' \in Seq(Line) /\ game' = Merge(Present, Updates \o adds)
         /\ AllReadable => /\ Settled(game', Entries(Pending(Updates)))
                           /\ Grown(Kept(Present, Updates \o adds), Kept(game', Updates \o adds))
<1>1. Updates \in Seq(Item)
  BY Constants DEF IInv, Updates
<1>2. Present \in Seq(Line)
  <2>1. <<>> \in Seq(Line)
    OBVIOUS
  <2> QED BY <2>1 DEF IInv, Present, First
<1>3. /\ Updates \o adds \in Seq(Item) /\ Entries(Pending(Updates)) \subseteq Entries(Pending(Updates \o adds))
      /\ AllReadable => \A j \in DOMAIN (Updates \o adds) : Readable((Updates \o adds)[j])
  <2>1. CASE adds = <<>>
    <3>1. Updates \o adds = Updates
      BY <1>1, <2>1
    <3> QED BY <1>1, <3>1 DEF AllReadable
  <2>2. CASE adds # <<>>
    <3>1. PICK e : e = AdminPassword(Generated[generated])
      OBVIOUS
    <3>2. /\ e \in Item /\ adds = <<e>> /\ Readable(e)
          /\ Normal(e.section) = "serversetting" /\ Normal(e.key) = "adminpassword"
      BY <2>2, <3>1, Constants, AdminPasswordIs DEF IInv
    <3>3. Updates \o adds = Append(Updates, e)
      BY <1>1, <3>2
    <3>4. \A j \in DOMAIN Updates : ~Same(Updates[j], e)
      <4>1. ~Sets(Updates, "adminpassword")
        BY <2>2 DEF IInv
      <4> QED BY <3>2, <4>1 DEF Sets, Server, Same
    <3>5. Append(Updates, e) \in Seq(Item)
      BY <1>1, <3>2
    <3>6. ASSUME AllReadable, NEW j \in DOMAIN Append(Updates, e) PROVE Readable(Append(Updates, e)[j])
      <4>1. \/ j \in DOMAIN Updates /\ Append(Updates, e)[j] = Updates[j]
            \/ Append(Updates, e)[j] = e
        BY <1>1, <3>2
      <4> QED BY <3>2, <3>6, <4>1 DEF AllReadable
    <3> QED BY <1>1, <3>2, <3>3, <3>4, <3>5, <3>6, PendingMore
  <2> QED BY <2>1, <2>2
<1>4. game' = Merge(Present, Updates \o adds)
  BY DEF MergeGame
<1>5. game' \in Seq(Line)
  BY <1>2, <1>3, <1>4, MergeInLines
<1>6. ASSUME AllReadable
      PROVE  /\ Settled(game', Entries(Pending(Updates)))
             /\ Grown(Kept(Present, Updates \o adds), Kept(game', Updates \o adds))
  <2>1. /\ Settled(game', Entries(Pending(Updates \o adds)))
        /\ Grown(Kept(Present, Updates \o adds), Kept(game', Updates \o adds))
    BY <1>2, <1>3, <1>4, <1>6, MergeSettles
  <2> QED BY <1>3, <2>1, SettledLess
<1> QED BY <1>1, <1>2, <1>3, <1>4, <1>5, <1>6

LEMMA TypeOKNext ==
  ASSUME IInv, [Next]_vars
  PROVE  TypeOK'
<1>1. TypeOK /\ Len(Generated) \in Nat /\ MaxFaults \in Nat /\ MaxAgain \in Nat
  BY Constants, BoundsAssumption DEF IInv
<1>2. CASE Boot
  BY <1>1, <1>2 DEF Boot, TypeOK
<1>3. CASE Killed
  BY <1>1, <1>3 DEF Killed, Fault, TypeOK
<1>4. CASE Archived
  BY <1>1, <1>4 DEF Archived, TypeOK
<1>5. CASE Replaced
  BY <1>1, <1>5 DEF Replaced, Fault, TypeOK
<1>6. CASE Again
  BY <1>1, <1>6 DEF Again, TypeOK
<1>7. CASE Rejected
  BY <1>1, <1>7 DEF Rejected, TypeOK
<1>8. CASE Begin
  <2>1. UNCHANGED <<restored, faults, again>> /\ adds = <<>>
    BY <1>1, <1>8 DEF Begin, TypeOK
  <2>2. CASE Generates
    <3>1. /\ generated' = generated + 1 /\ generated + 1 \in 1 .. Len(Generated)
          /\ adds' = <<AdminPassword(Generated[generated + 1])>> /\ secret' = 0 /\ pc' = "secret"
      BY <1>1, <1>8, <2>2 DEF Begin, Open, TypeOK
    <3> QED BY <1>1, <2>1, <3>1 DEF TypeOK
  <2>3. CASE ~Generates
    BY <1>1, <1>8, <2>3 DEF Begin, TypeOK
  <2> QED BY <2>2, <2>3
<1>9. CASE Keep
  BY <1>1, <1>9 DEF Keep, TypeOK
<1>10. CASE MergeGame
  BY <1>1, <1>10 DEF MergeGame, TypeOK
<1>11. CASE MergeEngine
  BY <1>1, <1>11 DEF MergeEngine, TypeOK
<1>12. CASE UNCHANGED vars
  BY <1>1, <1>12 DEF vars, TypeOK
<1> QED BY <1>2, <1>3, <1>4, <1>5, <1>6, <1>7, <1>8, <1>9, <1>10, <1>11, <1>12 DEF Next

\* What IInv says of Game.ini, a backup and the password i.
Known(i) ==
  /\ Traced(game, i) /\ Traced(aside, i)
  /\ game \in {Absent} \cup Seq(Free(Generated[i])) \/ secret = i \/ restored

\* A merge puts a generated password into Game.ini only if the password's file
\* holds it.
LEMMA MergeTraces ==
  ASSUME IInv, MergeGame, NEW i \in DOMAIN Generated
  PROVE  Known(i)'
<1>1. PICK W : W = Free(Generated[i]) /\ Closed(W)
  BY Constants, FreeClosed
<1>2. /\ Known(i) /\ template \in {Absent} \cup Seq(W) /\ settings \in Settings
      /\ pc = "game" /\ UNCHANGED <<aside, secret, generated, restored>>
      /\ game' = Merge(Present, Updates \o adds)
  BY <1>1 DEF IInv, MergeGame, Known
<1>3. SUFFICES game' \in Seq(W) \/ (i = generated /\ secret = i)
                 \/ (game # Absent /\ game \notin Seq(W))
  BY <1>1, <1>2, Constants DEF Known, Traced, TypeOK, IInv
<1>4. CASE game = Absent \/ game \in Seq(W)
  <2>1. Present \in Seq(W)
    <3>1. <<>> \in Seq(W)
      OBVIOUS
    <3> QED BY <1>2, <1>4, <3>1 DEF Present, First
  <2>2. PICK u \in Seq(Of(W)) : u = Updates
    BY <1>1, <1>2, SettingsFree DEF Updates
  <2>3. CASE adds = <<>>
    <3>1. Updates \o adds = u
      BY <2>2, <2>3
    <3> QED BY <1>1, <1>2, <2>1, <3>1, MergeWithin
  <2>4. CASE adds # <<>>
    <3>1. PICK e : e = AdminPassword(Generated[generated])
      OBVIOUS
    <3>2. generated \in DOMAIN Generated /\ adds = <<e>> /\ secret = generated
      BY <1>2, <2>4, <3>1, Constants DEF IInv
    <3>3. CASE generated = i
      BY <3>2, <3>3
    <3>4. CASE generated # i
      <4>1. Generated[i] # Generated[generated]
        BY <3>2, <3>4, GeneratedAssumption, Zenon
      <4>2. e \in Of(W)
        BY <1>1, <3>1, <3>2, <4>1, Constants, AdminPasswordIs
      <4>3. Updates \o adds \in Seq(Of(W))
        BY <2>2, <3>2, <4>2
      <4> QED BY <1>1, <1>2, <2>1, <4>3, MergeWithin
    <3> QED BY <3>3, <3>4
  <2> QED BY <2>3, <2>4
<1> QED BY <1>4

LEMMA IInvNext ==
  ASSUME IInv, [Next]_vars
  PROVE  IInv'
<1>1. TypeOK' /\ TypeOK
  BY TypeOKNext DEF IInv
<1>2. \A i \in DOMAIN Generated : Known(i) /\ template \in {Absent} \cup Seq(Free(Generated[i]))
  BY DEF IInv, Known
<1>3. template' = template
  BY DEF Next, vars, Boot, Killed, Archived, Replaced, Again, Rejected, Begin, Keep, MergeGame, MergeEngine
<1>4. SUFFICES /\ \A i \in DOMAIN Generated : Known(i)'
               /\ settings' \in Settings /\ \A f \in {game', aside'} : f \in {Absent} \cup Seq(Line)
               /\ adds' # <<>> => /\ game' = Absent /\ ~Sets(Updates', "adminpassword")
                                  /\ generated' \in 1 .. Len(Generated)
                                  /\ adds' = <<AdminPassword(Generated[generated'])>>
               /\ pc' = "secret" => adds' # <<>>
               /\ pc' = "game" => IF adds' = <<>> THEN ~Generates' ELSE secret' = generated'
               /\ pc' \in {"secret", "game", "engine", "done"} =>
                    \A i \in DOMAIN settings'.extra : ~Overrides(settings'.extra[i])
               /\ \A s \in merged' : SettledBy(game', s)
               /\ pc' \in {"engine", "done"} => merged' = {settings'}
  BY <1>1, <1>2, <1>3 DEF IInv, Known
<1>5. ASSUME UNCHANGED <<game, aside, secret, generated, restored>> PROVE \A i \in DOMAIN Generated : Known(i)'
  BY <1>2, <1>5 DEF Known, Traced
<1>6. CASE Boot
  <2>1. UNCHANGED <<game, aside, secret, generated, restored, adds, merged>> /\ pc = "down" /\ pc' = "begin"
        /\ settings' \in Settings
    BY <1>6 DEF Boot, IInv
  <2>2. adds' = <<>>
    BY <1>1, <2>1 DEF TypeOK
  <2> QED BY <1>5, <2>1, <2>2 DEF IInv
<1>7. CASE Killed
  <2>1. UNCHANGED <<game, aside, secret, generated, restored, settings, merged>> /\ pc' = "down" /\ adds' = <<>>
    BY <1>7 DEF Killed
  <2> QED BY <1>5, <2>1 DEF IInv
<1>8. CASE Archived
  <2>1. UNCHANGED <<game, secret, generated, restored, settings, pc, adds, merged>> /\ aside' = game
        /\ pc \in {"down", "done"}
    BY <1>8 DEF Archived
  <2>2. \A i \in DOMAIN Generated : Known(i)'
    BY <1>2, <2>1 DEF Known, Traced
  <2>3. adds' = <<>>
    BY <1>1, <2>1 DEF TypeOK
  <2> QED BY <2>1, <2>2, <2>3 DEF IInv
<1>9. CASE Replaced
  <2>1. UNCHANGED <<aside, secret, generated, settings, adds>> /\ pc \in {"down", "done"} /\ pc' = "down"
        /\ game' \in {Absent, aside} /\ (game' # Absent => restored') /\ merged' = {}
    BY <1>9 DEF Replaced
  <2>2. \A i \in DOMAIN Generated : Known(i)'
    BY <1>2, <2>1 DEF Known, Traced
  <2>3. adds' = <<>>
    BY <1>1, <2>1 DEF TypeOK
  <2> QED BY <2>1, <2>2, <2>3 DEF IInv
<1>10. CASE Again
  <2>1. UNCHANGED <<game, aside, secret, generated, restored, settings, adds, merged>> /\ pc = "done" /\ pc' = "begin"
    BY <1>10 DEF Again
  <2>2. adds' = <<>>
    BY <1>1, <2>1 DEF TypeOK
  <2> QED BY <1>5, <2>1, <2>2 DEF IInv
<1>11. CASE Rejected
  <2>1. UNCHANGED <<game, aside, secret, generated, restored, settings, adds, merged>> /\ pc = "begin" /\ pc' = "rejected"
    BY <1>11 DEF Rejected
  <2>2. adds' = <<>>
    BY <1>1, <2>1 DEF TypeOK
  <2> QED BY <1>5, <2>1, <2>2 DEF IInv
<1>12. CASE Begin
  <2>1. /\ UNCHANGED <<game, aside, restored, settings, merged>> /\ pc = "begin"
        /\ \A i \in DOMAIN settings'.extra : ~Overrides(settings'.extra[i])
    BY <1>12 DEF Begin
  <2>2. CASE Generates
    <3>1. /\ generated' = generated + 1 /\ generated' \in 1 .. Len(Generated) /\ pc' = "secret"
          /\ adds' = <<AdminPassword(Generated[generated'])>>
      <4>1. /\ generated' = generated + 1 /\ generated < Len(Generated) /\ pc' = "secret"
            /\ adds' = <<AdminPassword(Generated[generated + 1])>>
        BY <1>12, <2>2 DEF Begin, Open
      <4>2. generated \in Nat /\ Len(Generated) \in Nat
        <5>1. Len(Generated) \in Nat
          BY Constants
        <5> QED BY <1>1, <5>1 DEF TypeOK
      <4>3. generated + 1 \in 1 .. Len(Generated)
        BY ONLY <4>1, <4>2
      <4> QED BY <4>1, <4>3, Zenon
    <3>2. game = Absent /\ ~Sets(Updates', "adminpassword")
      BY <2>1, <2>2 DEF Generates, First, Updates
    <3>3. ASSUME NEW i \in DOMAIN Generated PROVE Known(i)'
      <4>1. Traced(aside, i) /\ i \in Nat /\ generated \in Nat
        <5>1. Len(Generated) \in Nat /\ DOMAIN Generated = 1 .. Len(Generated)
          BY Constants
        <5>2. generated \in Nat /\ i \in Nat
          BY <1>1, <5>1 DEF TypeOK
        <5> QED BY <1>2, <5>2 DEF Known
      <4>2. aside \in {Absent} \cup Seq(Free(Generated[i])) \/ i < generated'
        BY <3>1, <4>1 DEF Traced
      <4> QED BY <2>1, <3>1, <3>2, <4>1, <4>2 DEF Known, Traced
    <3> QED BY <2>1, <3>1, <3>2, <3>3 DEF IInv
  <2>3. CASE ~Generates
    <3>1. UNCHANGED <<secret, generated>> /\ adds' = <<>> /\ pc' = "game"
      BY <1>1, <1>12, <2>3 DEF Begin, TypeOK
    <3>2. ~Generates'
      BY <2>1, <2>3 DEF Generates, First, Updates
    <3> QED BY <1>5, <2>1, <3>1, <3>2 DEF IInv
  <2> QED BY <2>2, <2>3
<1>13. CASE Keep
  <2>1. /\ pc = "secret" /\ pc' = "game" /\ secret' = generated
        /\ UNCHANGED <<game, aside, settings, adds, generated, restored, merged>>
    BY <1>13 DEF Keep
  <2>2. game = Absent /\ adds # <<>>
    BY <2>1 DEF IInv
  <2>3. \A i \in DOMAIN Generated : Known(i)'
    BY <1>2, <2>1, <2>2 DEF Known, Traced
  <2>4. Updates' = Updates
    BY <2>1 DEF Updates
  <2> QED BY <2>1, <2>2, <2>3, <2>4 DEF IInv
<1>14. CASE MergeGame
  <2>1. \A i \in DOMAIN Generated : Known(i)'
    BY <1>14, MergeTraces
  <2>2. /\ pc = "game" /\ pc' = "engine" /\ merged' = {settings} /\ adds' = <<>> /\ UNCHANGED <<aside, settings>>
    BY <1>14 DEF MergeGame
  <2>3. SettledBy(game', settings)
    BY <1>14, MergeGameMerges DEF SettledBy, AllReadable, Updates, IInv
  <2>4. game' \in Seq(Line)
    BY <1>14, MergeGameMerges
  <2> QED BY <2>1, <2>2, <2>3, <2>4 DEF IInv
<1>15. CASE MergeEngine
  <2>1. UNCHANGED <<game, aside, secret, generated, restored, settings, adds, merged>> /\ pc = "engine" /\ pc' = "done"
    BY <1>15 DEF MergeEngine
  <2>2. adds' = <<>>
    BY <1>1, <2>1 DEF TypeOK
  <2> QED BY <1>5, <2>1, <2>2 DEF IInv
<1>16. CASE UNCHANGED vars
  <2>1. UNCHANGED <<game, aside, secret, generated, restored, settings, pc, adds, merged>>
    BY <1>16 DEF vars
  <2>2. Updates' = Updates /\ (Generates' <=> Generates)
    BY <2>1 DEF Updates, Generates, First
  <2> QED BY <1>5, <2>1, <2>2 DEF IInv
<1> QED BY <1>6, <1>7, <1>8, <1>9, <1>10, <1>11, <1>12, <1>13, <1>14, <1>15, <1>16 DEF Next

LEMMA Invariant == Spec => []IInv
BY IInvInit, IInvNext, PTL DEF Spec


-----------------------------------------------------------------------------
(* The properties *)

\* apply_configuration keeps its types: where it is, which password it has
\* generated and which its file holds (TypeOK; configuration.py:145-208).
THEOREM TypeCorrect == Spec => []TypeOK
<1>1. IInv => TypeOK
  BY DEF IInv
<1> QED BY <1>1, Invariant, PTL

\* An admin password that was generated and that Game.ini has is the one that its
\* file holds, after any failures, kills and replacements of Game.ini, unless a
\* backup brought back one that was generated before the last (PasswordKnown;
\* configuration.py:177-197).
THEOREM PasswordIsKnown == Spec => []PasswordKnown
<1>1. ASSUME IInv, NEW i \in DOMAIN Generated, game # Absent,
             Generated[i] \in Values(game, "serversetting", "adminpassword")
      PROVE  secret = i \/ (restored /\ i < generated)
  <2>1. PICK j \in DOMAIN game : game[j].value = Generated[i]
    BY <1>1 DEF Values
  <2>2. game \notin Seq(Free(Generated[i]))
    <3> SUFFICES ASSUME game \in Seq(Free(Generated[i])) PROVE FALSE
      OBVIOUS
    <3>1. game[j] \in Free(Generated[i])
      BY <2>1
    <3> QED BY <2>1, <3>1 DEF Free
  <2>3. i <= generated /\ (i = generated => secret = i) /\ (secret = i \/ restored)
    BY <1>1, <2>2 DEF IInv, Traced
  <2>4. i \in Nat /\ generated \in Nat
    <3>1. Len(Generated) \in Nat /\ DOMAIN Generated = 1 .. Len(Generated)
      BY Constants
    <3> QED BY <1>1, <3>1 DEF IInv, TypeOK
  <2> QED BY <2>3, <2>4
<1>2. IInv => PasswordKnown
  BY <1>1 DEF PasswordKnown
<1> QED BY <1>2, Invariant, PTL

\* A later entry that is the last for its key is the one that CHOOSE gives.
LEMMA LastOf ==
  ASSUME NEW u \in Seq(Item), NEW i \in DOMAIN u, NEW m \in DOMAIN u, Same(u[m], u[i]),
         \A k \in DOMAIN u : k > m => ~Same(u[k], u[m])
  PROVE  m = CHOOSE j \in i .. Len(u) : Same(u[j], u[i]) /\ \A k \in j + 1 .. Len(u) : ~Same(u[k], u[i])
<1>1. m >= i
  BY DEF Same
<1>2. m \in i .. Len(u) /\ \A k \in m + 1 .. Len(u) : ~Same(u[k], u[i])
  BY <1>1 DEF Same
<1>3. ASSUME NEW j \in i .. Len(u), Same(u[j], u[i]), \A k \in j + 1 .. Len(u) : ~Same(u[k], u[i])
      PROVE  j = m
  <2>1. ~(m > j)
    BY <1>2, <1>3
  <2>2. ~(j > m)
    BY <1>2, <1>3
  <2> QED BY <1>2, <2>1, <2>2
<1> QED BY <1>2, <1>3

\* A file that holds what the entries settle gives each of them its last value.
LEMMA AppliesLast ==
  ASSUME IInv, pc = "done", AllReadable, NEW i \in DOMAIN Updates,
         NEW last, last = CHOOSE j \in i .. Len(Updates) :
                     Same(Updates[j], Updates[i]) /\ \A k \in j + 1 .. Len(Updates) : ~Same(Updates[k], Updates[i])
  PROVE  /\ Values(game, Normal(Updates[i].section), Normal(Updates[i].key)) = {Updates[last].text[1].value}
         /\ i \in DOMAIN settings.env => last \in DOMAIN settings.env
<1>1. PICK u \in Seq(Item) : u = Updates
  BY Constants DEF IInv, Updates
<1>2. game \in Seq(Line) /\ Settled(game, Entries(Pending(u)))
  BY <1>1 DEF IInv, Updates, SettledBy, AllReadable
<1>3. PICK p : p = Pending(u) /\ Stands(p, u)
  BY <1>1, PendingStands
<1>4. PICK j \in DOMAIN p : Same(p[j], u[i])
  BY <1>1, <1>3 DEF Stands
<1>5. PICK m \in DOMAIN u : p[j] = u[m] /\ \A k \in DOMAIN u : k > m => ~Same(u[k], u[m])
  BY <1>3, <1>4 DEF Stands
<1>6. m = last
  BY <1>1, <1>4, <1>5, LastOf
<1>7. p[j] \in Entries(p) /\ Entries(p) \in SUBSET Item /\ Readable(p[j])
  BY <1>1, <1>3, <1>4, <1>5 DEF Entries, Stands, AllReadable
<1>8. Values(game, Normal(p[j].section), Normal(p[j].key)) = {p[j].text[1].value}
  BY <1>2, <1>3, <1>7, ValuesSettled
<1>9. ASSUME i \in DOMAIN settings.env, m \notin DOMAIN settings.env PROVE FALSE
  <2>1. PICK a, b \in Seq(Item) : a = settings.env /\ b = settings.extra /\ u = a \o b
    BY <1>1, Constants DEF IInv, Updates
  <2>2. /\ \A n \in DOMAIN a : u[n] = a[n]
        /\ \A n \in DOMAIN u \ DOMAIN a : n - Len(a) \in DOMAIN b /\ u[n] = b[n - Len(a)]
    <3>1. /\ \A n \in DOMAIN a : (a \o b)[n] = a[n]
          /\ \A n \in DOMAIN (a \o b) \ DOMAIN a : n - Len(a) \in DOMAIN b /\ (a \o b)[n] = b[n - Len(a)]
      OBVIOUS
    <3> QED BY <2>1, <3>1
  <2>3. Overrides(a[i])
    BY <1>9, <2>1, SettingsAssumption DEF IInv
  <2>4. ~Overrides(b[m - Len(a)])
    BY <1>9, <2>1, <2>2 DEF IInv
  <2>5. u[i] = a[i] /\ u[m] = b[m - Len(a)] /\ Same(u[m], u[i])
    BY <1>4, <1>5, <1>9, <2>1, <2>2
  <2> QED BY <2>3, <2>4, <2>5 DEF Overrides, Same
<1> QED BY <1>1, <1>4, <1>5, <1>6, <1>8, <1>9 DEF Same

\* After a preparation Game.ini gives every key of the settings the value that was
\* set last, wherever and however often the file assigned it, and a variable's
\* value is not the one of GAME_INI_OVERRIDES (Applied; ini_merge.py:32-85);
\* unless an entry is read back as something else than what it sets.
THEOREM SettingsAreApplied == Spec => []Applied
<1>1. IInv => Applied
  BY AppliesLast DEF Applied
<1> QED BY <1>1, Invariant, PTL

\* A merge keeps every line that is not set, in its order and section, and adds
\* only sections at the end (Preserved; ini_merge.py:32-98); unless an entry is
\* read back as something else than what it sets.
THEOREM OtherLinesArePreserved == Spec => Preserved
<1>1. ASSUME IInv, MergeGame, AllReadable
      PROVE  LET old == Kept(Present, Updates \o adds)
                 new == Kept(game', Updates \o adds)
             IN /\ IsPrefix(old, new)
                /\ \A i \in Len(old) + 1 .. Len(new) : new[i][2].kind \in {"blank", "section"}
  <2>1. PICK old, new : /\ old = Kept(Present, Updates \o adds) /\ new = Kept(game', Updates \o adds)
                        /\ Grown(old, new)
    BY <1>1, MergeGameMerges
  <2>2. SubSeq(old, 1, Len(old)) = SubSeq(new, 1, Len(old))
    <3>1. PICK S : S = Text \X Line
      OBVIOUS
    <3>2. old \in Seq(S) /\ new \in Seq(S) /\ Len(old) <= Len(new) /\ \A i \in 1 .. Len(old) : new[i] = old[i]
      BY <2>1, <3>1 DEF Grown
    <3> QED BY <3>2
  <2>3. IsPrefix(old, new)
    BY <2>1, <2>2 DEF Grown, IsPrefix
  <2> QED BY <2>1, <2>3 DEF Grown
<1>2. IInv /\ [Next]_vars =>
        [MergeGame /\ AllReadable =>
           LET old == Kept(Present, Updates \o adds)
               new == Kept(game', Updates \o adds)
           IN /\ IsPrefix(old, new)
              /\ \A i \in Len(old) + 1 .. Len(new) : new[i][2].kind \in {"blank", "section"}]_vars
  BY <1>1
<1> QED BY <1>2, Invariant, PTL DEF Spec, Preserved

\* Merging again what was merged last changes nothing: Game.ini does not grow, and
\* no line of it moves, however often the server wakes (Stable; ini_merge.py:17-98);
\* unless a key is set that is read back as something else, or with an indentation.
THEOREM MergingIsStable == Spec => Stable
<1>1. ASSUME IInv, MergeGame, merged = {settings}, \A i \in DOMAIN Updates : Steady(Updates[i])
      PROVE  game' = game
  <2>1. game \in Seq(Line) /\ Settled(game, Entries(Pending(Updates)))
    BY <1>1 DEF IInv, Updates, SettledBy, Steady
  <2>2. Present = game /\ game # Absent
    BY <2>1, Constants DEF Present, First
  <2>3. adds = <<>> /\ Updates \in Seq(Item) /\ Updates \o adds = Updates
    BY <1>1, <2>2, MergeGameMerges DEF IInv
  <2>4. Merge(Present, Updates \o adds) = game
    BY <1>1, <2>1, <2>2, <2>3, MergeAgain
  <2> QED BY <1>1, <2>4 DEF MergeGame
<1>2. IInv /\ [Next]_vars =>
        [MergeGame /\ merged = {settings} /\ (\A i \in DOMAIN Updates : Steady(Updates[i])) => game' = game]_vars
  BY <1>1
<1> QED BY <1>2, Invariant, PTL DEF Spec, Stable
=============================================================================
