----------------------- MODULE ReadGenerationsProofs -----------------------
(***************************************************************************)
(* Proofs that a snapshot resolves to the state it was taken at.           *)
(***************************************************************************)
EXTENDS ReadGenerations, SequenceTheorems, TLAPS

\* The newest state of an ID is one only.
LEMMA SaysOne ==
  ASSUME NEW chain \in Seq(Layer), NEW id \in Id, NEW s, NEW t,
         Says(chain, id, s), Says(chain, id, t)
  PROVE  s = t
<1>1. DOMAIN chain \subseteq Nat
  OBVIOUS
<1>2. CASE s = Absent
  BY <1>2 DEF Says
<1>3. CASE t = Absent
  BY <1>3 DEF Says
<1>4. CASE s # Absent /\ t # Absent
  <2>1. PICK i \in DOMAIN chain :
          chain[i].run[id] = s /\ \A j \in DOMAIN chain : j > i => chain[j].run[id] = Absent
    BY <1>4 DEF Says
  <2>2. PICK k \in DOMAIN chain :
          chain[k].run[id] = t /\ \A j \in DOMAIN chain : j > k => chain[j].run[id] = Absent
    BY <1>4 DEF Says
  <2>3. ~(i > k) /\ ~(k > i)
    BY <1>4, <2>1, <2>2
  <2> QED BY <1>1, <2>1, <2>2, <2>3
<1> QED BY <1>2, <1>3, <1>4

\* Newest gives the newest state.
LEMMA NewestSays ==
  ASSUME NEW chain \in Seq(Layer), NEW id \in Id, NEW s, Says(chain, id, s)
  PROVE  Newest(chain, id) = s
<1>1. s \in {Absent} \cup {chain[i].run[id] : i \in DOMAIN chain}
  BY DEF Says
<1>2. Says(chain, id, Newest(chain, id))
  BY <1>1 DEF Newest
<1> QED BY <1>2, SaysOne

\* A run pushed on a chain: the layers below keep their runs and identities.
IsPushed(new, chain, run, key) ==
  /\ new \in Seq(Layer) /\ Len(new) = Len(chain) + 1 /\ Len(chain) \in Nat
  /\ DOMAIN new = 1..(Len(chain) + 1) /\ DOMAIN chain = 1..Len(chain)
  /\ \A i \in 1..Len(chain) :
       /\ new[i].run = chain[i].run /\ new[i].key = chain[i].key
       /\ new[i].hidden = chain[i].hidden \cup (Holds(chain[i].run) \cap Holds(run))
  /\ new[Len(chain) + 1].run = run /\ new[Len(chain) + 1].key = key
  /\ new[Len(chain) + 1].hidden = {}

LEMMA PushedType ==
  ASSUME NEW chain \in Seq(Layer), NEW run \in Run, NEW key \in Nat
  PROVE  IsPushed(Pushed(chain, run, key), chain, run, key)
<1> DEFINE new == Pushed(chain, run, key)
<1> DEFINE H == Hiding(chain, run)
<1>0. \A i \in 1..Len(chain) : chain[i] \in Layer
  OBVIOUS
<1>1. \A i \in 1..Len(chain) :
        chain[i].run \in Run /\ chain[i].key \in Nat /\ chain[i].hidden \subseteq Id
  BY <1>0 DEF Layer
<1>2. H = [i \in 1..Len(chain) |->
             [run |-> chain[i].run, key |-> chain[i].key,
              hidden |-> chain[i].hidden \cup (Holds(chain[i].run) \cap Holds(run))]]
  BY DEF Hiding
<1>3. \A i \in 1..Len(chain) :
        [run |-> chain[i].run, key |-> chain[i].key,
         hidden |-> chain[i].hidden \cup (Holds(chain[i].run) \cap Holds(run))] \in Layer
  BY <1>1 DEF Layer, Holds
<1>4. H \in [1..Len(chain) -> Layer] /\ Len(chain) \in Nat
  BY <1>2, <1>3
<1>5. H \in Seq(Layer) /\ Len(H) = Len(chain)
  BY <1>4
<1>6. [run |-> run, key |-> key, hidden |-> {}] \in Layer
  BY DEF Layer
<1>7. \A i \in 1..Len(chain) :
        /\ H[i].run = chain[i].run /\ H[i].key = chain[i].key
        /\ H[i].hidden = chain[i].hidden \cup (Holds(chain[i].run) \cap Holds(run))
  BY <1>2
<1> HIDE DEF H
<1>8. new = Append(H, [run |-> run, key |-> key, hidden |-> {}])
  BY DEF Pushed, H
<1> QED BY <1>5, <1>6, <1>7, <1>8 DEF IsPushed

\* What a chain with a run pushed on it says of an ID.
LEMMA PushedSays ==
  ASSUME NEW chain \in Seq(Layer), NEW run \in Run, NEW key \in Nat,
         NEW new, new = Pushed(chain, run, key),
         NEW id \in Id, NEW s, Says(chain, id, s)
  PROVE  Says(new, id, IF run[id] # Absent THEN run[id] ELSE s)
<1>0. IsPushed(new, chain, run, key)
  BY PushedType
<1>1. /\ DOMAIN new = 1..(Len(chain) + 1) /\ DOMAIN chain = 1..Len(chain) /\ Len(chain) \in Nat
      /\ \A i \in 1..Len(chain) : new[i].run = chain[i].run
      /\ new[Len(chain) + 1].run = run
  BY <1>0 DEF IsPushed
<1>2. CASE run[id] # Absent
  <2>1. \A j \in DOMAIN new : j > Len(chain) + 1 => new[j].run[id] = Absent
    BY <1>1
  <2> QED BY <1>1, <1>2, <2>1 DEF Says
<1>3. CASE run[id] = Absent /\ s = Absent
  <2>1. \A i \in DOMAIN new : new[i].run[id] = Absent
    BY <1>1, <1>3 DEF Says
  <2> QED BY <1>3, <2>1 DEF Says
<1>4. CASE run[id] = Absent /\ s # Absent
  <2>1. PICK i \in DOMAIN chain :
          chain[i].run[id] = s /\ \A j \in DOMAIN chain : j > i => chain[j].run[id] = Absent
    BY <1>4 DEF Says
  <2>2. i \in DOMAIN new /\ new[i].run[id] = s
    BY <1>1, <2>1
  <2>3. \A j \in DOMAIN new : j > i => new[j].run[id] = Absent
    BY <1>1, <1>4, <2>1
  <2> QED BY <1>4, <2>2, <2>3 DEF Says
<1> QED BY <1>2, <1>3, <1>4

\* The slots a chain hides are those that a newer run holds.
Shadowed(chain, i) ==
  {id \in Id : /\ chain[i].run[id] # Absent
               /\ \E j \in DOMAIN chain : j > i /\ chain[j].run[id] # Absent}

ShadowOK(chain) == \A i \in DOMAIN chain : chain[i].hidden = Shadowed(chain, i)

LEMMA PushedShadow ==
  ASSUME NEW chain \in Seq(Layer), NEW run \in Run, NEW key \in Nat,
         NEW new, new = Pushed(chain, run, key), ShadowOK(chain)
  PROVE  ShadowOK(new)
<1> DEFINE n == Len(chain)
<1>0. IsPushed(new, chain, run, key)
  BY PushedType
<1>1. /\ DOMAIN new = 1..(n + 1) /\ DOMAIN chain = 1..n /\ n \in Nat
      /\ \A i \in 1..n :
           /\ new[i].run = chain[i].run
           /\ new[i].hidden = chain[i].hidden \cup (Holds(chain[i].run) \cap Holds(run))
      /\ new[n + 1].run = run /\ new[n + 1].hidden = {}
  BY <1>0 DEF IsPushed
<1> HIDE DEF n
<1>2. ASSUME NEW i \in 1..n
      PROVE  new[i].hidden = Shadowed(new, i)
  <2>1. \A id \in Id : (\E j \in DOMAIN new : j > i /\ new[j].run[id] # Absent)
                         <=> (\E j \in DOMAIN chain : j > i /\ chain[j].run[id] # Absent)
                             \/ run[id] # Absent
    <3>1. ASSUME NEW id \in Id, NEW j \in DOMAIN new, j > i, new[j].run[id] # Absent
          PROVE  (\E k \in DOMAIN chain : k > i /\ chain[k].run[id] # Absent) \/ run[id] # Absent
      <4>1. CASE j = n + 1
        BY <1>1, <3>1, <4>1
      <4>2. CASE j \in 1..n
        BY <1>1, <3>1, <4>2
      <4> QED BY <1>1, <4>1, <4>2
    <3>2. ASSUME NEW id \in Id, NEW j \in DOMAIN chain, j > i, chain[j].run[id] # Absent
          PROVE  j \in DOMAIN new /\ new[j].run[id] # Absent
      BY <1>1, <3>2
    <3>3. n + 1 \in DOMAIN new /\ n + 1 > i /\ new[n + 1].run = run
      BY <1>1
    <3> QED BY <3>1, <3>2, <3>3
  <2>2. chain[i].hidden = Shadowed(chain, i)
    BY <1>1 DEF ShadowOK
  <2>3. new[i].run = chain[i].run
        /\ new[i].hidden = chain[i].hidden \cup (Holds(chain[i].run) \cap Holds(run))
    BY <1>1
  <2> QED BY <2>1, <2>2, <2>3 DEF Shadowed, Holds
<1>3. Shadowed(new, n + 1) = {}
  BY <1>1 DEF Shadowed
<1>4. ASSUME NEW i \in DOMAIN new
      PROVE  new[i].hidden = Shadowed(new, i)
  <2>1. CASE i = n + 1
    BY <1>1, <1>3, <2>1
  <2>2. CASE i \in 1..n
    BY <1>2, <2>2
  <2> QED BY <1>1, <2>1, <2>2
<1> QED BY <1>4 DEF ShadowOK

\* A chain whose hidden slots are right shows the newest states and nothing else.
LEMMA ShadowShows ==
  ASSUME NEW chain \in Seq(Layer), ShadowOK(chain), NEW id \in Id, NEW s \in State,
         Says(chain, id, s)
  PROVE  IF s.live THEN \E i \in DOMAIN chain : Met(chain, id) = {i} /\ chain[i].run[id] = s
         ELSE Met(chain, id) = {}
<1>0. DOMAIN chain \subseteq Nat /\ ~Absent.live
  BY DEF Absent
<1>1. ASSUME NEW i \in Met(chain, id)
      PROVE  /\ chain[i].run[id] # Absent /\ chain[i].run[id].live
             /\ \A j \in DOMAIN chain : j > i => chain[j].run[id] = Absent
  <2>1. i \in DOMAIN chain /\ chain[i].run[id].live /\ id \notin chain[i].hidden
    BY <1>1 DEF Met
  <2>2. chain[i].run[id] # Absent
    BY <1>0, <2>1
  <2>3. id \notin Shadowed(chain, i)
    BY <2>1 DEF ShadowOK
  <2> QED BY <2>1, <2>2, <2>3 DEF Shadowed
<1>2. ASSUME NEW i \in Met(chain, id)
      PROVE  i \in DOMAIN chain /\ chain[i].run[id] = s /\ s.live
  <2>1. i \in DOMAIN chain
    BY DEF Met
  <2>2. Says(chain, id, chain[i].run[id])
    BY <1>1, <2>1 DEF Says
  <2> QED BY <1>1, <2>1, <2>2, SaysOne
<1>3. CASE ~s.live
  BY <1>2, <1>3
<1>4. CASE s.live
  <2>1. s # Absent
    BY <1>0, <1>4
  <2>2. PICK i \in DOMAIN chain :
          chain[i].run[id] = s /\ \A j \in DOMAIN chain : j > i => chain[j].run[id] = Absent
    BY <2>1 DEF Says
  <2>3. i \in Met(chain, id)
    <3>1. id \notin Shadowed(chain, i)
      BY <2>2 DEF Shadowed
    <3> QED BY <1>4, <2>2, <3>1 DEF ShadowOK, Met
  <2>4. ASSUME NEW k \in Met(chain, id)
        PROVE  k = i
    <3>1. k \in DOMAIN chain /\ chain[k].run[id] # Absent
          /\ \A j \in DOMAIN chain : j > k => chain[j].run[id] = Absent
      BY <1>1, <1>2
    <3>2. ~(k > i) /\ ~(i > k)
      BY <2>1, <2>2, <3>1
    <3> QED BY <1>0, <3>1, <3>2
  <2> QED BY <1>4, <2>2, <2>3, <2>4
<1> QED BY <1>3, <1>4

\* A chain knows a newest state of every ID.
Complete(chain) == \A id \in Id : \E s \in State : Says(chain, id, s)

LEMMA BuiltType ==
  ASSUME NEW runs \in Seq(Layer), Complete(runs)
  PROVE  /\ Built(runs) \in Run
         /\ \A id \in Id : \A s : Says(runs, id, s) => Built(runs)[id] = s
<1>1. ASSUME NEW id \in Id, NEW s, Says(runs, id, s)
      PROVE  Newest(runs, id) = s
  BY <1>1, NewestSays
<1>2. \A id \in Id : Newest(runs, id) \in State
  BY <1>1 DEF Complete
<1> QED BY <1>1, <1>2 DEF Built, Run

\* The chain of a published merge: a base, and the layers sealed since the capture.
IsRebased(new, chain, runs, key) ==
  LET n == Len(runs)
      m == Len(chain)
  IN  /\ new \in Seq(Layer) /\ DOMAIN new = 1..(m - n + 1)
      /\ n \in Nat \ {0} /\ m \in Nat /\ n <= m
      /\ DOMAIN chain = 1..m /\ DOMAIN runs = 1..n
      /\ new[1].run = Built(runs) /\ new[1].key = key
      /\ new[1].hidden = {id \in Holds(Built(runs)) :
                            \E i \in (n + 1)..m : id \in Holds(chain[i].run)}
      /\ \A i \in 2..(m - n + 1) : new[i] = chain[n + i - 1]

LEMMA RebasedType ==
  ASSUME NEW chain \in Seq(Layer), NEW runs \in Seq(Layer), runs # <<>>,
         Len(runs) <= Len(chain), NEW key \in Nat, Built(runs) \in Run
  PROVE  IsRebased(Rebased(chain, runs, key), chain, runs, key)
<1> DEFINE n == Len(runs)
<1> DEFINE m == Len(chain)
<1> DEFINE base == Built(runs)
<1> DEFINE later == SubSeq(chain, n + 1, m)
<1> DEFINE hidden == {id \in Holds(base) : \E i \in DOMAIN later : id \in Holds(later[i].run)}
<1> DEFINE first == [run |-> base, key |-> key, hidden |-> hidden]
<1>1. n \in Nat \ {0} /\ m \in Nat /\ n <= m /\ DOMAIN chain = 1..m /\ DOMAIN runs = 1..n
  OBVIOUS
<1>2. /\ later \in Seq(Layer) /\ Len(later) = m - n /\ DOMAIN later = 1..(m - n)
      /\ \A i \in 1..(m - n) : later[i] = chain[n + i]
  <2>1. n + 1 \in Int /\ m \in Int /\ \A i \in (n + 1)..m : chain[i] \in Layer
    BY <1>1
  <2> HIDE DEF n, m
  <2>2. /\ later \in Seq(Layer) /\ Len(later) = IF n + 1 <= m THEN m - (n + 1) + 1 ELSE 0
        /\ \A i \in 1..(m - (n + 1) + 1) : later[i] = chain[(n + 1) + i - 1]
    BY <2>1, SubSeqProperties
  <2> HIDE DEF later
  <2>3. Len(later) = m - n /\ m - (n + 1) + 1 = m - n
    BY <1>1, <2>2
  <2>4. \A i \in 1..(m - n) : (n + 1) + i - 1 = n + i
    BY <1>1
  <2> QED BY <2>2, <2>3, <2>4
<1> HIDE DEF later
<1>3. first \in Layer
  BY DEF Layer, Holds
<1>4. hidden = {id \in Holds(base) : \E i \in (n + 1)..m : id \in Holds(chain[i].run)}
  <2>1. ASSUME NEW i \in DOMAIN later
        PROVE  n + i \in (n + 1)..m /\ later[i] = chain[n + i]
    BY <1>1, <1>2
  <2>2. ASSUME NEW i \in (n + 1)..m
        PROVE  i - n \in DOMAIN later /\ later[i - n] = chain[i]
    <3>1. i - n \in 1..(m - n) /\ n + (i - n) = i
      BY <1>1
    <3> QED BY <1>2, <3>1
  <2> QED BY <2>1, <2>2
<1>5. Rebased(chain, runs, key) = <<first>> \o later
  BY DEF Rebased, later
<1> DEFINE new == <<first>> \o later
<1> HIDE DEF first
<1>6. /\ new \in Seq(Layer) /\ Len(new) = m - n + 1 /\ new[1] = first
      /\ \A i \in 2..(m - n + 1) : new[i] = later[i - 1]
  <2>1. <<first>> \in Seq(Layer) /\ Len(<<first>>) = 1 /\ <<first>>[1] = first
    BY <1>3
  <2>2. /\ new \in Seq(Layer) /\ Len(new) = 1 + Len(later)
        /\ \A i \in 1..1 + Len(later) :
             new[i] = IF i <= 1 THEN <<first>>[i] ELSE later[i - 1]
    BY <1>2, <2>1, ConcatProperties
  <2> HIDE DEF new
  <2>3. Len(new) = m - n + 1 /\ 1 \in 1..1 + Len(later)
    BY <1>1, <1>2, <2>2
  <2>4. new[1] = first
    BY <2>1, <2>2, <2>3
  <2>5. \A i \in 2..(m - n + 1) : i \in 1..1 + Len(later) /\ ~(i <= 1)
    BY <1>1, <1>2
  <2> QED BY <2>2, <2>3, <2>4, <2>5
<1>7. ASSUME NEW i \in 2..(m - n + 1)
      PROVE  new[i] = chain[n + i - 1]
  <2>1. i - 1 \in 1..(m - n) /\ n + (i - 1) = n + i - 1
    BY <1>1
  <2> QED BY <1>2, <1>6, <2>1
<1>8. first.run = base /\ first.key = key /\ first.hidden = hidden
  BY DEF first
<1> HIDE DEF new, hidden
<1>9. DOMAIN new = 1..(m - n + 1)
  BY <1>1, <1>6
<1> QED BY <1>1, <1>4, <1>5, <1>6, <1>7, <1>8, <1>9 DEF IsRebased, new

\* A merge does not change what the chain says ...
LEMMA RebasedSays ==
  ASSUME NEW chain \in Seq(Layer), NEW runs \in Seq(Layer), Complete(runs),
         NEW key \in Nat, NEW new, IsRebased(new, chain, runs, key),
         \A i \in DOMAIN runs : runs[i].run = chain[i].run,
         NEW id \in Id, NEW s, Says(chain, id, s)
  PROVE  Says(new, id, s)
<1> DEFINE n == Len(runs)
<1> DEFINE m == Len(chain)
<1>1. /\ DOMAIN new = 1..(m - n + 1) /\ n \in Nat \ {0} /\ m \in Nat /\ n <= m
      /\ DOMAIN chain = 1..m /\ DOMAIN runs = 1..n
      /\ new[1].run = Built(runs)
      /\ \A i \in 2..(m - n + 1) : new[i] = chain[n + i - 1]
  BY DEF IsRebased
<1>2. \A i \in 1..n : runs[i].run = chain[i].run
  BY <1>1
<1>3. \A t : Says(runs, id, t) => Built(runs)[id] = t
  BY BuiltType
<1> HIDE DEF n, m
<1>4. CASE s = Absent
  <2>1. \A i \in 1..m : chain[i].run[id] = Absent
    BY <1>1, <1>4 DEF Says
  <2>2. Says(runs, id, Absent)
    BY <1>1, <1>2, <2>1 DEF Says
  <2>3. new[1].run[id] = Absent
    BY <1>1, <1>3, <2>2
  <2>4. ASSUME NEW i \in 2..(m - n + 1)
        PROVE  new[i].run[id] = Absent
    <3>1. n + i - 1 \in 1..m
      BY <1>1
    <3> QED BY <1>1, <2>1, <3>1
  <2>5. \A i \in DOMAIN new : i = 1 \/ i \in 2..(m - n + 1)
    BY <1>1
  <2> QED BY <1>4, <2>3, <2>4, <2>5 DEF Says
<1>5. CASE s # Absent
  <2>1. PICK i \in 1..m :
          chain[i].run[id] = s /\ \A j \in 1..m : j > i => chain[j].run[id] = Absent
    BY <1>1, <1>5 DEF Says
  <2>2. CASE i > n
    <3>1. i - n + 1 \in 2..(m - n + 1) /\ n + (i - n + 1) - 1 = i
      BY <1>1, <2>2
    <3>2. i - n + 1 \in DOMAIN new /\ new[i - n + 1].run[id] = s
      BY <1>1, <2>1, <3>1
    <3>3. ASSUME NEW j \in DOMAIN new, j > i - n + 1
          PROVE  new[j].run[id] = Absent
      <4>1. j \in 2..(m - n + 1) /\ n + j - 1 \in 1..m /\ n + j - 1 > i
        BY <1>1, <2>2, <3>3
      <4> QED BY <1>1, <2>1, <4>1
    <3> QED BY <1>5, <3>2, <3>3 DEF Says
  <2>3. CASE ~(i > n)
    <3>1. i \in 1..n /\ runs[i].run[id] = s
      BY <1>1, <1>2, <2>1, <2>3
    <3>2. \A j \in 1..n : j > i => runs[j].run[id] = Absent
      BY <1>1, <1>2, <2>1
    <3>3. Says(runs, id, s)
      BY <1>1, <1>5, <3>1, <3>2 DEF Says
    <3>4. 1 \in DOMAIN new /\ new[1].run[id] = s
      BY <1>1, <1>3, <3>3
    <3>5. ASSUME NEW j \in DOMAIN new, j > 1
          PROVE  new[j].run[id] = Absent
      <4>1. j \in 2..(m - n + 1) /\ n + j - 1 \in 1..m /\ n + j - 1 > i
        BY <1>1, <2>3, <3>5
      <4> QED BY <1>1, <2>1, <4>1
    <3> QED BY <1>5, <3>4, <3>5 DEF Says
  <2> QED BY <2>2, <2>3
<1> QED BY <1>4, <1>5

\* ... nor leaves a slot shown that a later run holds.
LEMMA RebasedShadow ==
  ASSUME NEW chain \in Seq(Layer), NEW runs \in Seq(Layer), ShadowOK(chain),
         NEW key \in Nat, NEW new, IsRebased(new, chain, runs, key)
  PROVE  ShadowOK(new)
<1> DEFINE n == Len(runs)
<1> DEFINE m == Len(chain)
<1>1. /\ DOMAIN new = 1..(m - n + 1) /\ n \in Nat \ {0} /\ m \in Nat /\ n <= m
      /\ DOMAIN chain = 1..m
      /\ new[1].run = Built(runs)
      /\ new[1].hidden = {id \in Holds(Built(runs)) :
                            \E i \in (n + 1)..m : id \in Holds(chain[i].run)}
      /\ \A i \in 2..(m - n + 1) : new[i] = chain[n + i - 1]
  BY DEF IsRebased
<1> HIDE DEF n, m
<1>2. ASSUME NEW i \in 1..(m - n + 1), NEW id \in Id
      PROVE  (\E j \in DOMAIN new : j > i /\ new[j].run[id] # Absent)
               <=> (\E k \in 1..m : k > n + i - 1 /\ chain[k].run[id] # Absent)
  <2>1. ASSUME NEW j \in DOMAIN new, j > i, new[j].run[id] # Absent
        PROVE  \E k \in 1..m : k > n + i - 1 /\ chain[k].run[id] # Absent
    <3>1. j \in 2..(m - n + 1) /\ n + j - 1 \in 1..m /\ n + j - 1 > n + i - 1
      BY <1>1, <2>1
    <3> QED BY <1>1, <2>1, <3>1
  <2>2. ASSUME NEW k \in 1..m, k > n + i - 1, chain[k].run[id] # Absent
        PROVE  \E j \in DOMAIN new : j > i /\ new[j].run[id] # Absent
    <3>1. k - n + 1 \in 2..(m - n + 1) /\ k - n + 1 > i /\ n + (k - n + 1) - 1 = k
      BY <1>1, <2>2
    <3>2. k - n + 1 \in DOMAIN new /\ new[k - n + 1].run[id] # Absent
      BY <1>1, <2>2, <3>1
    <3> QED BY <3>1, <3>2
  <2> QED BY <2>1, <2>2
<1>3. new[1].hidden = Shadowed(new, 1)
  <2>1. \A id \in Id : (\E k \in 1..m : k > n + 1 - 1 /\ chain[k].run[id] # Absent)
                         <=> (\E i \in (n + 1)..m : id \in Holds(chain[i].run))
    BY <1>1 DEF Holds
  <2>2. 1 \in 1..(m - n + 1)
    BY <1>1
  <2>3. \A id \in Id : (\E j \in DOMAIN new : j > 1 /\ new[j].run[id] # Absent)
                         <=> (\E i \in (n + 1)..m : id \in Holds(chain[i].run))
    BY <1>2, <2>1, <2>2
  <2> QED BY <1>1, <2>3 DEF Shadowed, Holds
<1>4. ASSUME NEW i \in 2..(m - n + 1)
      PROVE  new[i].hidden = Shadowed(new, i)
  <2>1. n + i - 1 \in DOMAIN chain /\ i \in 1..(m - n + 1) /\ new[i] = chain[n + i - 1]
    BY <1>1
  <2>2. chain[n + i - 1].hidden = Shadowed(chain, n + i - 1)
    BY <2>1 DEF ShadowOK
  <2>3. Shadowed(chain, n + i - 1) = Shadowed(new, i)
    BY <1>1, <1>2, <2>1 DEF Shadowed
  <2> QED BY <2>1, <2>2, <2>3
<1>5. \A i \in DOMAIN new : i = 1 \/ i \in 2..(m - n + 1)
  BY <1>1
<1> QED BY <1>3, <1>4, <1>5 DEF ShadowOK

-----------------------------------------------------------------------------
(***************************************************************************)
(* What holds of the chains in memory: the present one and the captured    *)
(* one.  A run's identity is never given twice, which is why a merge may   *)
(* replace the runs it finds under the identities it captured.             *)
(***************************************************************************)
GoodChain(chain, last) ==
  /\ chain \in Seq(Layer) /\ ShadowOK(chain) /\ Complete(chain)
  /\ \A i \in DOMAIN chain : chain[i].key <= last
  /\ \A i, j \in DOMAIN chain : chain[i].key = chain[j].key => chain[i].run = chain[j].run

Agree(chain, runs) ==
  \A i \in DOMAIN chain, j \in DOMAIN runs :
    chain[i].key = runs[j].key => chain[i].run = runs[j].run

LEMMA KeyIsNat ==
  ASSUME NEW chain \in Seq(Layer), NEW i \in DOMAIN chain
  PROVE  chain[i] \in Layer /\ chain[i].run \in Run /\ chain[i].key \in Nat
<1>1. chain[i] \in Layer
  OBVIOUS
<1> QED BY <1>1 DEF Layer

LEMMA EmptyGood ==
  ASSUME NEW last
  PROVE  GoodChain(<<>>, last)
<1>1. Absent \in State
  BY DEF Absent, State
<1> QED BY <1>1 DEF GoodChain, ShadowOK, Complete, Says

LEMMA LaterGood ==
  ASSUME NEW last \in Nat, NEW chain, GoodChain(chain, last)
  PROVE  GoodChain(chain, last + 1)
<1>1. chain \in Seq(Layer)
  BY DEF GoodChain
<1>2. \A i \in DOMAIN chain : chain[i].key <= last + 1
  <2>1. ASSUME NEW i \in DOMAIN chain
        PROVE  chain[i].key <= last + 1
    <3>1. chain[i].key \in Nat /\ chain[i].key <= last
      BY <1>1, KeyIsNat DEF GoodChain
    <3> QED BY <3>1
  <2> QED BY <2>1
<1> QED BY <1>2 DEF GoodChain

LEMMA PushedGood ==
  ASSUME NEW last \in Nat, NEW chain, GoodChain(chain, last), NEW run \in Run,
         NEW new, new = Pushed(chain, run, last + 1)
  PROVE  /\ GoodChain(new, last + 1) /\ new # <<>>
         /\ \A runs : GoodChain(runs, last) /\ Agree(chain, runs) => Agree(new, runs)
<1>0. chain \in Seq(Layer) /\ last + 1 \in Nat
  BY DEF GoodChain
<1>1. IsPushed(new, chain, run, last + 1)
  BY <1>0, PushedType
<1> DEFINE n == Len(chain)
<1>2. /\ new \in Seq(Layer) /\ DOMAIN new = 1..(n + 1) /\ DOMAIN chain = 1..n /\ n \in Nat
      /\ \A i \in 1..n : new[i].run = chain[i].run /\ new[i].key = chain[i].key
      /\ new[n + 1].run = run /\ new[n + 1].key = last + 1
  BY <1>1 DEF IsPushed
<1> HIDE DEF n
<1>3. ShadowOK(new)
  BY <1>0, PushedShadow DEF GoodChain
<1>4. Complete(new)
  <2>1. ASSUME NEW id \in Id
        PROVE  \E s \in State : Says(new, id, s)
    <3>1. PICK s \in State : Says(chain, id, s)
      BY DEF GoodChain, Complete
    <3>2. Says(new, id, IF run[id] # Absent THEN run[id] ELSE s)
      BY <1>0, <3>1, PushedSays
    <3>3. run[id] \in State
      BY DEF Run
    <3> QED BY <3>2, <3>3
  <2> QED BY <2>1 DEF Complete
<1>5. \A i \in DOMAIN new : i = n + 1 \/ i \in 1..n
  BY <1>2
<1>6. \A i \in 1..n : chain[i].key \in Nat /\ chain[i].key <= last
  BY <1>0, <1>2, KeyIsNat DEF GoodChain
<1>7. \A i \in 1..n : new[i].key \in Nat /\ new[i].key <= last + 1 /\ new[i].key # last + 1
  BY <1>2, <1>6
<1>8. \A i \in DOMAIN new : new[i].key <= last + 1
  BY <1>2, <1>5, <1>7
<1>9. ASSUME NEW i \in DOMAIN new, NEW j \in DOMAIN new, new[i].key = new[j].key
      PROVE  new[i].run = new[j].run
  <2>1. CASE i = n + 1
    BY <1>2, <1>5, <1>7, <1>9, <2>1
  <2>2. CASE j = n + 1
    BY <1>2, <1>5, <1>7, <1>9, <2>2
  <2>3. CASE i \in 1..n /\ j \in 1..n
    BY <1>2, <1>9, <2>3 DEF GoodChain
  <2> QED BY <1>5, <2>1, <2>2, <2>3
<1>10. ASSUME NEW runs, GoodChain(runs, last), Agree(chain, runs)
       PROVE  Agree(new, runs)
  <2>1. ASSUME NEW i \in DOMAIN new, NEW j \in DOMAIN runs, new[i].key = runs[j].key
        PROVE  new[i].run = runs[j].run
    <3>1. runs[j].key \in Nat /\ runs[j].key <= last
      BY <1>10, KeyIsNat DEF GoodChain
    <3>2. i # n + 1
      BY <1>2, <2>1, <3>1
    <3> QED BY <1>2, <1>5, <1>10, <2>1, <3>2 DEF Agree
  <2> QED BY <2>1 DEF Agree
<1>11. new # <<>>
  BY <1>2
<1> QED BY <1>2, <1>3, <1>4, <1>8, <1>9, <1>10, <1>11 DEF GoodChain

LEMMA RebasedGood ==
  ASSUME NEW last \in Nat, NEW chain, GoodChain(chain, last), NEW runs, GoodChain(runs, last),
         runs # <<>>, Len(runs) <= Len(chain), Agree(chain, runs),
         \A i \in DOMAIN runs : chain[i].key = runs[i].key,
         NEW new, new = Rebased(chain, runs, last + 1)
  PROVE  /\ GoodChain(new, last + 1) /\ new # <<>>
         /\ \A id \in Id : \A s : Says(chain, id, s) => Says(new, id, s)
         /\ \A others : GoodChain(others, last) /\ Agree(chain, others) => Agree(new, others)
<1>0. chain \in Seq(Layer) /\ runs \in Seq(Layer) /\ Complete(runs) /\ last + 1 \in Nat
  BY DEF GoodChain
<1>1. IsRebased(new, chain, runs, last + 1)
  BY <1>0, BuiltType, RebasedType
<1> DEFINE n == Len(runs)
<1> DEFINE m == Len(chain)
<1>2. /\ new \in Seq(Layer) /\ DOMAIN new = 1..(m - n + 1)
      /\ n \in Nat \ {0} /\ m \in Nat /\ n <= m
      /\ DOMAIN chain = 1..m /\ DOMAIN runs = 1..n
      /\ new[1].key = last + 1
      /\ \A i \in 2..(m - n + 1) : new[i] = chain[n + i - 1]
  BY <1>1 DEF IsRebased
<1> HIDE DEF n, m
<1>3. ShadowOK(new)
  BY <1>0, <1>1, RebasedShadow DEF GoodChain
<1>4. ASSUME NEW i \in DOMAIN runs
      PROVE  runs[i].run = chain[i].run
  <2>1. i \in DOMAIN chain
    BY <1>2
  <2> QED BY <2>1 DEF Agree
<1>5. ASSUME NEW id \in Id, NEW s, Says(chain, id, s)
      PROVE  Says(new, id, s)
  BY <1>0, <1>1, <1>4, <1>5, RebasedSays
<1>6. Complete(new)
  BY <1>5 DEF GoodChain, Complete
<1> DEFINE k == m - n + 1
<1>7. /\ k \in Nat \ {0} /\ DOMAIN new = 1..k
      /\ \A i \in 2..k : n + i - 1 \in 1..m
  <2>1. n \in Nat \ {0} /\ m \in Nat /\ n <= m
    BY <1>2
  <2>2. k \in Nat \ {0} /\ \A i \in 2..k : n + i - 1 \in 1..m
    BY <2>1
  <2> QED BY <1>2, <2>2
<1>8. new[1].key = last + 1 /\ \A i \in 2..k : new[i] = chain[n + i - 1]
  BY <1>2
<1> HIDE DEF k
<1>9. \A i \in DOMAIN new : i = 1 \/ i \in 2..k
  BY <1>7
<1>10. ASSUME NEW i \in 2..k
      PROVE  /\ n + i - 1 \in DOMAIN chain /\ new[i] = chain[n + i - 1]
             /\ new[i].key \in Nat /\ new[i].key <= last + 1 /\ new[i].key # last + 1
  <2>1. n + i - 1 \in DOMAIN chain /\ new[i] = chain[n + i - 1]
    <3>1. n + i - 1 \in 1..m
      BY <1>7
    <3>2. DOMAIN chain = 1..m
      BY <1>2
    <3> QED BY <1>8, <3>1, <3>2
  <2>2. chain[n + i - 1].key \in Nat /\ chain[n + i - 1].key <= last
    BY <1>0, <2>1, KeyIsNat DEF GoodChain
  <2> QED BY <2>1, <2>2
<1>11. ASSUME NEW i \in DOMAIN new
      PROVE  new[i].key <= last + 1
  <2>1. CASE i = 1
    BY <1>0, <1>8, <2>1
  <2> QED BY <1>9, <1>10, <2>1
<1>12. ASSUME NEW i \in DOMAIN new, NEW j \in DOMAIN new, new[i].key = new[j].key
       PROVE  new[i].run = new[j].run
  <2>1. CASE i = 1
    BY <1>8, <1>9, <1>10, <1>12, <2>1
  <2>2. CASE j = 1
    BY <1>8, <1>9, <1>10, <1>12, <2>2
  <2>3. CASE i \in 2..k /\ j \in 2..k
    BY <1>10, <1>12, <2>3 DEF GoodChain
  <2> QED BY <1>9, <2>1, <2>2, <2>3
<1>13. ASSUME NEW others, GoodChain(others, last), Agree(chain, others)
       PROVE  Agree(new, others)
  <2>1. ASSUME NEW i \in DOMAIN new, NEW j \in DOMAIN others, new[i].key = others[j].key
        PROVE  new[i].run = others[j].run
    <3>1. others[j].key \in Nat /\ others[j].key <= last
      BY <1>13, KeyIsNat DEF GoodChain
    <3>2. new[1].key # others[j].key
      BY <1>8, <3>1
    <3>3. i \in 2..k
      BY <1>9, <2>1, <3>2
    <3> QED BY <1>10, <1>13, <2>1, <3>3 DEF Agree
  <2> QED BY <2>1 DEF Agree
<1>14. new # <<>>
  <2>1. 1 \in DOMAIN new
    BY <1>7
  <2> QED BY <2>1
<1> QED BY <1>2, <1>3, <1>5, <1>6, <1>11, <1>12, <1>13, <1>14 DEF GoodChain

\* The root of a chain and of a head that say together what the MemTable says.
LEMMA RootedResolves ==
  ASSUME NEW chain \in Seq(Layer), ShadowOK(chain), Complete(chain), NEW top \in Run,
         table \in Run,
         \A id \in Id : IF top[id] # Absent THEN top[id] = table[id]
                        ELSE Says(chain, id, table[id])
  PROVE  Resolves(Rooted(chain, top))
<1> DEFINE v == Rooted(chain, top)
<1>1. v.layers = (IF Holds(top) = {} THEN chain ELSE Pushed(chain, top, 0)) /\ v.seen = table
  BY DEF Rooted
<1> HIDE DEF v
<1>2. v.layers \in Seq(Layer) /\ ShadowOK(v.layers)
        /\ \A id \in Id : Says(v.layers, id, table[id])
  <2>1. CASE Holds(top) = {}
    BY <1>1, <2>1 DEF Holds
  <2>2. CASE Holds(top) # {}
    <3>1. v.layers = Pushed(chain, top, 0) /\ 0 \in Nat
      BY <1>1, <2>2
    <3>2. v.layers \in Seq(Layer)
      BY <3>1, PushedType DEF IsPushed
    <3>3. ShadowOK(v.layers)
      BY <3>1, PushedShadow
    <3>4. ASSUME NEW id \in Id
          PROVE  Says(v.layers, id, table[id])
      <4>1. PICK s \in State : Says(chain, id, s)
        BY DEF Complete
      <4>2. CASE top[id] # Absent
        BY <3>1, <4>1, <4>2, PushedSays
      <4>3. CASE top[id] = Absent
        BY <3>1, <4>3, PushedSays
      <4> QED BY <4>2, <4>3
    <3> QED BY <3>2, <3>3, <3>4
  <2> QED BY <2>1, <2>2
<1>3. ASSUME NEW id \in Id
      PROVE  IF table[id].live
             THEN \E i \in DOMAIN v.layers :
                    Met(v.layers, id) = {i} /\ v.layers[i].run[id] = table[id]
             ELSE Met(v.layers, id) = {}
  <2>1. table[id] \in State
    BY DEF Run
  <2> QED BY <1>2, <2>1, ShadowShows
<1> QED BY <1>1, <1>2, <1>3 DEF Resolves, v

-----------------------------------------------------------------------------
(***************************************************************************)
(* The inductive invariant.                                                *)
(***************************************************************************)
Types ==
  /\ table \in Run /\ head \in Run /\ sequence \in Nat /\ made \in Nat
  /\ writing \in BOOLEAN

Chains == GoodChain(layers, made) /\ GoodChain(merge, made) /\ Agree(layers, merge)

\* A call in progress: what it has still to record is in the MemTable.
CallOK ==
  /\ todo \subseteq Id
  /\ ~writing => todo = {}
  /\ writing => layers # <<>> /\ root = NoRoot
  /\ \A id \in todo : table[id] # Absent

\* Apart from that, the head over the chain says what the MemTable says.
HeadOK ==
  status = "open" /\ layers # <<>> =>
    \A id \in Id \ todo : IF head[id] # Absent THEN head[id] = table[id]
                          ELSE Says(layers, id, table[id])

FrozenOK == frozen # NoHead => frozen = head

RootOK == root # NoRoot => Resolves(root)

IInv ==
  Types /\ Chains /\ CallOK /\ HeadOK /\ FrozenOK /\ RootOK /\ ViewsResolve /\ SnapshotIsCurrent

LEMMA InitIInv == Init => IInv
<1> SUFFICES ASSUME Init PROVE IInv
  OBVIOUS
<1>1. Absent \in State
  BY DEF Absent, State
<1>2. EmptyRun \in Run
  BY <1>1 DEF EmptyRun, Run
<1>3. Types
  BY <1>2 DEF Init, Types
<1>4. Chains
  BY EmptyGood DEF Init, Chains, Agree
<1> QED BY <1>3, <1>4
  DEF Init, IInv, CallOK, HeadOK, FrozenOK, RootOK, ViewsResolve, SnapshotIsCurrent

\* The MemTable after a call that wrote ids.
LEMMA WrittenType ==
  ASSUME Types, NEW ids \in SUBSET Id, NEW live \in [ids -> BOOLEAN],
         NEW t, t = Written(ids, live)
  PROVE  /\ t \in Run
         /\ \A id \in ids : t[id] # Absent
         /\ \A id \in Id \ ids : t[id] = table[id]
<1>1. ASSUME NEW id \in ids
      PROVE  [live |-> live[id], version |-> sequence + 1] \in State
             /\ [live |-> live[id], version |-> sequence + 1] # Absent
  <2>1. live[id] \in BOOLEAN /\ sequence + 1 \in Nat /\ sequence + 1 # 0
    BY DEF Types
  <2> QED BY <2>1 DEF State, Absent
<1>2. \A id \in Id : table[id] \in State
  BY DEF Types, Run
<1> QED BY <1>1, <1>2 DEF Written, Run

LEMMA WriteStep ==
  ASSUME IInv, NEW ids \in SUBSET Id, Write(ids)
  PROVE  IInv'
<1>1. /\ status = "open" /\ ~writing
      /\ sequence' = sequence + 1 /\ root' = NoRoot /\ writing' = (layers # <<>>)
      /\ todo' = IF layers = <<>> THEN {} ELSE ids
      /\ UNCHANGED <<generation, status, layers, head, frozen, recorded, made, merge, views>>
  BY DEF Write
<1>2. PICK live \in [ids -> BOOLEAN] : table' = Written(ids, live)
  BY DEF Write
<1>3. Types
  BY DEF IInv
<1>4. /\ table' \in Run
      /\ \A id \in ids : table'[id] # Absent
      /\ \A id \in Id \ ids : table'[id] = table[id]
  BY <1>2, <1>3, WrittenType
<1>5. Types'
  BY <1>1, <1>3, <1>4 DEF Types
<1>6. Chains'
  BY <1>1 DEF IInv, Chains, GoodChain, ShadowOK, Shadowed, Complete, Agree
<1>7. CallOK'
  BY <1>1, <1>4 DEF CallOK
<1>8. HeadOK'
  <2>1. todo = {}
    BY <1>1 DEF IInv, CallOK
  <2>2. ASSUME layers # <<>>, NEW id \in Id \ ids
        PROVE  IF head[id] # Absent THEN head[id] = table'[id]
               ELSE Says(layers, id, table'[id])
    BY <1>1, <1>4, <2>1, <2>2 DEF IInv, HeadOK
  <2> QED BY <1>1, <2>2 DEF HeadOK
<1>9. FrozenOK' /\ RootOK'
  BY <1>1 DEF IInv, FrozenOK, RootOK
<1>10. ViewsResolve'
  BY <1>1 DEF IInv, ViewsResolve
<1>11. SnapshotIsCurrent'
  BY <1>1 DEF SnapshotIsCurrent
<1> QED BY <1>5, <1>6, <1>7, <1>8, <1>9, <1>10, <1>11 DEF IInv

LEMMA BatchFailsStep ==
  ASSUME IInv, NEW ids \in SUBSET Id, BatchFails(ids)
  PROVE  IInv'
<1>1. /\ ~writing /\ status' = "failed"
      /\ UNCHANGED <<sequence, generation, writing, todo, layers, head, frozen, recorded, root,
                     made, merge, views>>
  BY DEF BatchFails, call, cache
<1>2. PICK live \in [ids -> BOOLEAN] : table' = Written(ids, live)
  BY DEF BatchFails
<1>3. table' \in Run
  BY <1>2, WrittenType DEF IInv
<1>4. Types'
  BY <1>1, <1>3 DEF IInv, Types
<1>5. Chains'
  BY <1>1 DEF IInv, Chains
<1>6. todo = {}
  BY <1>1 DEF IInv, CallOK
<1>7. CallOK'
  BY <1>1, <1>6 DEF CallOK
<1>8. HeadOK' /\ SnapshotIsCurrent'
  BY <1>1 DEF HeadOK, SnapshotIsCurrent
<1>9. FrozenOK' /\ RootOK' /\ ViewsResolve'
  BY <1>1 DEF IInv, FrozenOK, RootOK, ViewsResolve
<1> QED BY <1>4, <1>5, <1>7, <1>8, <1>9 DEF IInv

LEMMA RecordOneStep ==
  ASSUME IInv, NEW id \in Id, RecordOne(id)
  PROVE  IInv'
<1>1. /\ writing /\ id \in todo
      /\ head' = [head EXCEPT ![id] = table[id]] /\ frozen' = NoHead /\ todo' = todo \ {id}
      /\ UNCHANGED <<table, sequence, generation, status, writing, layers, recorded, root, made,
                     merge, views>>
  BY DEF RecordOne, collection
<1>2. head \in Run /\ table \in Run /\ table[id] # Absent
  BY <1>1 DEF IInv, Types, CallOK
<1>3. head' \in Run
  BY <1>1, <1>2 DEF Run
<1>4. Types' /\ Chains'
  BY <1>1, <1>3 DEF IInv, Types, Chains
<1>5. CallOK'
  BY <1>1 DEF IInv, CallOK
<1>6. HeadOK'
  <2>1. ASSUME status = "open", layers # <<>>, NEW i \in Id \ (todo \ {id})
        PROVE  IF head'[i] # Absent THEN head'[i] = table[i] ELSE Says(layers, i, table[i])
    <3>1. CASE i = id
      BY <1>1, <1>2, <3>1 DEF Run
    <3>2. CASE i # id
      <4>1. head'[i] = head[i] /\ i \in Id \ todo
        BY <1>1, <1>2, <3>2 DEF Run
      <4> QED BY <2>1, <4>1 DEF IInv, HeadOK
    <3> QED BY <3>1, <3>2
  <2> QED BY <1>1, <2>1 DEF HeadOK
<1>7. FrozenOK'
  BY <1>1 DEF FrozenOK
<1>8. RootOK' /\ ViewsResolve' /\ SnapshotIsCurrent'
  BY <1>1 DEF IInv, RootOK, ViewsResolve, SnapshotIsCurrent
<1> QED BY <1>4, <1>5, <1>6, <1>7, <1>8 DEF IInv

LEMMA SealStep ==
  ASSUME IInv, Seal
  PROVE  IInv'
<1>1. /\ writing /\ layers' = Pushed(layers, head, made + 1) /\ made' = made + 1
      /\ head' = EmptyRun /\ frozen' = NoHead
      /\ UNCHANGED <<table, sequence, generation, status, writing, todo, recorded, root, merge,
                     views>>
  BY DEF Seal, collection, call
<1>2. /\ head \in Run /\ made \in Nat /\ GoodChain(layers, made) /\ GoodChain(merge, made)
      /\ Agree(layers, merge) /\ layers \in Seq(Layer) /\ Complete(layers)
  BY DEF IInv, Types, Chains, GoodChain
<1>3. GoodChain(layers', made + 1) /\ layers' # <<>> /\ Agree(layers', merge)
  BY <1>1, <1>2, PushedGood
<1>4. EmptyRun \in Run
  BY DEF EmptyRun, Run, Absent, State
<1>5. Types'
  BY <1>1, <1>2, <1>4 DEF IInv, Types
<1>6. Chains'
  BY <1>1, <1>2, <1>3, LaterGood DEF Chains
<1>7. CallOK'
  BY <1>1, <1>3 DEF IInv, CallOK
<1>8. HeadOK'
  <2>1. ASSUME status = "open", NEW id \in Id \ todo
        PROVE  Says(layers', id, table[id])
    <3>1. layers # <<>>
      BY <1>1 DEF IInv, CallOK
    <3>2. IF head[id] # Absent THEN head[id] = table[id] ELSE Says(layers, id, table[id])
      BY <2>1, <3>1 DEF IInv, HeadOK
    <3>3. PICK s \in State : Says(layers, id, s)
      BY <1>2 DEF Complete
    <3>4. made + 1 \in Nat
      BY <1>2
    <3>5. CASE head[id] # Absent
      BY <1>1, <1>2, <3>2, <3>3, <3>4, <3>5, PushedSays
    <3>6. CASE head[id] = Absent
      BY <1>1, <1>2, <3>2, <3>4, <3>6, PushedSays
    <3> QED BY <3>5, <3>6
  <2>2. \A id \in Id : EmptyRun[id] = Absent
    BY DEF EmptyRun
  <2> QED BY <1>1, <2>1, <2>2 DEF HeadOK
<1>9. FrozenOK'
  BY <1>1 DEF FrozenOK
<1>10. RootOK' /\ ViewsResolve' /\ SnapshotIsCurrent'
  BY <1>1 DEF IInv, RootOK, ViewsResolve, SnapshotIsCurrent
<1> QED BY <1>5, <1>6, <1>7, <1>8, <1>9, <1>10 DEF IInv

\* Every way to drop the derived state: a record or a merge that raises, and a close.
LEMMA ResetStep ==
  ASSUME IInv, layers' = <<>>, head' = EmptyRun, frozen' = NoHead, root' = NoRoot,
         writing' = FALSE, todo' = {},
         UNCHANGED <<table, sequence, generation, made, merge, views>>
  PROVE  IInv'
<1>1. EmptyRun \in Run
  BY DEF EmptyRun, Run, Absent, State
<1>2. Types'
  BY <1>1 DEF IInv, Types
<1>3. Chains'
  BY EmptyGood DEF IInv, Chains, Agree
<1>4. CallOK' /\ HeadOK' /\ FrozenOK' /\ RootOK' /\ SnapshotIsCurrent'
  BY DEF CallOK, HeadOK, FrozenOK, RootOK, SnapshotIsCurrent
<1>5. ViewsResolve'
  BY DEF IInv, ViewsResolve
<1> QED BY <1>2, <1>3, <1>4, <1>5 DEF IInv

LEMMA EndRecordStep ==
  ASSUME IInv, EndRecord
  PROVE  IInv'
<1>1. /\ writing /\ todo = {} /\ writing' = FALSE /\ recorded' = sequence
      /\ UNCHANGED <<table, sequence, generation, status, todo, layers, head, frozen, root, made,
                     merge, views>>
  BY DEF EndRecord, Recorded, collection
<1>2. root = NoRoot
  BY <1>1 DEF IInv, CallOK
<1> QED BY <1>1, <1>2
  DEF IInv, Types, Chains, CallOK, HeadOK, FrozenOK, RootOK, ViewsResolve, SnapshotIsCurrent

\* A published merge, of the whole chain or of its first runs.
LEMMA RebasedStep ==
  ASSUME IInv, NEW runs, runs # <<>>, GoodChain(runs, made), Agree(layers, runs), Current(runs),
         todo = {}, layers # <<>> /\ status = "open" => recorded' = sequence,
         layers' = Rebased(layers, runs, made + 1), made' = made + 1, root' = NoRoot,
         merge' = merge \/ merge' = <<>>, writing' = FALSE,
         UNCHANGED <<table, sequence, generation, status, todo, head, frozen, views>>
  PROVE  IInv'
<1>1. made \in Nat /\ GoodChain(layers, made) /\ GoodChain(merge, made) /\ Agree(layers, merge)
  BY DEF IInv, Types, Chains
<1>2. \A i \in DOMAIN runs : layers[i].key = runs[i].key
  BY DEF Current
<1>3. Len(runs) <= Len(layers)
  BY DEF Current
<1>4. /\ GoodChain(layers', made + 1) /\ layers' # <<>>
      /\ \A id \in Id : \A s : Says(layers, id, s) => Says(layers', id, s)
      /\ Agree(layers', merge)
  BY <1>1, <1>2, <1>3, RebasedGood
<1>5. layers # <<>>
  <2>1. runs \in Seq(Layer)
    BY DEF GoodChain
  <2> QED BY <1>3, <2>1
<1>6. Types'
  <2>1. table' \in Run /\ head' \in Run /\ sequence' \in Nat
    BY DEF IInv, Types
  <2>2. made' \in Nat
    BY <1>1
  <2>3. writing' \in BOOLEAN
    OBVIOUS
  <2> QED BY <2>1, <2>2, <2>3 DEF Types
<1>7. GoodChain(merge', made + 1) /\ Agree(layers', merge')
  <2>1. CASE merge' = merge
    BY <1>1, <1>4, <2>1, LaterGood
  <2>2. CASE merge' = <<>>
    BY <2>2, EmptyGood DEF Agree
  <2> QED BY <2>1, <2>2
<1>8. Chains'
  BY <1>4, <1>7 DEF Chains
<1>9. CallOK' /\ FrozenOK' /\ RootOK' /\ ViewsResolve'
  BY DEF IInv, CallOK, FrozenOK, RootOK, ViewsResolve
<1>10. HeadOK'
  BY <1>4, <1>5 DEF IInv, HeadOK
<1>11. SnapshotIsCurrent'
  BY <1>5 DEF SnapshotIsCurrent
<1> QED BY <1>6, <1>8, <1>9, <1>10, <1>11 DEF IInv

LEMMA EndMergingStep ==
  ASSUME IInv, EndMerging
  PROVE  IInv'
<1>1. /\ writing /\ todo = {} /\ writing' = FALSE /\ recorded' = sequence
      /\ layers' = Rebased(layers, layers, made + 1) /\ made' = made + 1 /\ root' = NoRoot
      /\ UNCHANGED <<table, sequence, generation, status, todo, head, frozen, merge, views>>
  BY DEF EndMerging, Recorded, collection
<1>2. layers # <<>> /\ GoodChain(layers, made)
  BY <1>1 DEF IInv, CallOK, Chains
<1>3. Agree(layers, layers)
  BY <1>2 DEF GoodChain, Agree
<1>4. Current(layers)
  <2>1. layers \in Seq(Layer)
    BY <1>2 DEF GoodChain
  <2>2. Len(layers) <= Len(layers)
    BY <2>1
  <2> QED BY <2>2 DEF Current
<1> QED BY <1>1, <1>2, <1>3, <1>4, RebasedStep

LEMMA PublishMergeStep ==
  ASSUME IInv, PublishMerge
  PROVE  IInv'
<1>1. /\ ~writing /\ merge # <<>> /\ merge' = <<>>
      /\ UNCHANGED <<table, sequence, generation, status, writing, todo, head, frozen, recorded,
                     views>>
  BY DEF PublishMerge, collection, call
<1>2. CASE status # "closed" /\ Current(merge)
  <2>1. layers' = Rebased(layers, merge, made + 1) /\ made' = made + 1 /\ root' = NoRoot
    BY <1>2 DEF PublishMerge
  <2>2. GoodChain(merge, made) /\ Agree(layers, merge) /\ todo = {} /\ writing' = FALSE
    BY <1>1 DEF IInv, Chains, CallOK, Types
  <2>3. layers # <<>> /\ status = "open" => recorded' = sequence
    BY <1>1 DEF IInv, SnapshotIsCurrent
  <2> QED BY <1>1, <1>2, <2>1, <2>2, <2>3, RebasedStep
<1>3. CASE ~(status # "closed" /\ Current(merge))
  <2>1. UNCHANGED <<layers, made, root>>
    BY <1>3 DEF PublishMerge
  <2>2. Chains'
    BY <1>1, <2>1, EmptyGood DEF IInv, Chains, Agree
  <2> QED BY <1>1, <2>1, <2>2
    DEF IInv, Types, CallOK, HeadOK, FrozenOK, RootOK, ViewsResolve, SnapshotIsCurrent
<1> QED BY <1>2, <1>3

LEMMA CaptureMergeStep ==
  ASSUME IInv, CaptureMerge
  PROVE  IInv'
<1>1. /\ merge' = layers
      /\ UNCHANGED <<table, sequence, generation, status, writing, todo, layers, head, frozen,
                     recorded, root, made, views>>
  BY DEF CaptureMerge, collection, call, cache
<1>2. Chains'
  BY <1>1 DEF IInv, Chains, GoodChain, Agree
<1> QED BY <1>1, <1>2
  DEF IInv, Types, CallOK, HeadOK, FrozenOK, RootOK, ViewsResolve, SnapshotIsCurrent

LEMMA MergeFailsStep ==
  ASSUME IInv, MergeFails
  PROVE  IInv'
<1>1. /\ merge' = <<>> /\ status' # "open"
      /\ UNCHANGED <<table, sequence, generation, writing, todo, layers, head, frozen,
                     recorded, root, made, views>>
  BY DEF MergeFails, call, cache
<1>2. Chains'
  BY <1>1, EmptyGood DEF IInv, Chains, Agree
<1> QED BY <1>1, <1>2
  DEF IInv, Types, CallOK, HeadOK, FrozenOK, RootOK, ViewsResolve, SnapshotIsCurrent

LEMMA AcquireCachedStep ==
  ASSUME IInv, AcquireCached
  PROVE  IInv'
<1>1. /\ root # NoRoot /\ views' = views \cup {root}
      /\ UNCHANGED <<table, sequence, generation, status, writing, todo, layers, head, frozen,
                     recorded, root, made, merge>>
  BY DEF AcquireCached, Cached, collection, call, cache
<1>2. ViewsResolve'
  BY <1>1 DEF IInv, ViewsResolve, RootOK
<1> QED BY <1>1, <1>2
  DEF IInv, Types, Chains, CallOK, HeadOK, FrozenOK, RootOK, SnapshotIsCurrent

\* A chain of one layer that holds a copy of the MemTable.
LEMMA BaseGood ==
  ASSUME NEW last \in Nat, NEW t \in Run,
         NEW new, new = <<[run |-> t, key |-> last + 1, hidden |-> {}]>>
  PROVE  /\ GoodChain(new, last + 1) /\ new # <<>>
         /\ \A id \in Id : Says(new, id, t[id])
         /\ \A runs : GoodChain(runs, last) => Agree(new, runs)
<1> DEFINE layer == [run |-> t, key |-> last + 1, hidden |-> {}]
<1>1. layer \in Layer /\ layer.run = t /\ layer.key = last + 1 /\ layer.hidden = {}
  BY DEF Layer
<1>2. new = <<layer>>
  OBVIOUS
<1> HIDE DEF layer
<1>3. new \in Seq(Layer) /\ DOMAIN new = {1} /\ new[1] = layer /\ new # <<>>
  BY <1>1, <1>2
<1>4. ShadowOK(new)
  BY <1>1, <1>3 DEF ShadowOK, Shadowed
<1>5. \A id \in Id : Says(new, id, t[id])
  BY <1>1, <1>3 DEF Says
<1>6. Complete(new)
  BY <1>5 DEF Complete, Run
<1>7. ASSUME NEW runs, GoodChain(runs, last)
      PROVE  Agree(new, runs)
  <2>1. ASSUME NEW j \in DOMAIN runs
        PROVE  new[1].key # runs[j].key
    <3>1. runs[j].key \in Nat /\ runs[j].key <= last
      BY <1>7, KeyIsNat DEF GoodChain
    <3> QED BY <1>1, <1>3, <3>1
  <2> QED BY <1>3, <2>1 DEF Agree
<1>8. \A i \in DOMAIN new : new[i].key <= last + 1
  BY <1>1, <1>3
<1> QED BY <1>3, <1>4, <1>5, <1>6, <1>7, <1>8 DEF GoodChain

LEMMA TakenResolves ==
  ASSUME IInv, NEW r, Resolves(r), Taken(r)
  PROVE  RootOK' /\ ViewsResolve'
<1>1. (\A v \in views : Resolves(v)) /\ (root # NoRoot => Resolves(root))
  BY DEF IInv, ViewsResolve, RootOK
<1>2. CASE root' = r /\ views' = views \cup {r}
  BY <1>1, <1>2 DEF RootOK, ViewsResolve
<1>3. CASE UNCHANGED <<root, views>>
  BY <1>1, <1>3 DEF RootOK, ViewsResolve
<1> QED BY <1>2, <1>3 DEF Taken

LEMMA AcquireBaseStep ==
  ASSUME IInv, AcquireBase
  PROVE  IInv'
<1>1. /\ status = "open" /\ ~writing
      /\ layers' = <<[run |-> table, key |-> made + 1, hidden |-> {}]>> /\ made' = made + 1
      /\ head' = EmptyRun /\ frozen' = NoHead /\ recorded' = sequence
      /\ Taken(Rooted(layers', EmptyRun))
      /\ UNCHANGED <<table, sequence, generation, status, writing, todo, merge>>
  BY DEF AcquireBase, collection, call
<1>2. table \in Run /\ made \in Nat /\ GoodChain(merge, made)
  BY DEF IInv, Types, Chains
<1>3. /\ GoodChain(layers', made + 1) /\ layers' # <<>> /\ Agree(layers', merge)
      /\ \A id \in Id : Says(layers', id, table[id])
  BY <1>1, <1>2, BaseGood
<1>4. EmptyRun \in Run /\ \A id \in Id : EmptyRun[id] = Absent
  BY DEF EmptyRun, Run, Absent, State
<1>5. Types'
  BY <1>1, <1>2, <1>4 DEF IInv, Types
<1>6. Chains'
  BY <1>1, <1>2, <1>3, LaterGood DEF Chains
<1>7. CallOK'
  BY <1>1 DEF IInv, CallOK
<1>8. HeadOK' /\ FrozenOK'
  BY <1>1, <1>3, <1>4 DEF HeadOK, FrozenOK
<1>9. Resolves(Rooted(layers', EmptyRun))
  <2>1. layers' \in Seq(Layer) /\ ShadowOK(layers') /\ Complete(layers')
    BY <1>3 DEF GoodChain
  <2> QED BY <1>2, <1>3, <1>4, <2>1, RootedResolves
<1>10. RootOK' /\ ViewsResolve'
  BY <1>1, <1>9, TakenResolves
<1>11. SnapshotIsCurrent'
  BY <1>1 DEF IInv, SnapshotIsCurrent, Rooted, Taken
<1> QED BY <1>5, <1>6, <1>7, <1>8, <1>10, <1>11 DEF IInv

LEMMA AcquireLayersStep ==
  ASSUME IInv, AcquireLayers
  PROVE  IInv'
<1>1. /\ status = "open" /\ ~writing /\ layers # <<>> /\ recorded = sequence
      /\ UNCHANGED <<table, sequence, generation, status, writing, todo, layers, head, recorded,
                     made, merge>>
  BY DEF AcquireLayers, collection, call
<1>2. /\ Taken(Rooted(layers, head))
      /\ frozen' = IF Holds(head) # {} THEN head ELSE frozen
  BY DEF AcquireLayers, IInv, FrozenOK
<1>3. /\ table \in Run /\ head \in Run /\ todo = {}
      /\ layers \in Seq(Layer) /\ ShadowOK(layers) /\ Complete(layers)
  BY <1>1 DEF IInv, Types, CallOK, Chains, GoodChain
<1>4. \A id \in Id : IF head[id] # Absent THEN head[id] = table[id]
                     ELSE Says(layers, id, table[id])
  BY <1>1, <1>3 DEF IInv, HeadOK
<1>5. Resolves(Rooted(layers, head))
  BY <1>3, <1>4, RootedResolves
<1>6. RootOK' /\ ViewsResolve'
  BY <1>2, <1>5, TakenResolves
<1>7. SnapshotIsCurrent'
  BY <1>1, <1>2 DEF IInv, SnapshotIsCurrent, Rooted, Taken
<1>8. FrozenOK'
  BY <1>1, <1>2 DEF IInv, FrozenOK
<1>9. Types' /\ Chains' /\ CallOK' /\ HeadOK'
  BY <1>1 DEF IInv, Types, Chains, CallOK, HeadOK
<1> QED BY <1>6, <1>7, <1>8, <1>9 DEF IInv

LEMMA NextIInv == IInv /\ [Next]_vars => IInv'
<1> SUFFICES ASSUME IInv, [Next]_vars PROVE IInv'
  OBVIOUS
<1>1. ASSUME NEW ids \in SUBSET Id, Write(ids) \/ BatchFails(ids)
      PROVE  IInv'
  BY <1>1, WriteStep, BatchFailsStep
<1>2. ASSUME NEW id \in Id, RecordOne(id)
      PROVE  IInv'
  BY <1>2, RecordOneStep
<1>3. CASE Seal
  BY <1>3, SealStep
<1>4. CASE RecordFails
  BY <1>4, ResetStep DEF RecordFails, Reset, collection
<1>5. CASE EndRecord
  BY <1>5, EndRecordStep
<1>6. CASE EndMerging
  BY <1>6, EndMergingStep
<1>7. CASE EndMergeFails
  BY <1>7, ResetStep DEF EndMergeFails, Recorded, collection
<1>8. CASE CaptureMerge
  BY <1>8, CaptureMergeStep
<1>9. CASE PublishMerge
  BY <1>9, PublishMergeStep
<1>10. CASE MergeFails
  BY <1>10, MergeFailsStep
<1>11. CASE AcquireCached
  BY <1>11, AcquireCachedStep
<1>12. CASE AcquireBase
  BY <1>12, AcquireBaseStep
<1>13. CASE AcquireLayers
  BY <1>13, AcquireLayersStep
<1>14. ASSUME NEW v \in views, Release(v)
       PROVE  IInv'
  BY <1>14 DEF Release, IInv, Types, Chains, CallOK, HeadOK, FrozenOK, RootOK, ViewsResolve,
               SnapshotIsCurrent, collection, call, cache
<1>15. CASE Publish
  <2>1. /\ root' = NoRoot
        /\ UNCHANGED <<table, sequence, status, writing, todo, layers, head, frozen, recorded,
                       made, merge, views>>
    BY <1>15 DEF Publish, call
  <2> QED BY <2>1 DEF IInv, Types, Chains, CallOK, HeadOK, FrozenOK, RootOK, ViewsResolve,
                      SnapshotIsCurrent
<1>16. CASE Close
  <2>1. writing' = FALSE /\ todo' = {}
    BY <1>16 DEF Close, call, IInv, CallOK, Types
  <2> QED BY <1>16, <2>1, ResetStep DEF Close, Reset
<1>17. CASE UNCHANGED vars
  BY <1>17 DEF vars, collection, call, cache, IInv, Types, Chains, CallOK, HeadOK, FrozenOK,
               RootOK, ViewsResolve, SnapshotIsCurrent
<1> QED BY <1>1, <1>2, <1>3, <1>4, <1>5, <1>6, <1>7, <1>8, <1>9, <1>10, <1>11, <1>12, <1>13,
           <1>14, <1>15, <1>16, <1>17 DEF Next

\* In every root a reader holds, find and scans give the MemTable of its capture, however
\* many writes, seals, merges, failures and resets came after it (ReadGeneration.find and
\* ReadLayer.is_visible).
THEOREM SnapshotsResolve == Spec => []ViewsResolve
<1>1. IInv => ViewsResolve
  BY DEF IInv
<1> QED BY <1>1, InitIInv, NextIInv, PTL DEF Spec

\* What acquire would hand out when no call is in progress covers every call that returned
\* (ReadGenerationCache.acquire and its check of the recorded sequence).
THEOREM SnapshotsAreCurrent == Spec => []SnapshotIsCurrent
<1>1. IInv => SnapshotIsCurrent
  BY DEF IInv
<1> QED BY <1>1, InitIInv, NextIInv, PTL DEF Spec
=============================================================================
