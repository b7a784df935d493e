------------------------- MODULE ShardStorageProofs -------------------------
(***************************************************************************)
(* The files of a shard keep what its handlers answered for: for every set *)
(* of entries, configurations and snapshots, any number of deaths, power   *)
(* losses and raising calls, and mutations the collection refuses.         *)
(*                                                                         *)
(* The invariant says that whatever view of the file system is left, the   *)
(* directory that recovery chooses is Whole, and that the directory the    *)
(* fields of the process belong to, which an install moves about, is Live. *)
(***************************************************************************)
EXTENDS ShardStorage, TLAPS, WellFoundedInduction

\* Every non-empty set of naturals has a least element.
LEMMA LeastNat ==
  ASSUME NEW S \in SUBSET Nat, S # {}
  PROVE  \E x \in S : \A y \in S : x <= y
<1> DEFINE R == OpToRel(<, Nat)
<1>1. IsWellFoundedOn(R, Nat)
  BY NatLessThanWellFounded
<1>2. PICK x \in S : \A y \in S : ~(<<y, x>> \in R)
  <2> HIDE DEF R
  <2> QED BY <1>1, WFMin
<1>3. \A y \in S : <<y, x>> \notin R => x <= y
  BY DEF OpToRel
<1> QED BY <1>2, <1>3

\* Every non-empty bounded set of naturals has a greatest element.
LEMMA GreatestNat ==
  ASSUME NEW S \in SUBSET Nat, S # {}, NEW b \in Nat, \A i \in S : i <= b
  PROVE  \E x \in S : \A y \in S : y <= x
<1> DEFINE T == {b - i : i \in S}
<1>1. \A i \in S : b - i \in Nat
  OBVIOUS
<1>2. T \in SUBSET Nat
  BY <1>1
<1>3. T # {}
  OBVIOUS
<1> HIDE DEF T
<1>4. PICK t \in T : \A u \in T : t <= u
  BY <1>2, <1>3, LeastNat
<1>5. PICK x \in S : t = b - x
  BY <1>4 DEF T
<1>6. \A y \in S : b - x <= b - y
  BY <1>4, <1>5 DEF T
<1>7. \A y \in S : y <= x
  BY <1>6
<1> QED BY <1>7

-----------------------------------------------------------------------------
(***************************************************************************)
(* A journal.  A snapshot record can only be its first line, a torn line   *)
(* only its last.                                                          *)
(***************************************************************************)
Line ==
  {Torn, Bad} \cup {PrepareLine(e) : e \in Entries} \cup {CommitLine(i) : i \in Nat}
    \cup {SnapshotLine(i) : i \in Nat}

LogOK(log) ==
  /\ log \in Seq(Line)
  /\ \A i \in 1..Len(log) : /\ log[i].kind = "snapshot" => i = 1
                            /\ log[i] = Torn => i = Len(log)

\* A directory of the right type: each point has nothing or the mutation of an entry.
Content == [Key -> Mutation \cup {NoMutation}]

ContentOK(content) ==
  /\ content \in Content
  /\ \A k \in Key : content[k] # NoMutation =>
       \E e \in Entries : e.mut = content[k] /\ KeyOf[e.mut] = k /\ e.mut \notin Rejected

Directory ==
  {d \in [term : Nat, placement_epoch : Nat, applied_index : Nat, log : Seq(Line),
          content : Content] : LogOK(d.log) /\ ContentOK(d.content)}

\* The journal has the entry e and its commit marker.
HasCommitted(log, e) == e \in Journal(log).prepared /\ e.index \in Journal(log).committed

\* What handlers answer for: for each point nothing, or the index of an entry.
Promise(prom) ==
  /\ prom \in [Key -> Nat]
  /\ \A k \in Key : prom[k] # 0 =>
       \E e \in Entries : e.index = prom[k] /\ KeyOf[e.mut] = k /\ e.mut \notin Rejected

(***************************************************************************)
(* A directory that is the shard: it has, for every point, what was        *)
(* answered for, or its recovery replays it.                               *)
(***************************************************************************)
Kept(d, prom) ==
  \A k \in Key : \/ IndexOf(d.content[k]) >= prom[k]
                 \/ prom[k] > d.applied_index /\ Loadable(d.log)

Replays(d, prom) ==
  Loadable(d.log) => \A k \in Key : \/ prom[k] <= d.applied_index
                                    \/ \E e \in Entries : /\ e.index = prom[k] /\ KeyOf[e.mut] = k
                                                          /\ HasCommitted(d.log, e)

Journalled(d) ==
  Loadable(d.log) => \A k \in Key : \/ IndexOf(d.content[k]) <= Journal(d.log).snapshot_index
                                    \/ \E e \in Entries : /\ e.mut = d.content[k]
                                                          /\ HasCommitted(d.log, e)

Whole(d, prom, acc) ==
  /\ d \in Directory
  /\ Kept(d, prom) /\ Replays(d, prom) /\ Journalled(d)
  /\ Journal(d.log).snapshot_index <= d.applied_index
  /\ acc = {} => Loadable(d.log)

(***************************************************************************)
(* A directory whose shard is being served with the fields m.              *)
(***************************************************************************)
Live(d, m, prom, acc) ==
  /\ d \in Directory
  /\ d.applied_index <= m.applied_index
  /\ \A k \in Key : prom[k] <= IndexOf(d.content[k]) /\ IndexOf(d.content[k]) <= m.applied_index
  /\ Loadable(d.log) => /\ m.prepared \subseteq Journal(d.log).prepared
                        /\ m.committed \subseteq Journal(d.log).committed
  /\ m.snapshot_index = Journal(d.log).snapshot_index
  /\ EndsTorn(d.log) => "append" \in acc

-----------------------------------------------------------------------------
Fields == [term : Nat, placement_epoch : Nat, applied_index : Nat, prepared : SUBSET Entries,
           committed : SUBSET Nat, snapshot_index : Nat]

View == [Dir -> Directory \cup {NoDir}]

Operation == [entry : {{}} \cup {{e} : e \in Entries}, config : Nat \X Nat, index : Nat,
              then : {"idle", "commit", "load", "stage", "replay"}, closed : BOOLEAN]

TypeOK ==
  /\ fs \in View /\ unsynced \subseteq View
  /\ mem \in Fields /\ op \in Operation /\ open \in BOOLEAN
  /\ Promise(promised) /\ accidents \subseteq {"append"}

\* Whatever a death or a power loss leaves, the directory that recovery chooses is whole.
ViewInv == \A view \in Views : Whole(Survivor(view), promised, accidents)

Opening == \/ pc \in {"down", "load", "replay"}
           \/ pc \in {"recover", "apply", "publish"} /\ op.then \in {"load", "replay"}

\* The fields of a running shard cover what was answered for.
AppliedInv == ~Opening => \A k \in Key : promised[k] <= mem.applied_index

\* Where the directory of the fields is.
Serving == {"prepare", "commit", "apply", "publish"}

LiveInv ==
  /\ pc \in Serving /\ op.then # "replay" => open
  /\ pc \in Serving /\ op.then # "replay" => Live(fs["root"], mem, promised, accidents)
  /\ pc \in {"idle", "stage", "state", "finish", "drop_failed", "drop_backup"} /\ open =>
       Live(fs["root"], mem, promised, accidents)
  /\ pc = "recover" /\ op.then = "stage" /\ open => Live(fs["root"], mem, promised, accidents)
  /\ pc \in {"stage", "state"} \/ (pc = "recover" /\ op.then = "stage") => op.closed = ~open
  /\ pc = "swap" /\ ~op.closed => Live(fs["root"], mem, promised, accidents)
  /\ pc \in {"swapped", "adopt", "undo", "restore"} /\ ~op.closed =>
       Live(fs["backup"], mem, promised, accidents)

\* What a recovery has read, and the entry it replays.
Replaying(d, m) ==
  /\ d \in Directory /\ Loadable(d.log) /\ ~EndsTorn(d.log)
  /\ m.prepared = Journal(d.log).prepared /\ m.committed = Journal(d.log).committed
  /\ m.snapshot_index = Journal(d.log).snapshot_index

ReplayInv ==
  /\ pc = "load" => fs["root"] # NoDir
  /\ pc = "replay" => /\ Replaying(fs["root"], mem) /\ open
                      /\ mem.applied_index = fs["root"].applied_index
  /\ pc \in {"apply", "publish"} /\ op.then = "replay" =>
       /\ Replaying(fs["root"], mem) /\ open
       /\ op.entry # {} /\ HasCommitted(fs["root"].log, TheEntry)
       /\ TheEntry.index > fs["root"].applied_index
       /\ \A f \in Entries : HasCommitted(fs["root"].log, f) /\ f.index > fs["root"].applied_index
            => TheEntry.index <= f.index
       /\ IF pc = "apply" THEN mem.applied_index = fs["root"].applied_index
          ELSE /\ mem.applied_index = TheEntry.index
               /\ fs["root"].content[KeyOf[TheEntry.mut]] = TheEntry.mut

\* What prepare and commit have done so far.
CommitInv ==
  /\ pc \in {"prepare", "commit"} => op.entry # {}
  /\ pc = "prepare" => op.then \in {"idle", "commit"}
  /\ pc = "commit" => op.then = "idle" /\ TheEntry \in mem.prepared
  /\ pc \in {"apply", "publish"} => op.then \in {"idle", "replay"}
  /\ pc = "apply" => op.entry # {}
  /\ pc \in {"apply", "publish"} /\ op.then = "idle" /\ op.entry # {} =>
       /\ TheEntry \in mem.prepared /\ TheEntry.index \in mem.committed
       /\ IF pc = "apply" THEN TheEntry.index > mem.applied_index
          ELSE /\ mem.applied_index = TheEntry.index
               /\ fs["root"].content[KeyOf[TheEntry.mut]] = TheEntry.mut

\* The directory that install_snapshot builds, and where it is.
Staged(c, i) == [term |-> c[1], placement_epoch |-> c[2], applied_index |-> i,
                 log |-> <<SnapshotLine(i)>>, content |-> Source(i).content]

InstallInv ==
  /\ pc = "recover" => op.then \in {"load", "stage"}
  /\ pc \in {"stage", "state", "swap", "swapped", "adopt", "undo", "restore", "drop_backup"} \/
       (pc = "recover" /\ op.then = "stage") =>
       /\ op.index \in Snapshots /\ op.config \in Configs
       /\ \A k \in Key : promised[k] <= op.index
  /\ pc = "stage" => fs["stage"] = [NewDir EXCEPT !.content = Source(op.index).content]
  /\ pc = "state" => fs["stage"] = [NewDir EXCEPT !.content = Source(op.index).content,
                                                  !.log = <<SnapshotLine(op.index)>>]
  /\ pc \in {"swap", "swapped"} => fs["stage"] = Staged(op.config, op.index)
  /\ pc \in {"swapped", "restore"} => fs["root"] = NoDir
  /\ pc \in {"adopt", "drop_backup"} => fs["root"] = Staged(op.config, op.index)
  /\ pc \in {"swapped", "adopt", "undo", "restore"} =>
       fs["backup"] # NoDir /\ Whole(fs["backup"], promised, accidents)
  /\ pc \in {"swap", "swapped", "adopt", "undo", "restore"} => ~open
  /\ pc \in {"drop_backup", "drop_failed"} => open
  /\ pc = "drop_backup" => mem.applied_index = op.index

Running ==
  /\ TypeOK /\ ViewInv /\ AppliedInv /\ LiveInv
  /\ ReplayInv /\ CommitInv /\ InstallInv

\* Nothing is claimed once the shard went on after a rollback that raised.
Inv == "rollback" \in accidents \/ Running

-----------------------------------------------------------------------------
(***************************************************************************)
(* Lines and journals.                                                     *)
(***************************************************************************)
\* A line's kind says what it is.
LEMMA LineFacts ==
  ASSUME NEW l \in Line
  PROVE  /\ l.kind \in {"torn", "bad", "prepare", "commit", "snapshot"}
         /\ l.kind = "torn" <=> l = Torn
         /\ l.kind = "bad" <=> l = Bad
         /\ l.kind = "prepare" => l.entry \in Entries /\ l = PrepareLine(l.entry)
         /\ l.kind = "commit" => l.index \in Nat /\ l = CommitLine(l.index)
         /\ l.kind = "snapshot" => l.index \in Nat /\ l = SnapshotLine(l.index)
BY DEF Line, Torn, Bad, PrepareLine, CommitLine, SnapshotLine

\* The lines that handlers write.
LEMMA LineTypes ==
  /\ Torn \in Line /\ Bad \in Line /\ Torn # Bad
  /\ Torn.kind = "torn" /\ Bad.kind = "bad"
  /\ \A e \in Entries : /\ PrepareLine(e) \in Line /\ PrepareLine(e).kind = "prepare"
                        /\ PrepareLine(e).entry = e
  /\ \A i \in Nat : /\ CommitLine(i) \in Line /\ CommitLine(i).kind = "commit"
                    /\ CommitLine(i).index = i
                    /\ SnapshotLine(i) \in Line /\ SnapshotLine(i).kind = "snapshot"
                    /\ SnapshotLine(i).index = i
BY DEF Line, Torn, Bad, PrepareLine, CommitLine, SnapshotLine

\* The dictionaries of a journal, by its lines.
SnapshotOf(log) == IF Len(log) > 0 /\ log[1].kind = "snapshot" THEN log[1].index ELSE 0

LEMMA JournalFacts ==
  ASSUME NEW log, LogOK(log)
  PROVE  /\ Journal(log).prepared = {e \in Entries : \E n \in 1..Len(log) : log[n] = PrepareLine(e)}
         /\ Journal(log).committed = {i \in Nat : \E n \in 1..Len(log) : log[n] = CommitLine(i)}
         /\ Journal(log).snapshot_index = SnapshotOf(log)
         /\ SnapshotOf(log) \in Nat
<1>1. \A n \in 1..Len(log) : log[n] \in Line
  BY DEF LogOK
<1>2. Len(log) \in Nat
  BY DEF LogOK
<1>3. Journal(log).prepared = {l.entry : l \in Lines(log, "prepare")}
  BY DEF Journal
<1>4. Journal(log).prepared = {e \in Entries : \E n \in 1..Len(log) : log[n] = PrepareLine(e)}
  <2>1. ASSUME NEW n \in 1..Len(log), log[n].kind = "prepare"
        PROVE  log[n].entry \in Entries /\ log[n] = PrepareLine(log[n].entry)
    BY <1>1, <2>1, LineFacts
  <2>2. ASSUME NEW e \in Entries, NEW n \in 1..Len(log), log[n] = PrepareLine(e)
        PROVE  log[n].kind = "prepare" /\ log[n].entry = e
    BY <2>2, LineTypes
  <2> QED BY <1>3, <2>1, <2>2 DEF Lines
<1>5. Journal(log).committed = {i \in Nat : \E n \in 1..Len(log) : log[n] = CommitLine(i)}
  <2>0. Journal(log).committed = {l.index : l \in Lines(log, "commit")}
    BY DEF Journal
  <2>1. ASSUME NEW n \in 1..Len(log), log[n].kind = "commit"
        PROVE  log[n].index \in Nat /\ log[n] = CommitLine(log[n].index)
    BY <1>1, <2>1, LineFacts
  <2>2. ASSUME NEW i \in Nat, NEW n \in 1..Len(log), log[n] = CommitLine(i)
        PROVE  log[n].kind = "commit" /\ log[n].index = i
    BY <2>2, LineTypes
  <2> QED BY <2>0, <2>1, <2>2 DEF Lines
<1> DEFINE found == {0} \cup {l.index : l \in Lines(log, "snapshot")}
<1>6. Journal(log).snapshot_index = CHOOSE i \in found : \A j \in found : j <= i
  BY DEF Journal
<1>7. found = {0, SnapshotOf(log)} /\ SnapshotOf(log) \in Nat
  <2>1. CASE Len(log) > 0 /\ log[1].kind = "snapshot"
    <3>1. 1 \in 1..Len(log)
      BY <1>2, <2>1
    <3>2. \A n \in 1..Len(log) : log[n].kind = "snapshot" => n = 1
      BY DEF LogOK
    <3>3. Lines(log, "snapshot") = {log[1]}
      BY <2>1, <3>1, <3>2 DEF Lines
    <3>4. log[1].index \in Nat
      BY <1>1, <2>1, <3>1, LineFacts
    <3> QED BY <2>1, <3>3, <3>4 DEF SnapshotOf
  <2>2. CASE ~(Len(log) > 0 /\ log[1].kind = "snapshot")
    <3>1. \A n \in 1..Len(log) : log[n].kind # "snapshot"
      BY <1>2, <2>2 DEF LogOK
    <3>2. Lines(log, "snapshot") = {}
      BY <3>1 DEF Lines
    <3> QED BY <2>2, <3>2 DEF SnapshotOf
  <2> QED BY <2>1, <2>2
<1>8. Journal(log).snapshot_index = SnapshotOf(log)
  <2> HIDE DEF found
  <2>1. SnapshotOf(log) \in found /\ \A j \in found : j <= SnapshotOf(log)
    BY <1>7
  <2>2. \A i \in found : (\A j \in found : j <= i) => i = SnapshotOf(log)
    BY <1>7
  <2> QED BY <1>6, <2>1, <2>2
<1> QED BY <1>4, <1>5, <1>7, <1>8

\* A journal without lines.
LEMMA EmptyLog ==
  /\ LogOK(<<>>) /\ ~EndsTorn(<<>>) /\ Loadable(<<>>)
  /\ Journal(<<>>).prepared = {} /\ Journal(<<>>).committed = {}
  /\ Journal(<<>>).snapshot_index = 0
<1>1. LogOK(<<>>)
  BY DEF LogOK
<1>2. ~EndsTorn(<<>>)
  BY DEF EndsTorn
<1>3. Loadable(<<>>)
  BY <1>2 DEF Loadable, Complete
<1> QED BY <1>1, <1>2, <1>3, JournalFacts DEF SnapshotOf

\* The journal of a snapshot.
LEMMA SnapshotLog ==
  ASSUME NEW i \in Nat
  PROVE  LET log == <<SnapshotLine(i)>>
         IN  /\ LogOK(log) /\ ~EndsTorn(log) /\ Loadable(log)
             /\ Journal(log).prepared = {} /\ Journal(log).committed = {}
             /\ Journal(log).snapshot_index = i
             /\ Appended(<<>>, SnapshotLine(i)) = log
<1> DEFINE log == <<SnapshotLine(i)>>
<1>0. SnapshotLine(i) \in Line /\ SnapshotLine(i).kind = "snapshot" /\ SnapshotLine(i).index = i
  BY LineTypes
<1>1. Len(log) = 1 /\ log[1] = SnapshotLine(i) /\ log \in Seq(Line)
  BY <1>0
<1>2. SnapshotLine(i) # Torn /\ SnapshotLine(i) # Bad
  BY <1>0, LineTypes
<1> HIDE DEF log
<1>3. LogOK(log)
  BY <1>1, <1>2 DEF LogOK
<1>4. ~EndsTorn(log)
  BY <1>1, <1>2 DEF EndsTorn, Last
<1>5. Loadable(log)
  <2>1. Complete(log) = log
    BY <1>4 DEF Complete
  <2>2. \A n \in 1..1 : n = 1
    OBVIOUS
  <2> QED BY <1>0, <1>1, <1>2, <2>1, <2>2 DEF Loadable
<1>6. \A e \in Entries : PrepareLine(e) # SnapshotLine(i)
  BY <1>0, LineTypes
<1>7. \A n \in Nat : CommitLine(n) # SnapshotLine(i)
  BY <1>0, LineTypes
<1>8. Journal(log).prepared = {} /\ Journal(log).committed = {} /\ Journal(log).snapshot_index = i
  BY <1>0, <1>1, <1>3, <1>6, <1>7, JournalFacts DEF SnapshotOf
<1>9. Appended(<<>>, SnapshotLine(i)) = log
  BY EmptyLog DEF Appended, log
<1> QED BY <1>3, <1>4, <1>5, <1>8, <1>9 DEF log

\* The journal that _load keeps has the same dictionaries.
LEMMA CompleteFacts ==
  ASSUME NEW log, LogOK(log)
  PROVE  /\ LogOK(Complete(log)) /\ ~EndsTorn(Complete(log))
         /\ Journal(Complete(log)) = Journal(log)
         /\ Loadable(log) => Loadable(Complete(log))
         /\ ~EndsTorn(log) => Complete(log) = log
<1>1. CASE ~EndsTorn(log)
  BY <1>1 DEF Complete
<1>2. CASE EndsTorn(log)
  <2>2. Len(log) \in Nat /\ log # <<>> /\ log \in Seq(Line) /\ log[Len(log)] = Torn
    BY <1>2 DEF EndsTorn, LogOK, Last
  <2>3. PICK n \in Nat : Len(log) = n + 1
    BY <2>2
  <2> DEFINE cut == SubSeq(log, 1, n)
  <2>1. Complete(log) = cut
    BY <1>2, <2>3 DEF Complete
  <2>4. cut \in Seq(Line) /\ Len(cut) = n /\ \A i \in 1..n : cut[i] = log[i]
    BY <2>2, <2>3
  <2> HIDE DEF cut
  <2>5. \A i \in 1..n : i \in 1..Len(log) /\ i # Len(log) /\ log[i] # Torn
    <3>1. \A i \in 1..n : i \in 1..Len(log) /\ i # Len(log)
      BY <2>3
    <3> QED BY <3>1 DEF LogOK
  <2>6. LogOK(cut)
    BY <2>4, <2>5 DEF LogOK
  <2>7. ~EndsTorn(cut)
    <3>1. cut # <<>> => Len(cut) \in 1..n
      BY <2>3, <2>4
    <3> QED BY <2>4, <2>5, <3>1 DEF EndsTorn, Last
  <2>8. Journal(cut) = Journal(log)
    <3>1. \A kind \in {"prepare", "commit", "snapshot"} : Lines(cut, kind) = Lines(log, kind)
      <4>1. \A i \in 1..Len(log) : i = Len(log) \/ i \in 1..n
        BY <2>2, <2>3
      <4>2. log[Len(log)].kind = "torn"
        BY <2>2, LineTypes
      <4> QED BY <2>4, <2>5, <4>1, <4>2 DEF Lines
    <3> QED BY <3>1 DEF Journal
  <2>9. Loadable(log) => Loadable(cut)
    <3>1. SUFFICES ASSUME Loadable(log) PROVE Loadable(cut)
      OBVIOUS
    <3>2. \A i \in 1..n :
            /\ log[i] # Bad
            /\ log[i].kind = "commit" =>
                 \E j \in 1..(i - 1) : log[j].kind = "prepare" /\ log[j].entry.index = log[i].index
      BY <2>1, <2>4, <3>1 DEF Loadable
    <3>3. \A i \in 1..n : \A j \in 1..(i - 1) : j \in 1..n
      BY <2>3
    <3>4. Complete(cut) = cut
      BY <2>7 DEF Complete
    <3> QED BY <2>4, <3>2, <3>3, <3>4 DEF Loadable
  <2> QED BY <1>2, <2>1, <2>6, <2>7, <2>8, <2>9
<1> QED BY <1>1, <1>2

\* A line written behind a journal whose last line is whole.
LEMMA WrittenFacts ==
  ASSUME NEW log, LogOK(log), ~EndsTorn(log), NEW line \in Line, line.kind # "snapshot"
  PROVE  LET now == Append(log, line)
         IN  /\ LogOK(now) /\ (EndsTorn(now) <=> line = Torn)
             /\ now \in Seq(Line) /\ Len(now) = Len(log) + 1 /\ now[Len(now)] = line
             /\ \A n \in 1..Len(log) : now[n] = log[n]
             /\ \A n \in 1..Len(now) : n \in 1..Len(log) \/ n = Len(now)
             /\ Lines(now, "snapshot") = Lines(log, "snapshot")
             /\ Lines(now, "prepare") =
                  Lines(log, "prepare") \cup (IF line.kind = "prepare" THEN {line} ELSE {})
             /\ Lines(now, "commit") =
                  Lines(log, "commit") \cup (IF line.kind = "commit" THEN {line} ELSE {})
<1> DEFINE now == Append(log, line)
<1>1. log \in Seq(Line) /\ Len(log) \in Nat
  BY DEF LogOK
<1>2. /\ now \in Seq(Line) /\ Len(now) = Len(log) + 1 /\ now[Len(now)] = line
      /\ \A n \in 1..Len(log) : now[n] = log[n]
  BY <1>1
<1> HIDE DEF now
<1>3. \A n \in 1..Len(now) : n \in 1..Len(log) \/ n = Len(now)
  BY <1>1, <1>2
<1>4. \A n \in 1..Len(log) : n \in 1..Len(now) /\ log[n] # Torn
  <2>1. \A n \in 1..Len(log) : log[n] = Torn => n = Len(log)
    BY DEF LogOK
  <2>2. ~(\E n \in 1..Len(log) : n = Len(log) /\ log[n] = Torn)
    BY <1>1 DEF EndsTorn, Last
  <2> QED BY <1>1, <1>2, <2>1, <2>2
<1>5. Len(now) \in 1..Len(now) /\ now # <<>>
  BY <1>1, <1>2
<1>6. LogOK(now)
  <2>1. \A n \in 1..Len(log) : log[n].kind = "snapshot" => n = 1
    BY DEF LogOK
  <2> QED BY <1>2, <1>3, <1>4, <2>1 DEF LogOK
<1>7. EndsTorn(now) <=> line = Torn
  BY <1>2, <1>5 DEF EndsTorn, Last
<1>8. Lines(now, "snapshot") = Lines(log, "snapshot")
  BY <1>2, <1>3, <1>4 DEF Lines
<1>9. Lines(now, "prepare") =
        Lines(log, "prepare") \cup (IF line.kind = "prepare" THEN {line} ELSE {})
  BY <1>2, <1>3, <1>4, <1>5 DEF Lines
<1>10. Lines(now, "commit") =
        Lines(log, "commit") \cup (IF line.kind = "commit" THEN {line} ELSE {})
  BY <1>2, <1>3, <1>4, <1>5 DEF Lines
<1> QED BY <1>2, <1>3, <1>6, <1>7, <1>8, <1>9, <1>10 DEF now

\* A line written behind a torn one spoils it.
LEMMA SpoiledFacts ==
  ASSUME NEW log, LogOK(log), EndsTorn(log)
  PROVE  LET now == [log EXCEPT ![Len(log)] = Bad]
         IN  /\ LogOK(now) /\ ~EndsTorn(now) /\ ~Loadable(now)
             /\ Journal(now) = Journal(log)
<1> DEFINE now == [log EXCEPT ![Len(log)] = Bad]
<1>1. log \in Seq(Line) /\ Len(log) \in Nat /\ Len(log) \in 1..Len(log) /\ log[Len(log)] = Torn
  BY DEF LogOK, EndsTorn, Last
<1>2. Bad \in Line /\ Bad # Torn /\ Bad.kind = "bad" /\ Torn.kind = "torn"
  BY LineTypes
<1>3. /\ now \in Seq(Line) /\ Len(now) = Len(log) /\ now[Len(log)] = Bad
      /\ \A n \in 1..Len(log) : n # Len(log) => now[n] = log[n]
  BY <1>1, <1>2
<1> HIDE DEF now
<1>4. LogOK(now)
  BY <1>1, <1>2, <1>3 DEF LogOK
<1>5. ~EndsTorn(now)
  BY <1>1, <1>2, <1>3 DEF EndsTorn, Last
<1>6. ~Loadable(now)
  <2>1. Complete(now) = now
    BY <1>5 DEF Complete
  <2> QED BY <1>1, <1>3, <2>1 DEF Loadable
<1>7. \A kind \in {"prepare", "commit", "snapshot"} : Lines(now, kind) = Lines(log, kind)
  BY <1>1, <1>2, <1>3 DEF Lines
<1>8. Journal(now) = Journal(log)
  BY <1>7 DEF Journal
<1> QED BY <1>4, <1>5, <1>6, <1>8 DEF now

\* ReplicaJournal._append.
Record == {PrepareLine(e) : e \in Entries} \cup {CommitLine(i) : i \in Nat}

LEMMA AppendedFacts ==
  ASSUME NEW log, LogOK(log), NEW line \in Record
  PROVE  LET now == Appended(log, line)
         IN  /\ LogOK(now) /\ ~EndsTorn(now)
             /\ Journal(now).snapshot_index = Journal(log).snapshot_index
             /\ Loadable(now) => Loadable(log) /\ ~EndsTorn(log)
             /\ EndsTorn(log) => Journal(now) = Journal(log)
             /\ ~EndsTorn(log) =>
                  /\ \A e \in Entries : line = PrepareLine(e) =>
                       /\ Journal(now).prepared = Journal(log).prepared \cup {e}
                       /\ Journal(now).committed = Journal(log).committed
                  /\ \A i \in Nat : line = CommitLine(i) =>
                       /\ Journal(now).prepared = Journal(log).prepared
                       /\ Journal(now).committed = Journal(log).committed \cup {i}
             /\ /\ ~EndsTorn(log) /\ Loadable(log)
                /\ \A i \in Nat : line = CommitLine(i) => \E e \in Journal(log).prepared : e.index = i
                => Loadable(now)
<1> DEFINE now == Appended(log, line)
<1>1. line \in Line /\ line.kind \in {"prepare", "commit"} /\ line # Torn /\ line # Bad
  BY LineTypes DEF Record
<1>2. CASE EndsTorn(log)
  <2>1. now = [log EXCEPT ![Len(log)] = Bad]
    BY <1>1, <1>2 DEF Appended
  <2> QED BY <1>2, <2>1, SpoiledFacts
<1>3. CASE ~EndsTorn(log)
  <2>1. now = Append(log, line)
    BY <1>3 DEF Appended
  <2> HIDE DEF now
  <2>2. /\ LogOK(now) /\ (EndsTorn(now) <=> line = Torn)
        /\ now \in Seq(Line) /\ Len(now) = Len(log) + 1 /\ now[Len(now)] = line
        /\ \A n \in 1..Len(log) : now[n] = log[n]
        /\ \A n \in 1..Len(now) : n \in 1..Len(log) \/ n = Len(now)
    <3>1. line.kind # "snapshot"
      BY <1>1
    <3> QED BY <1>1, <1>3, <2>1, <3>1, WrittenFacts
  <2>3. Lines(now, "snapshot") = Lines(log, "snapshot")
    BY <1>1, <1>3, <2>1, WrittenFacts, Zenon
  <2>4. /\ Lines(now, "prepare") =
             Lines(log, "prepare") \cup (IF line.kind = "prepare" THEN {line} ELSE {})
        /\ Lines(now, "commit") =
             Lines(log, "commit") \cup (IF line.kind = "commit" THEN {line} ELSE {})
    BY <1>1, <1>3, <2>1, WrittenFacts, Zenon
  <2>5. ~EndsTorn(now) /\ Len(log) \in Nat
    BY <1>1, <2>2 DEF LogOK
  <2>6. Journal(now).snapshot_index = Journal(log).snapshot_index
    BY <2>3 DEF Journal
  <2>7. Complete(now) = now /\ Complete(log) = log
    BY <1>3, <2>5 DEF Complete
  <2>8. Loadable(now) => Loadable(log)
    <3>1. \A n \in 1..Len(log) : n \in 1..Len(now) /\ \A j \in 1..(n - 1) : j \in 1..Len(log)
      BY <2>2, <2>5
    <3> QED BY <2>2, <2>7, <3>1 DEF Loadable
  <2>9. ASSUME NEW e \in Entries, line = PrepareLine(e)
        PROVE  /\ Journal(now).prepared = Journal(log).prepared \cup {e}
               /\ Journal(now).committed = Journal(log).committed
    BY <2>4, <2>9, LineTypes DEF Journal
  <2>10. ASSUME NEW i \in Nat, line = CommitLine(i)
         PROVE  /\ Journal(now).prepared = Journal(log).prepared
                /\ Journal(now).committed = Journal(log).committed \cup {i}
    BY <2>4, <2>10, LineTypes DEF Journal
  <2>11. ASSUME Loadable(log),
                \A i \in Nat : line = CommitLine(i) => \E e \in Journal(log).prepared : e.index = i
         PROVE  Loadable(now)
    <3>1. SUFFICES ASSUME NEW n \in 1..Len(now)
                   PROVE  /\ now[n] # Bad
                          /\ now[n].kind = "commit" =>
                               \E j \in 1..(n - 1) : /\ now[j].kind = "prepare"
                                                     /\ now[j].entry.index = now[n].index
      BY <2>7 DEF Loadable
    <3>2. CASE n \in 1..Len(log)
      <4>1. \A j \in 1..(n - 1) : j \in 1..Len(log)
        BY <2>5, <3>2
      <4> QED BY <2>2, <2>7, <2>11, <3>2, <4>1 DEF Loadable
    <3>3. CASE n = Len(now)
      <4>1. now[n] = line /\ n - 1 = Len(log)
        BY <2>2, <2>5, <3>3
      <4>2. SUFFICES ASSUME line.kind = "commit"
                     PROVE  \E j \in 1..(n - 1) : /\ now[j].kind = "prepare"
                                                  /\ now[j].entry.index = line.index
        BY <1>1, <4>1
      <4>3. line.index \in Nat /\ line = CommitLine(line.index)
        BY <1>1, <4>2, LineFacts
      <4>4. PICK e \in Journal(log).prepared : e.index = line.index
        BY <2>11, <4>3
      <4>5. PICK j \in 1..Len(log) : e \in Entries /\ log[j] = PrepareLine(e)
        BY <4>4, JournalFacts
      <4> QED BY <2>2, <4>1, <4>4, <4>5, LineTypes
    <3> QED BY <2>2, <3>2, <3>3
  <2> QED BY <1>3, <2>1, <2>2, <2>5, <2>6, <2>8, <2>9, <2>10, <2>11 DEF now
<1> QED BY <1>2, <1>3

\* The part of a line that an interrupted append leaves changes nothing that is read.
LEMMA TornFacts ==
  ASSUME NEW log, LogOK(log)
  PROVE  LET now == Appended(log, Torn)
         IN  /\ LogOK(now) /\ Journal(now) = Journal(log)
             /\ Loadable(now) <=> Loadable(log)
             /\ EndsTorn(now)
<1> DEFINE now == Appended(log, Torn)
<1>1. CASE EndsTorn(log)
  BY <1>1 DEF Appended
<1>2. CASE ~EndsTorn(log)
  <2>1. now = Append(log, Torn)
    BY <1>2 DEF Appended
  <2>2. Torn \in Line /\ Torn.kind = "torn"
    BY LineTypes
  <2> HIDE DEF now
  <2>3. /\ LogOK(now) /\ EndsTorn(now)
        /\ now \in Seq(Line) /\ Len(now) = Len(log) + 1
        /\ \A n \in 1..Len(log) : now[n] = log[n]
    <3>1. Torn.kind # "snapshot"
      BY <2>2
    <3> QED BY <1>2, <2>1, <2>2, <3>1, WrittenFacts
  <2>4. /\ Lines(now, "snapshot") = Lines(log, "snapshot")
        /\ Lines(now, "prepare") = Lines(log, "prepare")
        /\ Lines(now, "commit") = Lines(log, "commit")
    <3>1. /\ Lines(now, "snapshot") = Lines(log, "snapshot")
          /\ Lines(now, "prepare") =
                  Lines(log, "prepare") \cup (IF Torn.kind = "prepare" THEN {Torn} ELSE {})
          /\ Lines(now, "commit") =
                  Lines(log, "commit") \cup (IF Torn.kind = "commit" THEN {Torn} ELSE {})
      <4>1. Torn.kind # "snapshot"
        BY <2>2
      <4> QED BY <1>2, <2>1, <2>2, <4>1, WrittenFacts
    <3> QED BY <2>2, <3>1
  <2>5. Journal(now) = Journal(log)
    BY <2>4 DEF Journal
  <2>6. log \in Seq(Line) /\ Len(log) \in Nat
    BY DEF LogOK
  <2>7. Complete(log) = log /\ Complete(now) = SubSeq(now, 1, Len(log))
    BY <1>2, <2>3, <2>6 DEF Complete
  <2>8. Len(Complete(now)) = Len(log)
    BY <2>3, <2>6, <2>7
  <2>9. \A n \in 1..Len(log) : \A j \in 1..(n - 1) : j \in 1..Len(log)
    BY <2>6
  <2> DEFINE fine(l) == \A i \in 1..Len(log) :
                          /\ l[i] # Bad
                          /\ l[i].kind = "commit" =>
                               \E j \in 1..(i - 1) : l[j].kind = "prepare" /\ l[j].entry.index = l[i].index
  <2>l. (Loadable(log) <=> fine(log)) /\ (Loadable(now) <=> fine(now))
    BY <2>7, <2>8 DEF Loadable
  <2> HIDE DEF now
  <2>f. fine(now) <=> fine(log)
    <3>1. ASSUME NEW a, NEW b, fine(a), \A n \in 1..Len(log) : a[n] = b[n],
                 NEW i \in 1..Len(log)
          PROVE  /\ b[i] # Bad
                 /\ b[i].kind = "commit" =>
                      \E j \in 1..(i - 1) : b[j].kind = "prepare" /\ b[j].entry.index = b[i].index
      <4>1. a[i] = b[i] /\ \A j \in 1..(i - 1) : a[j] = b[j]
        BY <2>9, <3>1
      <4>2. /\ a[i] # Bad
            /\ a[i].kind = "commit" =>
                 \E j \in 1..(i - 1) : a[j].kind = "prepare" /\ a[j].entry.index = a[i].index
        BY <3>1
      <4> QED BY <4>1, <4>2
    <3> QED BY <2>3, <3>1
  <2> HIDE DEF fine
  <2>10. Loadable(now) <=> Loadable(log)
    BY <2>f, <2>l
  <2> QED BY <2>3, <2>5, <2>10 DEF now
<1> QED BY <1>1, <1>2

-----------------------------------------------------------------------------
(***************************************************************************)
(* Entries, contents and directories.                                      *)
(***************************************************************************)
\* An entry has an index, a mutation and the mutation's point, and is known by either.
LEMMA EntryFacts ==
  /\ \A e \in Entries : /\ e.index \in Nat /\ e.index > 0 /\ e.mut \in Mutation
                        /\ e.mut # NoMutation /\ KeyOf[e.mut] \in Key
                        /\ IndexOf(e.mut) = e.index
  /\ \A e, f \in Entries : e.index = f.index => e = f
  /\ IndexOf(NoMutation) = 0
<1>1. ASSUME NEW e \in Entries
      PROVE  /\ e.index \in Nat /\ e.index > 0 /\ e.mut \in Mutation
             /\ e.mut # NoMutation /\ KeyOf[e.mut] \in Key
  <2>1. e \in Entry
    BY StorageAssumption
  <2> QED BY <2>1, ReplicaAssumption DEF Entry
<1>2. ASSUME NEW e \in Entries
      PROVE  IndexOf(e.mut) = e.index
  <2>1. \A f \in Entries : f.mut = e.mut => f = e
    BY StorageAssumption
  <2>2. (CHOOSE f \in Entries : f.mut = e.mut) = e
    BY <2>1
  <2> QED BY <1>1, <2>2 DEF IndexOf
<1> QED BY <1>1, <1>2, StorageAssumption DEF IndexOf

LEMMA ContentIndex ==
  ASSUME NEW c, ContentOK(c), NEW k \in Key
  PROVE  IndexOf(c[k]) \in Nat
BY EntryFacts DEF ContentOK

\* The directory that is missing is no directory; the empty one is.
LEMMA DirectoryFacts ==
  /\ \A d \in Directory : /\ d # NoDir /\ LogOK(d.log) /\ ContentOK(d.content)
                          /\ d.term \in Nat /\ d.placement_epoch \in Nat /\ d.applied_index \in Nat
                          /\ d.content \in Content /\ d.log \in Seq(Line)
                          /\ Journal(d.log).snapshot_index \in Nat
                          /\ \A k \in Key : IndexOf(d.content[k]) \in Nat
  /\ NewDir \in Directory
  /\ NewDir.log = <<>> /\ NewDir.applied_index = 0 /\ \A k \in Key : NewDir.content[k] = NoMutation
<1>1. ASSUME NEW d \in Directory
      PROVE  /\ d # NoDir /\ LogOK(d.log) /\ ContentOK(d.content)
             /\ d.term \in Nat /\ d.placement_epoch \in Nat /\ d.applied_index \in Nat
             /\ d.content \in Content /\ d.log \in Seq(Line)
  BY DEF Directory, NoDir
<1>2. ASSUME NEW d \in Directory
      PROVE  /\ Journal(d.log).snapshot_index \in Nat
             /\ \A k \in Key : IndexOf(d.content[k]) \in Nat
  BY <1>1, JournalFacts, ContentIndex
<1>3. /\ NewDir.log = <<>> /\ NewDir.applied_index = 0
      /\ NewDir.content = [k \in Key |-> NoMutation]
  BY DEF NewDir, EmptyDisk
<1>4. ContentOK(NewDir.content)
  BY <1>3 DEF ContentOK, Content
<1>5. NewDir \in Directory
  BY <1>3, <1>4, EmptyLog DEF Directory, NewDir, LogOK, Content, ContentOK
<1> QED BY <1>1, <1>2, <1>3, <1>5

\* A directory with another journal.
LEMMA LogEdit ==
  ASSUME NEW d \in Directory, NEW log, LogOK(log)
  PROVE  /\ [d EXCEPT !.log = log] \in Directory
         /\ [d EXCEPT !.log = log].log = log
         /\ [d EXCEPT !.log = log].content = d.content
         /\ [d EXCEPT !.log = log].applied_index = d.applied_index
         /\ [d EXCEPT !.log = log].term = d.term
         /\ [d EXCEPT !.log = log].placement_epoch = d.placement_epoch
<1>1. log \in Seq(Line)
  BY DEF LogOK
<1> QED BY <1>1 DEF Directory

\* A directory whose collection has taken a mutation.
LEMMA ContentEdit ==
  ASSUME NEW d \in Directory, NEW e \in Entries, e.mut \notin Rejected
  PROVE  LET D == [d EXCEPT !.content[KeyOf[e.mut]] = e.mut]
         IN  /\ D \in Directory /\ D.log = d.log /\ D.applied_index = d.applied_index
             /\ D.term = d.term /\ D.placement_epoch = d.placement_epoch
             /\ D.content = [d.content EXCEPT ![KeyOf[e.mut]] = e.mut]
             /\ D.content[KeyOf[e.mut]] = e.mut
             /\ \A k \in Key : k # KeyOf[e.mut] => D.content[k] = d.content[k]
<1> DEFINE c == [d.content EXCEPT ![KeyOf[e.mut]] = e.mut]
           D == [d EXCEPT !.content = c]
<1>1. e.mut \in Mutation /\ KeyOf[e.mut] \in Key /\ d.content \in Content /\ ContentOK(d.content)
  BY EntryFacts, DirectoryFacts
<1>2. /\ c \in Content /\ c[KeyOf[e.mut]] = e.mut
      /\ \A k \in Key : k # KeyOf[e.mut] => c[k] = d.content[k]
  BY <1>1 DEF Content
<1>3. ContentOK(c)
  BY <1>1, <1>2 DEF ContentOK
<1>4. [d EXCEPT !.content[KeyOf[e.mut]] = e.mut] = D
  OBVIOUS
<1> HIDE DEF c
<1>5. /\ D \in Directory /\ D.log = d.log /\ D.applied_index = d.applied_index /\ D.content = c
      /\ D.term = d.term /\ D.placement_epoch = d.placement_epoch
  BY <1>2, <1>3 DEF Directory
<1> QED BY <1>2, <1>4, <1>5 DEF c

\* The content of a snapshot at index i: for every point the newest entry up to i.
LEMMA SourceFacts ==
  ASSUME NEW i \in Nat
  PROVE  /\ ContentOK(Source(i).content)
         /\ \A k \in Key : IndexOf(Source(i).content[k]) <= i
         /\ \A e \in Entries : e.index <= i /\ e.mut \notin Rejected =>
              e.index <= IndexOf(Source(i).content[KeyOf[e.mut]])
<1> DEFINE upto == {e \in Entries : e.index <= i /\ e.mut \notin Rejected}
           last(k) == {e \in upto : /\ KeyOf[e.mut] = k
                                    /\ \A f \in upto : KeyOf[f.mut] = k => f.index <= e.index}
           c == [k \in Key |-> IF last(k) = {} THEN NoMutation ELSE (CHOOSE e \in last(k) : TRUE).mut]
<1>1. Source(i).content = c
  BY DEF Source, Replayed, EmptyDisk
<1>2. ASSUME NEW k \in Key, NEW e \in upto, KeyOf[e.mut] = k
      PROVE  last(k) # {}
  <2> DEFINE S == {f.index : f \in {g \in upto : KeyOf[g.mut] = k}}
  <2>1. S \in SUBSET Nat /\ e.index \in S /\ \A x \in S : x <= i
    BY <1>2, EntryFacts
  <2>2. PICK x \in S : \A y \in S : y <= x
    BY <2>1, GreatestNat
  <2> QED BY <2>2
<1>3. ASSUME NEW k \in Key
      PROVE  \/ c[k] = NoMutation /\ \A e \in upto : KeyOf[e.mut] # k
             \/ \E e \in upto : /\ c[k] = e.mut /\ KeyOf[e.mut] = k
                                /\ \A f \in upto : KeyOf[f.mut] = k => f.index <= e.index
  <2>1. CASE last(k) = {}
    BY <1>2, <2>1
  <2>2. CASE last(k) # {}
    <3>1. (CHOOSE e \in last(k) : TRUE) \in last(k)
      BY <2>2
    <3> QED BY <2>2, <3>1
  <2> QED BY <2>1, <2>2
<1> HIDE DEF c, last
<1>4. c \in Content
  <2>1. \A k \in Key : c[k] \in Mutation \cup {NoMutation}
    BY <1>3, EntryFacts
  <2> QED BY <2>1 DEF c, Content
<1>5. ContentOK(c)
  BY <1>3, <1>4 DEF ContentOK
<1>6. \A k \in Key : IndexOf(c[k]) <= i
  BY <1>3, EntryFacts
<1>7. ASSUME NEW e \in Entries, e.index <= i, e.mut \notin Rejected
      PROVE  e.index <= IndexOf(c[KeyOf[e.mut]])
  BY <1>3, <1>7, EntryFacts
<1> QED BY <1>1, <1>5, <1>6, <1>7

-----------------------------------------------------------------------------
(***************************************************************************)
(* What the handlers' writes keep of a whole and of a live directory.      *)
(***************************************************************************)
\* An accident only excuses.
LEMMA MoreAccidents ==
  ASSUME NEW d, NEW m, NEW prom, NEW acc, NEW more, acc \subseteq more
  PROVE  /\ Whole(d, prom, acc) => Whole(d, prom, more)
         /\ Live(d, m, prom, acc) => Live(d, m, prom, more)
<1>1. more = {} => acc = {}
  OBVIOUS
<1>2. "append" \in acc => "append" \in more
  OBVIOUS
<1> QED BY <1>1, <1>2 DEF Whole, Live

\* A shard that was never written is whole as long as nothing was answered.
LEMMA NewWhole ==
  ASSUME NEW prom, prom = [k \in Key |-> 0], NEW acc
  PROVE  Whole(NewDir, prom, acc)
<1>1. /\ NewDir \in Directory /\ NewDir.log = <<>> /\ NewDir.applied_index = 0
      /\ \A k \in Key : NewDir.content[k] = NoMutation
  BY DirectoryFacts
<1>2. \A k \in Key : IndexOf(NewDir.content[k]) = 0
  BY <1>1, EntryFacts
<1> QED BY <1>1, <1>2, EmptyLog DEF Whole, Kept, Replays, Journalled

\* The directory of a snapshot is whole, and live once the fields are its own.
LEMMA StagedFacts ==
  ASSUME NEW i \in Nat, NEW c \in Nat \X Nat, NEW prom, Promise(prom),
         \A k \in Key : prom[k] <= i, NEW acc
  PROVE  /\ Staged(c, i) \in Directory /\ Whole(Staged(c, i), prom, acc)
         /\ Journal(Staged(c, i).log).snapshot_index = i
         /\ \A m : m.applied_index = i /\ m.prepared = {} /\ m.committed = {}
                   /\ m.snapshot_index = i => Live(Staged(c, i), m, prom, acc)
<1> DEFINE d == Staged(c, i)
<1>1. /\ d.log = <<SnapshotLine(i)>> /\ d.content = Source(i).content /\ d.applied_index = i
      /\ d.term = c[1] /\ d.placement_epoch = c[2]
      /\ d = [term |-> c[1], placement_epoch |-> c[2], applied_index |-> i,
              log |-> <<SnapshotLine(i)>>, content |-> Source(i).content]
  BY DEF Staged
<1>2. ContentOK(d.content) /\ LogOK(d.log)
  BY <1>1, SourceFacts, SnapshotLog
<1>3. d \in Directory
  <2>1. d.content \in Content /\ d.log \in Seq(Line)
    BY <1>2 DEF ContentOK, LogOK
  <2> QED BY <1>1, <1>2, <2>1 DEF Directory
<1> HIDE DEF d
<1>4. /\ Loadable(d.log) /\ ~EndsTorn(d.log) /\ Journal(d.log).snapshot_index = i
      /\ Journal(d.log).prepared = {} /\ Journal(d.log).committed = {}
  BY <1>1, SnapshotLog
<1>5. ASSUME NEW k \in Key
      PROVE  prom[k] <= IndexOf(d.content[k]) /\ IndexOf(d.content[k]) <= i
  <2>1. IndexOf(d.content[k]) \in Nat /\ prom[k] \in Nat /\ IndexOf(d.content[k]) <= i
    BY <1>1, <1>2, ContentIndex, SourceFacts DEF Promise
  <2>2. CASE prom[k] = 0
    BY <2>1, <2>2
  <2>3. CASE prom[k] # 0
    <3>1. PICK e \in Entries : e.index = prom[k] /\ KeyOf[e.mut] = k /\ e.mut \notin Rejected
      BY <2>3 DEF Promise
    <3> QED BY <1>1, <2>1, <3>1, SourceFacts
  <2> QED BY <2>2, <2>3
<1>6. Whole(d, prom, acc)
  <2>1. \A k \in Key : IndexOf(d.content[k]) >= prom[k]
    BY <1>5, <1>2, ContentIndex DEF Promise
  <2> QED BY <1>1, <1>3, <1>4, <1>5, <2>1 DEF Whole, Kept, Replays, Journalled
<1>7. ASSUME NEW m, m.applied_index = i, m.prepared = {}, m.committed = {}, m.snapshot_index = i
      PROVE  Live(d, m, prom, acc)
  BY <1>1, <1>3, <1>4, <1>5, <1>7 DEF Live
<1> QED BY <1>3, <1>4, <1>6, <1>7 DEF d

\* An interrupted append to the journal of a live directory.
LEMMA TornWrite ==
  ASSUME NEW d, NEW m, NEW prom, NEW acc, d \in Directory
  PROVE  LET D == [d EXCEPT !.log = Appended(@, Torn)]
         IN  /\ Whole(d, prom, acc) => Whole(D, prom, acc)
             /\ Live(d, m, prom, acc) /\ "append" \in acc => Live(D, m, prom, acc)
<1> DEFINE now == Appended(d.log, Torn)
           D == [d EXCEPT !.log = now]
<1>1. LogOK(d.log)
  BY DirectoryFacts
<1>2. LogOK(now) /\ Journal(now) = Journal(d.log) /\ (Loadable(now) <=> Loadable(d.log))
  BY <1>1, TornFacts
<1> HIDE DEF now
<1>3. /\ D \in Directory /\ D.log = now /\ D.content = d.content
      /\ D.applied_index = d.applied_index
  BY <1>2, LogEdit
<1> HIDE DEF D
<1>4. Whole(d, prom, acc) => Whole(D, prom, acc)
  BY <1>2, <1>3 DEF Whole, Kept, Replays, Journalled, HasCommitted
<1>5. Live(d, m, prom, acc) /\ "append" \in acc => Live(D, m, prom, acc)
  BY <1>2, <1>3 DEF Live
<1> QED BY <1>4, <1>5 DEF now, D

\* A record appended to the journal of a live directory, before and after the
\* dictionaries have it.
LEMMA RecordWrite ==
  ASSUME NEW d, NEW m \in Fields, NEW prom, NEW acc, acc \subseteq {"append"}, Promise(prom),
         Live(d, m, prom, acc), Whole(d, prom, acc), NEW line \in Record,
         \A i \in Nat : line = CommitLine(i) => \E e \in m.prepared : e.index = i
  PROVE  LET D == [d EXCEPT !.log = Appended(@, line)]
         IN  /\ Whole(D, prom, acc) /\ Live(D, m, prom, acc)
             /\ \A e \in Entries : line = PrepareLine(e) =>
                  Live(D, [m EXCEPT !.prepared = @ \cup {e}], prom, acc)
             /\ \A i \in Nat : line = CommitLine(i) =>
                  Live(D, [m EXCEPT !.committed = @ \cup {i}], prom, acc)
<1> DEFINE log == d.log
           now == Appended(log, line)
           D == [d EXCEPT !.log = now]
<1>1. d \in Directory /\ LogOK(log)
  BY DirectoryFacts DEF Live
<1>2. /\ LogOK(now) /\ ~EndsTorn(now)
      /\ Journal(now).snapshot_index = Journal(log).snapshot_index
      /\ Loadable(now) => Loadable(log) /\ ~EndsTorn(log)
      /\ ~EndsTorn(log) =>
           /\ \A e \in Entries : line = PrepareLine(e) =>
                /\ Journal(now).prepared = Journal(log).prepared \cup {e}
                /\ Journal(now).committed = Journal(log).committed
           /\ \A i \in Nat : line = CommitLine(i) =>
                /\ Journal(now).prepared = Journal(log).prepared
                /\ Journal(now).committed = Journal(log).committed \cup {i}
      /\ /\ ~EndsTorn(log) /\ Loadable(log)
         /\ \A i \in Nat : line = CommitLine(i) => \E e \in Journal(log).prepared : e.index = i
         => Loadable(now)
  BY <1>1, AppendedFacts
<1>3. /\ D \in Directory /\ D.log = now /\ D.content = d.content
      /\ D.applied_index = d.applied_index
  BY <1>1, <1>2, LogEdit
<1> HIDE DEF now, D, log
<1>4. /\ \A k \in Key : prom[k] <= IndexOf(d.content[k]) /\ IndexOf(d.content[k]) <= m.applied_index
      /\ Loadable(log) => /\ m.prepared \subseteq Journal(log).prepared
                          /\ m.committed \subseteq Journal(log).committed
      /\ d.applied_index <= m.applied_index
      /\ m.snapshot_index = Journal(log).snapshot_index
      /\ EndsTorn(log) => "append" \in acc
  BY DEF Live, log
<1>5. Loadable(now) => /\ Loadable(log) /\ Journal(log).prepared \subseteq Journal(now).prepared
                       /\ Journal(log).committed \subseteq Journal(now).committed
  BY <1>2 DEF Record
<1>6. acc = {} => Loadable(now)
  BY <1>2, <1>4 DEF Whole, log
<1>7. \A k \in Key : IndexOf(D.content[k]) >= prom[k]
  <2>1. \A k \in Key : IndexOf(D.content[k]) \in Nat /\ prom[k] \in Nat
    BY <1>3, DirectoryFacts DEF Promise
  <2> QED BY <1>3, <1>4, <2>1
<1>8. Whole(D, prom, acc)
  <2>1. Replays(D, prom)
    BY <1>3, <1>5 DEF Whole, Replays, HasCommitted, log
  <2>2. Journalled(D)
    BY <1>2, <1>3, <1>5 DEF Whole, Journalled, HasCommitted, log
  <2>3. Kept(D, prom)
    BY <1>7 DEF Kept
  <2>4. Journal(now).snapshot_index <= d.applied_index
    BY <1>2 DEF Whole, log
  <2> QED BY <1>3, <1>6, <2>1, <2>2, <2>3, <2>4 DEF Whole
<1>9. Live(D, m, prom, acc)
  BY <1>2, <1>3, <1>4, <1>5 DEF Live
<1>10. ASSUME NEW e \in Entries, line = PrepareLine(e)
       PROVE  Live(D, [m EXCEPT !.prepared = @ \cup {e}], prom, acc)
  <2> DEFINE M == [m EXCEPT !.prepared = @ \cup {e}]
  <2>1. /\ M.prepared = m.prepared \cup {e} /\ M.committed = m.committed
        /\ M.applied_index = m.applied_index /\ M.snapshot_index = m.snapshot_index
    BY DEF Fields
  <2>2. Loadable(now) => e \in Journal(now).prepared
    BY <1>2, <1>10
  <2> HIDE DEF M
  <2> QED BY <1>9, <1>3, <2>1, <2>2 DEF Live
<1>11. ASSUME NEW i \in Nat, line = CommitLine(i)
       PROVE  Live(D, [m EXCEPT !.committed = @ \cup {i}], prom, acc)
  <2> DEFINE M == [m EXCEPT !.committed = @ \cup {i}]
  <2>1. /\ M.prepared = m.prepared /\ M.committed = m.committed \cup {i}
        /\ M.applied_index = m.applied_index /\ M.snapshot_index = m.snapshot_index
    BY DEF Fields
  <2>2. Loadable(now) => i \in Journal(now).committed
    BY <1>2, <1>11
  <2> HIDE DEF M
  <2> QED BY <1>9, <1>3, <2>1, <2>2 DEF Live
<1> QED BY <1>8, <1>9, <1>10, <1>11 DEF D, now, log

\* commit applies a mutation that is newer than everything applied before.
LEMMA ApplyWrite ==
  ASSUME NEW d, NEW m \in Fields, NEW prom, NEW acc, Promise(prom),
         Live(d, m, prom, acc), Whole(d, prom, acc), NEW e \in Entries, e.mut \notin Rejected,
         e \in m.prepared, e.index \in m.committed, e.index > m.applied_index
  PROVE  LET D == [d EXCEPT !.content[KeyOf[e.mut]] = e.mut]
             M == [m EXCEPT !.applied_index = e.index]
         IN  /\ Whole(D, prom, acc) /\ Live(D, M, prom, acc)
             /\ D.content[KeyOf[e.mut]] = e.mut
<1> DEFINE D == [d EXCEPT !.content[KeyOf[e.mut]] = e.mut]
           M == [m EXCEPT !.applied_index = e.index]
<1>1. d \in Directory
  BY DEF Live
<1>2. /\ D \in Directory /\ D.log = d.log /\ D.applied_index = d.applied_index
      /\ D.content[KeyOf[e.mut]] = e.mut
      /\ \A k \in Key : k # KeyOf[e.mut] => D.content[k] = d.content[k]
  BY <1>1, ContentEdit
<1>3. /\ M.prepared = m.prepared /\ M.committed = m.committed
      /\ M.applied_index = e.index /\ M.snapshot_index = m.snapshot_index
  BY DEF Fields
<1> HIDE DEF D, M
<1>4. e.index \in Nat /\ KeyOf[e.mut] \in Key /\ IndexOf(e.mut) = e.index
  BY EntryFacts
<1>5. /\ \A k \in Key : prom[k] <= IndexOf(d.content[k]) /\ IndexOf(d.content[k]) <= m.applied_index
      /\ Loadable(d.log) => /\ m.prepared \subseteq Journal(d.log).prepared
                            /\ m.committed \subseteq Journal(d.log).committed
      /\ d.applied_index <= m.applied_index
  BY DEF Live
<1>6. m.applied_index \in Nat /\ d.applied_index \in Nat
  BY <1>1, DirectoryFacts DEF Fields
<1>7. ASSUME NEW k \in Key
      PROVE  /\ prom[k] <= IndexOf(D.content[k]) /\ IndexOf(D.content[k]) <= e.index
             /\ IndexOf(D.content[k]) >= prom[k]
  <2>1. prom[k] \in Nat /\ IndexOf(d.content[k]) \in Nat
    BY <1>1, DirectoryFacts DEF Promise
  <2>2. CASE k = KeyOf[e.mut]
    BY <1>2, <1>4, <1>5, <1>6, <2>1, <2>2
  <2>3. CASE k # KeyOf[e.mut]
    BY <1>2, <1>4, <1>5, <1>6, <2>1, <2>3
  <2> QED BY <2>2, <2>3
<1>8. Loadable(d.log) => HasCommitted(d.log, e)
  BY <1>5 DEF HasCommitted
<1>9. Journalled(D)
  <2>1. SUFFICES ASSUME Loadable(d.log), NEW k \in Key
                 PROVE  \/ IndexOf(D.content[k]) <= Journal(d.log).snapshot_index
                        \/ \E f \in Entries : f.mut = D.content[k] /\ HasCommitted(d.log, f)
    BY <1>2 DEF Journalled
  <2>2. CASE k = KeyOf[e.mut]
    BY <1>2, <1>8, <2>1, <2>2
  <2>3. CASE k # KeyOf[e.mut]
    BY <1>2, <2>1, <2>3 DEF Whole, Journalled
  <2> QED BY <2>2, <2>3
<1>10. Whole(D, prom, acc)
  BY <1>2, <1>7, <1>9 DEF Whole, Kept, Replays
<1>11. Live(D, M, prom, acc)
  <2>1. d.applied_index <= e.index
    BY <1>4, <1>5, <1>6
  <2> QED BY <1>2, <1>3, <1>7, <2>1 DEF Live
<1> QED BY <1>2, <1>10, <1>11 DEF D, M

\* The state file of a live directory is published.
Published(d, m) == [d EXCEPT !.term = m.term, !.placement_epoch = m.placement_epoch,
                             !.applied_index = m.applied_index]

LEMMA StateWrite ==
  ASSUME NEW d, NEW m \in Fields, NEW prom, NEW acc, Promise(prom),
         Live(d, m, prom, acc), Whole(d, prom, acc)
  PROVE  Whole(Published(d, m), prom, acc) /\ Live(Published(d, m), m, prom, acc)
<1> DEFINE D == Published(d, m)
<1>1. d \in Directory /\ m.term \in Nat /\ m.placement_epoch \in Nat /\ m.applied_index \in Nat
  BY DEF Live, Fields
<1>2. D \in Directory /\ D.log = d.log /\ D.content = d.content /\ D.applied_index = m.applied_index
  BY <1>1 DEF Published, Directory
<1> HIDE DEF D
<1>3. \A k \in Key : prom[k] <= IndexOf(d.content[k]) /\ IndexOf(d.content[k]) <= m.applied_index
  BY DEF Live
<1>4. \A k \in Key : prom[k] \in Nat /\ IndexOf(d.content[k]) \in Nat
  BY <1>1, DirectoryFacts DEF Promise
<1>5. \A k \in Key : IndexOf(d.content[k]) >= prom[k] /\ prom[k] <= m.applied_index
  BY <1>1, <1>3, <1>4
<1>6. Journal(d.log).snapshot_index <= m.applied_index
  <2>1. /\ Journal(d.log).snapshot_index \in Nat /\ d.applied_index \in Nat
        /\ Journal(d.log).snapshot_index <= d.applied_index /\ d.applied_index <= m.applied_index
    BY <1>1, DirectoryFacts DEF Whole, Live
  <2> QED BY <1>1, <2>1
<1>7. Whole(D, prom, acc)
  BY <1>2, <1>5, <1>6 DEF Whole, Kept, Replays, Journalled
<1>8. Live(D, m, prom, acc)
  BY <1>1, <1>2, <1>3 DEF Live
<1> QED BY <1>7, <1>8 DEF D

\* An answered commit is in the directory: in its content, and in its journal if
\* that can be read.
LEMMA AnswerKept ==
  ASSUME NEW d, NEW m \in Fields, NEW prom, NEW acc, Promise(prom),
         Live(d, m, prom, acc), Whole(d, prom, acc), NEW e \in Entries, e.mut \notin Rejected,
         e \in m.prepared, e.index \in m.committed, e.index = m.applied_index,
         d.content[KeyOf[e.mut]] = e.mut
  PROVE  LET next == [prom EXCEPT ![KeyOf[e.mut]] = e.index]
         IN  Promise(next) /\ Whole(d, next, acc) /\ Live(d, m, next, acc)
<1> DEFINE next == [prom EXCEPT ![KeyOf[e.mut]] = e.index]
<1>1. e.index \in Nat /\ KeyOf[e.mut] \in Key /\ IndexOf(e.mut) = e.index
  BY EntryFacts
<1>2. /\ next \in [Key -> Nat] /\ next[KeyOf[e.mut]] = e.index
      /\ \A k \in Key : k # KeyOf[e.mut] => next[k] = prom[k]
  BY <1>1 DEF Promise
<1> HIDE DEF next
<1>3. Promise(next)
  BY <1>2 DEF Promise
<1>4. d \in Directory /\ (Loadable(d.log) => HasCommitted(d.log, e))
  BY DEF Live, HasCommitted
<1>5. Whole(d, next, acc)
  <2>1. Kept(d, next)
    <3>1. SUFFICES ASSUME NEW k \in Key
                   PROVE  \/ IndexOf(d.content[k]) >= next[k]
                          \/ next[k] > d.applied_index /\ Loadable(d.log)
      BY DEF Kept
    <3>2. CASE k = KeyOf[e.mut]
      BY <1>1, <1>2, <3>2
    <3>3. CASE k # KeyOf[e.mut]
      BY <1>2, <3>3 DEF Whole, Kept
    <3> QED BY <3>2, <3>3
  <2>2. Replays(d, next)
    <3>1. SUFFICES ASSUME Loadable(d.log), NEW k \in Key
                   PROVE  \/ next[k] <= d.applied_index
                          \/ \E f \in Entries : /\ f.index = next[k] /\ KeyOf[f.mut] = k
                                                /\ HasCommitted(d.log, f)
      BY DEF Replays
    <3>2. CASE k = KeyOf[e.mut]
      BY <1>2, <1>4, <3>1, <3>2
    <3>3. CASE k # KeyOf[e.mut]
      BY <1>2, <3>1, <3>3 DEF Whole, Replays
    <3> QED BY <3>2, <3>3
  <2> QED BY <2>1, <2>2 DEF Whole
<1>6. Live(d, m, next, acc)
  <2>1. \A k \in Key : next[k] <= IndexOf(d.content[k]) /\ IndexOf(d.content[k]) <= m.applied_index
    <3>1. SUFFICES ASSUME NEW k \in Key
                   PROVE  next[k] <= IndexOf(d.content[k]) /\ IndexOf(d.content[k]) <= m.applied_index
      OBVIOUS
    <3>2. CASE k = KeyOf[e.mut]
      BY <1>1, <1>2, <3>2
    <3>3. CASE k # KeyOf[e.mut]
      BY <1>2, <3>3 DEF Live
    <3> QED BY <3>2, <3>3
  <2> QED BY <2>1 DEF Live
<1> QED BY <1>3, <1>5, <1>6 DEF next

\* The journal is read, and its torn tail is cut off.
LEMMA ReadJournal ==
  ASSUME NEW d \in Directory, NEW m \in Fields, NEW prom, NEW acc, Loadable(d.log)
  PROVE  LET D == [d EXCEPT !.log = Complete(@)]
             J == Journal(Complete(d.log))
         IN  /\ D \in Directory /\ D.log = Complete(d.log) /\ J = Journal(d.log)
             /\ D.content = d.content /\ D.applied_index = d.applied_index
             /\ Loadable(D.log) /\ ~EndsTorn(D.log)
             /\ J.prepared \subseteq Entries /\ J.committed \subseteq Nat /\ J.snapshot_index \in Nat
             /\ Whole(d, prom, acc) => Whole(D, prom, acc)
             /\ Live(d, m, prom, acc) =>
                  Live(D, [m EXCEPT !.prepared = J.prepared, !.committed = J.committed,
                                    !.snapshot_index = J.snapshot_index], prom, acc)
<1> DEFINE log == Complete(d.log)
           J == Journal(log)
           D == [d EXCEPT !.log = log]
           M == [m EXCEPT !.prepared = J.prepared, !.committed = J.committed,
                          !.snapshot_index = J.snapshot_index]
<1>1. LogOK(d.log)
  BY DirectoryFacts
<1>2. LogOK(log) /\ ~EndsTorn(log) /\ J = Journal(d.log) /\ Loadable(log)
  BY <1>1, CompleteFacts
<1>3. J.prepared \subseteq Entries /\ J.committed \subseteq Nat /\ J.snapshot_index \in Nat
  BY <1>2, JournalFacts
<1>5. /\ M.prepared = J.prepared /\ M.committed = J.committed
      /\ M.applied_index = m.applied_index /\ M.snapshot_index = J.snapshot_index
  BY DEF Fields
<1> HIDE DEF log
<1>4. /\ D \in Directory /\ D.log = log /\ D.content = d.content
      /\ D.applied_index = d.applied_index
  BY <1>2, LogEdit
<1> HIDE DEF D, M
<1>6. Whole(d, prom, acc) => Whole(D, prom, acc)
  BY <1>2, <1>4 DEF Whole, Kept, Replays, Journalled, HasCommitted
<1>7. Live(d, m, prom, acc) => Live(D, M, prom, acc)
  BY <1>2, <1>4, <1>5 DEF Live
<1> QED BY <1>2, <1>3, <1>4, <1>6, <1>7 DEF D, M, log

-----------------------------------------------------------------------------
(***************************************************************************)
(* Recovery: what remains to be replayed, one entry at a time.             *)
(***************************************************************************)
\* The next entry is applied again, maybe under a newer mutation of the same point,
\* which then is replayed too.
LEMMA ReplayWrite ==
  ASSUME NEW d, NEW m \in Fields, NEW prom, NEW acc, Promise(prom),
         Whole(d, prom, acc), Replaying(d, m), NEW e \in Entries, e.mut \notin Rejected,
         HasCommitted(d.log, e), e.index > d.applied_index
  PROVE  LET D == [d EXCEPT !.content[KeyOf[e.mut]] = e.mut]
         IN  /\ Whole(D, prom, acc) /\ Replaying(D, [m EXCEPT !.applied_index = e.index])
             /\ D.log = d.log /\ D.applied_index = d.applied_index
             /\ D.content[KeyOf[e.mut]] = e.mut
<1> DEFINE D == [d EXCEPT !.content[KeyOf[e.mut]] = e.mut]
           M == [m EXCEPT !.applied_index = e.index]
<1>1. d \in Directory /\ Loadable(d.log)
  BY DEF Replaying
<1>2. /\ D \in Directory /\ D.log = d.log /\ D.applied_index = d.applied_index
      /\ D.content[KeyOf[e.mut]] = e.mut
      /\ \A k \in Key : k # KeyOf[e.mut] => D.content[k] = d.content[k]
  BY <1>1, ContentEdit
<1>3. /\ M.prepared = m.prepared /\ M.committed = m.committed
      /\ M.snapshot_index = m.snapshot_index
  BY DEF Fields
<1> HIDE DEF D, M
<1>4. e.index \in Nat /\ IndexOf(e.mut) = e.index /\ d.applied_index \in Nat
  BY <1>1, EntryFacts, DirectoryFacts
<1>5. Kept(D, prom)
  <2>1. SUFFICES ASSUME NEW k \in Key
                 PROVE  IndexOf(D.content[k]) >= prom[k] \/ prom[k] > d.applied_index
    BY <1>1, <1>2 DEF Kept
  <2>2. prom[k] \in Nat
    BY DEF Promise
  <2>3. CASE k = KeyOf[e.mut]
    BY <1>2, <1>4, <2>2, <2>3
  <2>4. CASE k # KeyOf[e.mut]
    BY <1>2, <2>4 DEF Whole, Kept
  <2> QED BY <2>3, <2>4
<1>6. Journalled(D)
  <2>1. SUFFICES ASSUME NEW k \in Key
                 PROVE  \/ IndexOf(D.content[k]) <= Journal(d.log).snapshot_index
                        \/ \E f \in Entries : f.mut = D.content[k] /\ HasCommitted(d.log, f)
    BY <1>2 DEF Journalled
  <2>2. CASE k = KeyOf[e.mut]
    BY <1>2, <2>2
  <2>3. CASE k # KeyOf[e.mut]
    BY <1>1, <1>2, <2>3 DEF Whole, Journalled
  <2> QED BY <2>2, <2>3
<1>7. Whole(D, prom, acc)
  BY <1>2, <1>5, <1>6 DEF Whole, Replays
<1>8. Replaying(D, M)
  BY <1>2, <1>3 DEF Replaying
<1> QED BY <1>2, <1>7, <1>8 DEF D, M

\* Its index is published: whatever was answered for is applied or comes later.
LEMMA ReplayedWrite ==
  ASSUME NEW d, NEW m \in Fields, NEW prom, NEW acc, Promise(prom),
         Whole(d, prom, acc), Replaying(d, m), NEW e \in Entries,
         HasCommitted(d.log, e), e.index > d.applied_index,
         \A f \in Entries : HasCommitted(d.log, f) /\ f.index > d.applied_index
           => e.index <= f.index,
         m.applied_index = e.index, d.content[KeyOf[e.mut]] = e.mut
  PROVE  /\ Whole(Published(d, m), prom, acc) /\ Replaying(Published(d, m), m)
         /\ Published(d, m).applied_index = m.applied_index
<1> DEFINE D == Published(d, m)
<1>1. /\ d \in Directory /\ Loadable(d.log)
      /\ m.term \in Nat /\ m.placement_epoch \in Nat /\ m.applied_index \in Nat
  BY DEF Replaying, Fields
<1>2. D \in Directory /\ D.log = d.log /\ D.content = d.content /\ D.applied_index = m.applied_index
  BY <1>1 DEF Published, Directory
<1> HIDE DEF D
<1>3. /\ e.index \in Nat /\ IndexOf(e.mut) = e.index /\ d.applied_index \in Nat
      /\ Journal(d.log).snapshot_index \in Nat
  BY <1>1, EntryFacts, DirectoryFacts
<1>4. ASSUME NEW k \in Key
      PROVE  IndexOf(d.content[k]) >= prom[k] \/ prom[k] > m.applied_index
  <2>1. prom[k] \in Nat
    BY DEF Promise
  <2>2. CASE IndexOf(d.content[k]) >= prom[k]
    BY <2>2
  <2>3. CASE prom[k] > d.applied_index
    <3>1. ~(prom[k] <= d.applied_index)
      BY <1>3, <2>1, <2>3
    <3>2. PICK f \in Entries : f.index = prom[k] /\ KeyOf[f.mut] = k /\ HasCommitted(d.log, f)
      BY <1>1, <3>1 DEF Whole, Replays
    <3>3. e.index <= prom[k]
      BY <2>3, <3>2
    <3>4. CASE e.index = prom[k]
      <4>1. f = e
        BY <3>2, <3>4, EntryFacts
      <4>2. IndexOf(d.content[k]) = prom[k]
        BY <1>3, <3>2, <3>4, <4>1
      <4> QED BY <2>1, <4>2
    <3>5. CASE e.index # prom[k]
      BY <1>3, <2>1, <3>3, <3>5
    <3> QED BY <3>4, <3>5
  <2> QED BY <2>2, <2>3 DEF Whole, Kept
<1>5. Kept(D, prom)
  BY <1>1, <1>2, <1>4 DEF Kept
<1>6. Replays(D, prom)
  <2>1. SUFFICES ASSUME NEW k \in Key
                 PROVE  \/ prom[k] <= m.applied_index
                        \/ \E f \in Entries : /\ f.index = prom[k] /\ KeyOf[f.mut] = k
                                              /\ HasCommitted(d.log, f)
    BY <1>2 DEF Replays
  <2>2. prom[k] \in Nat
    BY DEF Promise
  <2>3. CASE prom[k] <= d.applied_index
    BY <1>3, <2>2, <2>3
  <2> QED BY <1>1, <2>3 DEF Whole, Replays
<1>7. Journal(d.log).snapshot_index <= m.applied_index
  BY <1>3 DEF Whole
<1>8. Whole(D, prom, acc)
  BY <1>2, <1>5, <1>6, <1>7 DEF Whole, Journalled
<1>9. Replaying(D, m)
  BY <1>2 DEF Replaying
<1> QED BY <1>2, <1>8, <1>9 DEF D

\* With nothing left to replay the directory is live.
LEMMA ReplayDone ==
  ASSUME NEW d, NEW m \in Fields, NEW prom, NEW acc, Promise(prom),
         Whole(d, prom, acc), Replaying(d, m), m.applied_index = d.applied_index,
         \A f \in Entries : HasCommitted(d.log, f) => ~(f.index > d.applied_index)
  PROVE  Live(d, m, prom, acc)
<1>1. d \in Directory /\ Loadable(d.log)
  BY DEF Replaying
<1>2. d.applied_index \in Nat /\ Journal(d.log).snapshot_index \in Nat
  BY <1>1, DirectoryFacts
<1>3. ASSUME NEW k \in Key
      PROVE  prom[k] <= IndexOf(d.content[k]) /\ IndexOf(d.content[k]) <= d.applied_index
  <2>1. prom[k] \in Nat /\ IndexOf(d.content[k]) \in Nat
    BY <1>1, DirectoryFacts DEF Promise
  <2>2. prom[k] <= d.applied_index
    <3>1. CASE prom[k] <= d.applied_index
      BY <3>1
    <3>2. CASE \E f \in Entries : f.index = prom[k] /\ KeyOf[f.mut] = k /\ HasCommitted(d.log, f)
      BY <1>2, <2>1, <3>2
    <3> QED BY <1>1, <3>1, <3>2 DEF Whole, Replays
  <2>3. prom[k] <= IndexOf(d.content[k])
    BY <1>2, <2>1, <2>2 DEF Whole, Kept
  <2>4. IndexOf(d.content[k]) <= d.applied_index
    <3>1. CASE IndexOf(d.content[k]) <= Journal(d.log).snapshot_index
      BY <1>2, <2>1, <3>1 DEF Whole
    <3>2. CASE \E f \in Entries : f.mut = d.content[k] /\ HasCommitted(d.log, f)
      <4>1. PICK f \in Entries : f.mut = d.content[k] /\ HasCommitted(d.log, f)
        BY <3>2
      <4>2. IndexOf(d.content[k]) = f.index /\ f.index \in Nat
        BY <4>1, EntryFacts
      <4> QED BY <1>2, <4>1, <4>2
    <3> QED BY <1>1, <3>1, <3>2 DEF Whole, Journalled
  <2> QED BY <2>3, <2>4
<1> QED BY <1>1, <1>2, <1>3 DEF Live, Replaying

\* A journal has finitely many entries, so one of them is the last.
LEMMA LogBound ==
  ASSUME NEW log, LogOK(log)
  PROVE  \E b \in Nat : \A e \in Journal(log).prepared : e.index <= b
<1> DEFINE idx(i) == IF log[i].kind = "prepare" THEN log[i].entry.index ELSE 0
           Bounded(n) == \E b \in Nat : \A i \in 1..n : idx(i) <= b
           T == {n \in Nat : n <= Len(log) /\ ~Bounded(n)}
<1>1. Len(log) \in Nat /\ \A i \in 1..Len(log) : log[i] \in Line
  BY DEF LogOK
<1>2. \A i \in 1..Len(log) : idx(i) \in Nat
  BY <1>1, LineFacts, EntryFacts
<1> HIDE DEF idx
<1>3. Bounded(0)
  <2>1. \A i \in 1..0 : idx(i) <= 0
    OBVIOUS
  <2> QED BY <2>1
<1>4. ASSUME NEW n \in Nat, n + 1 <= Len(log), Bounded(n)
      PROVE  Bounded(n + 1)
  <2>1. PICK b \in Nat : \A i \in 1..n : idx(i) <= b
    BY <1>4
  <2> DEFINE last == idx(n + 1)
  <2>2. last \in Nat
    BY <1>1, <1>2, <1>4
  <2> HIDE DEF last
  <2>3. PICK c \in Nat : b <= c /\ last <= c
    <3>1. b <= b + last /\ last <= b + last /\ b + last \in Nat
      BY <2>2
    <3> QED BY <3>1
  <2>4. \A i \in 1..(n + 1) : i \in 1..n \/ i = n + 1
    OBVIOUS
  <2>5. \A i \in 1..n : i \in 1..Len(log)
    BY <1>1, <1>4
  <2>6. ASSUME NEW i \in 1..(n + 1)
        PROVE  idx(i) <= c
    <3>1. CASE i \in 1..n
      <4>1. idx(i) \in Nat /\ idx(i) <= b
        BY <1>2, <2>1, <2>5, <3>1
      <4> HIDE DEF Bounded
      <4> QED BY <2>3, <4>1
    <3>2. CASE i = n + 1
      BY <2>3, <3>2 DEF last
    <3> QED BY <2>4, <3>1, <3>2
  <2> QED BY <2>6
<1> HIDE DEF Bounded
<1>5. T = {}
  <2>1. SUFFICES ASSUME T # {} PROVE FALSE
    OBVIOUS
  <2>2. T \in SUBSET Nat
    OBVIOUS
  <2>3. PICK x \in T : \A y \in T : x <= y
    BY <2>1, <2>2, LeastNat
  <2>4. x \in Nat /\ x <= Len(log) /\ ~Bounded(x)
    BY <2>3
  <2>5. x # 0
    BY <1>3, <2>4
  <2>6. PICK n \in Nat : x = n + 1
    BY <2>4, <2>5
  <2>7. n \in T
    BY <1>1, <1>4, <2>4, <2>6
  <2>8. x <= n
    BY <2>3, <2>7
  <2> QED BY <2>6, <2>8
<1>6. Bounded(Len(log))
  BY <1>1, <1>5
<1>7. PICK b \in Nat : \A i \in 1..Len(log) : idx(i) <= b
  BY <1>6 DEF Bounded
<1>8. ASSUME NEW e \in Journal(log).prepared
      PROVE  e.index <= b
  <2>1. PICK i \in 1..Len(log) : e \in Entries /\ log[i] = PrepareLine(e)
    BY <1>8, JournalFacts
  <2>2. idx(i) = e.index
    BY <2>1, LineTypes DEF idx
  <2> QED BY <1>7, <2>1, <2>2
<1> QED BY <1>8

\* What a replay makes of a point.
LEMMA ReplayedContent ==
  ASSUME NEW d, NEW R, NEW k \in Key
  PROVE  LET last == {e \in R : /\ KeyOf[e.mut] = k
                               /\ \A f \in R : KeyOf[f.mut] = k => f.index <= e.index}
         IN  Replayed(DiskOf(d), R, R).content[k] =
               IF last = {} THEN d.content[k] ELSE (CHOOSE e \in last : TRUE).mut
BY DEF Replayed, DiskOf

\* A whole directory that opens has, for every point, what was answered for.
LEMMA WholeAnswers ==
  ASSUME NEW d, NEW prom, NEW acc, Promise(prom), Whole(d, prom, acc), Loadable(d.log),
         ~RecoveryRaises(DiskOf(d)), NEW k \in Key
  PROVE  IndexOf(Recovered(DiskOf(d)).content[k]) >= prom[k]
<1> DEFINE J == Journal(d.log)
           R == {p \in J.prepared : p.index \in J.committed /\ p.index > d.applied_index}
           last == {e \in R : /\ KeyOf[e.mut] = k
                              /\ \A f \in R : KeyOf[f.mut] = k => f.index <= e.index}
           c == Recovered(DiskOf(d)).content[k]
<1>1. d \in Directory /\ LogOK(d.log) /\ d.applied_index \in Nat /\ prom[k] \in Nat
  BY DirectoryFacts DEF Whole, Promise
<1>2. /\ DiskOf(d).prepared = J.prepared /\ DiskOf(d).committed = J.committed
      /\ DiskOf(d).applied_index = d.applied_index /\ DiskOf(d).content = d.content
  BY DEF DiskOf
<1>3. Replayable(DiskOf(d)) = R
  BY <1>2 DEF RecoveryRaises, Unreplayed, CommittedAfter
<1>4. Recovered(DiskOf(d)) = Replayed(DiskOf(d), R, R)
  <2> DEFINE q == DiskOf(d)
  <2>1. Replayable(q) = Unreplayed(q)
    BY DEF RecoveryRaises
  <2> HIDE DEF q
  <2>2. Refused(q) = {}
    <3>1. ASSUME NEW e \in Unreplayed(q), e.mut \in Rejected,
                 \A f \in Unreplayed(q) : f.index < e.index => f.mut \notin Rejected
          PROVE  FALSE
      <4>1. e \in Replayable(q)
        BY <2>1
      <4>2. e.index <= e.index => e.mut \notin Rejected
        BY <4>1 DEF Replayable
      <4>3. e.index \in Nat
        BY <1>1, JournalFacts, EntryFacts DEF Unreplayed, CommittedAfter, DiskOf, q
      <4> QED BY <3>1, <4>2, <4>3
    <3> QED BY <3>1 DEF Refused
  <2>3. Recovered(q) = Replayed(q, Replayable(q), Replayable(q))
    BY <2>2 DEF Recovered
  <2> QED BY <1>3, <2>3 DEF q
<1> HIDE DEF J, R
<1>5. c = IF last = {} THEN d.content[k] ELSE (CHOOSE e \in last : TRUE).mut
  <2>1. Replayed(DiskOf(d), R, R).content[k] =
          IF last = {} THEN d.content[k] ELSE (CHOOSE e \in last : TRUE).mut
    BY ReplayedContent
  <2> QED BY <1>4, <2>1
<1>6. R \subseteq Entries
  BY <1>1, JournalFacts DEF R, J
<1>7. PICK b \in Nat : \A e \in R : e.index <= b
  BY <1>1, LogBound DEF R, J
<1>8. ASSUME NEW e \in R, KeyOf[e.mut] = k
      PROVE  last # {}
  <2> DEFINE S == {f.index : f \in {g \in R : KeyOf[g.mut] = k}}
  <2>1. S \in SUBSET Nat /\ e.index \in S /\ \A x \in S : x <= b
    BY <1>6, <1>7, <1>8, EntryFacts
  <2>2. PICK x \in S : \A y \in S : y <= x
    BY <2>1, GreatestNat
  <2> QED BY <2>2
<1>9. \/ prom[k] <= d.applied_index
      \/ \E f \in R : f.index = prom[k] /\ KeyOf[f.mut] = k
  <2>1. CASE prom[k] <= d.applied_index
    BY <2>1
  <2>2. CASE ~(prom[k] <= d.applied_index)
    <3>1. PICK f \in Entries : f.index = prom[k] /\ KeyOf[f.mut] = k /\ HasCommitted(d.log, f)
      BY <2>2 DEF Whole, Replays
    <3>2. f \in R
      BY <1>1, <2>2, <3>1 DEF R, J, HasCommitted
    <3> QED BY <3>1, <3>2
  <2> QED BY <2>1, <2>2
<1>10. CASE last = {}
  <2>1. prom[k] <= d.applied_index
    BY <1>8, <1>9, <1>10
  <2> QED BY <1>1, <1>5, <1>10, <2>1 DEF Whole, Kept
<1>11. CASE last # {}
  <2>1. PICK e \in last : c = e.mut
    BY <1>5, <1>11
  <2>2. e \in Entries /\ e.index \in Nat /\ IndexOf(c) = e.index
    BY <1>6, <2>1, EntryFacts
  <2>3. e.index > d.applied_index /\ \A f \in R : KeyOf[f.mut] = k => f.index <= e.index
    BY <2>1 DEF R
  <2> QED BY <1>1, <1>9, <2>2, <2>3
<1> QED BY <1>10, <1>11 DEF c

-----------------------------------------------------------------------------
(***************************************************************************)
(* Views of the file system.                                               *)
(***************************************************************************)
\* A view with another directory in one of its places.
LEMMA ViewEdit ==
  ASSUME NEW v \in View, NEW p \in Dir, NEW D \in Directory \cup {NoDir}
  PROVE  /\ [v EXCEPT ![p] = D] \in View /\ [v EXCEPT ![p] = D][p] = D
         /\ \A q \in Dir : q # p => [v EXCEPT ![p] = D][q] = v[q]
BY DEF View

\* A write or a rename: the view is new, the promises are not.
LEMMA ViewChanged ==
  ASSUME TypeOK, ViewInv, NEW v \in View, Sync(v) \/ NoSync(v), promised' = promised,
         accidents \subseteq accidents', Whole(Survivor(v), promised, accidents')
  PROVE  ViewInv' /\ fs' = v /\ fs' \in View /\ (unsynced \subseteq View)'
<1>1. fs' = v /\ (unsynced' = {} \/ unsynced' = Views)
  BY DEF Sync, NoSync
<1>2. \A w \in Views : Whole(Survivor(w), promised, accidents')
  BY MoreAccidents DEF ViewInv
<1>3. (\A w \in Views : Whole(Survivor(w), promised, accidents))'
  <2>1. Views' = unsynced' \cup {fs'}
    BY DEF Views
  <2>2. ASSUME NEW w \in Views' PROVE Whole(Survivor(w), promised', accidents')
    BY <1>1, <1>2, <2>1, <2>2
  <2> QED BY <2>2
<1>4. Views \subseteq View
  BY DEF Views, TypeOK
<1> QED BY <1>1, <1>3, <1>4 DEF ViewInv

\* The file system stands still.
LEMMA ViewKept ==
  ASSUME TypeOK, ViewInv, UNCHANGED <<fs, unsynced>>, promised' = promised,
         accidents \subseteq accidents'
  PROVE  ViewInv' /\ fs' \in View /\ (unsynced \subseteq View)'
<1>1. \A w \in Views : Whole(Survivor(w), promised, accidents')
  BY MoreAccidents DEF ViewInv
<1>2. Views' = Views
  BY DEF Views
<1>3. (\A w \in Views : Whole(Survivor(w), promised, accidents))'
  BY <1>1, <1>2
<1> QED BY <1>3 DEF ViewInv, TypeOK

\* The view of the process is one of them.
LEMMA ViewNow ==
  ASSUME Running
  PROVE  /\ Whole(Survivor(fs), promised, accidents)
         /\ fs["root"] # NoDir => Whole(fs["root"], promised, accidents)
         /\ \A p \in Dir : fs[p] \in Directory \cup {NoDir}
         /\ \A v \in Views : Whole(Survivor(v), promised, accidents)
<1>1. Whole(Survivor(fs), promised, accidents)
  BY DEF Running, ViewInv, Views
<1>2. \A p \in Dir : fs[p] \in Directory \cup {NoDir}
  BY DEF Running, TypeOK, View
<1> QED BY <1>1, <1>2 DEF Survivor, Running, ViewInv

\* A directory that is live is there.
LEMMA LiveIsThere ==
  ASSUME NEW d, NEW m, NEW prom, NEW acc, Live(d, m, prom, acc)
  PROVE  d # NoDir /\ d \in Directory
BY DirectoryFacts DEF Live

-----------------------------------------------------------------------------
(***************************************************************************)
(* The states that many steps lead to.                                     *)
(***************************************************************************)
\* There is no shard object.
LEMMA ToDown ==
  ASSUME TypeOK', ViewInv', pc' = "down"
  PROVE  Running'
BY DEF Running, AppliedInv, Opening, LiveInv, Serving, ReplayInv, CommitInv, InstallInv

\* The handler answers, or cleans up before it does.
LEMMA ToIdle ==
  ASSUME TypeOK', ViewInv', pc' \in {"idle", "finish"},
         (\A k \in Key : promised[k] <= mem.applied_index)',
         open' => Live(fs["root"], mem, promised, accidents)'
  PROVE  Running'
BY DEF Running, AppliedInv, Opening, LiveInv, Serving, ReplayInv, CommitInv, InstallInv

LEMMA ToDropFailed ==
  ASSUME TypeOK', ViewInv', pc' = "drop_failed",
         (\A k \in Key : promised[k] <= mem.applied_index)',
         open', Live(fs["root"], mem, promised, accidents)'
  PROVE  Running'
BY DEF Running, AppliedInv, Opening, LiveInv, Serving, ReplayInv, CommitInv, InstallInv

\* prepare or commit has the next record to write, if it is missing.
LEMMA ToJournal ==
  ASSUME TypeOK', ViewInv', pc' \in {"prepare", "commit"},
         (\A k \in Key : promised[k] <= mem.applied_index)',
         open', Live(fs["root"], mem, promised, accidents)', (op.entry # {})',
         pc' = "prepare" => (op.then \in {"idle", "commit"})',
         pc' = "commit" => (op.then = "idle" /\ TheEntry \in mem.prepared)'
  PROVE  Running'
<1>1. (op.then # "replay")'
  BY DEF TypeOK
<1> QED BY <1>1 DEF Running, AppliedInv, Opening, LiveInv, Serving, ReplayInv, CommitInv, InstallInv

\* commit has its records and applies the entry, or has applied it.
LEMMA ToApply ==
  ASSUME TypeOK', ViewInv', pc' \in {"apply", "publish"}, (op.then = "idle")',
         (\A k \in Key : promised[k] <= mem.applied_index)',
         open', Live(fs["root"], mem, promised, accidents)',
         pc' = "apply" => (op.entry # {})',
         ((op.entry # {}) =>
           /\ TheEntry \in mem.prepared /\ TheEntry.index \in mem.committed
           /\ IF pc = "apply" THEN TheEntry.index > mem.applied_index
              ELSE /\ mem.applied_index = TheEntry.index
                   /\ fs["root"].content[KeyOf[TheEntry.mut]] = TheEntry.mut)'
  PROVE  Running'
BY DEF Running, AppliedInv, Opening, LiveInv, Serving, ReplayInv, CommitInv, InstallInv

\* A recovery that has read the journal.
LEMMA ToReplaying ==
  ASSUME TypeOK', ViewInv', pc' = "replay",
         Replaying(fs["root"], mem)', open', (mem.applied_index = fs["root"].applied_index)'
  PROVE  Running'
BY DEF Running, AppliedInv, Opening, LiveInv, Serving, ReplayInv, CommitInv, InstallInv

\* install_snapshot: its arguments.
Arguments == /\ op.index \in Snapshots /\ op.config \in Configs
             /\ \A k \in Key : promised[k] <= op.index

\* It clears and fills the workspaces.
LEMMA ToStage ==
  ASSUME TypeOK', ViewInv',
         pc' \in {"stage", "state"} \/ (pc = "recover" /\ op.then = "stage")', Arguments',
         (\A k \in Key : promised[k] <= mem.applied_index)',
         open' => Live(fs["root"], mem, promised, accidents)', (op.closed = ~open)',
         pc' = "stage" => (fs["stage"] = [NewDir EXCEPT !.content = Source(op.index).content])',
         pc' = "state" => (fs["stage"] = [NewDir EXCEPT !.content = Source(op.index).content,
                                                        !.log = <<SnapshotLine(op.index)>>])'
  PROVE  Running'
<1>1. CASE pc' \in {"stage", "state"}
  BY <1>1 DEF Running, AppliedInv, Opening, LiveInv, Serving, ReplayInv, CommitInv, InstallInv,
         Arguments
<1>2. CASE (pc = "recover" /\ op.then = "stage")'
  BY <1>2 DEF Running, AppliedInv, Opening, LiveInv, Serving, ReplayInv, CommitInv, InstallInv,
         Arguments
<1> QED BY <1>1, <1>2

\* It swaps the directories.
LEMMA ToSwap ==
  ASSUME TypeOK', ViewInv', pc' \in {"swap", "swapped", "adopt", "undo", "restore"}, Arguments',
         (\A k \in Key : promised[k] <= mem.applied_index)', ~open',
         (IF pc = "swap" THEN /\ fs["stage"] = Staged(op.config, op.index)
                              /\ ~op.closed => Live(fs["root"], mem, promised, accidents)
          ELSE /\ fs["backup"] # NoDir /\ Whole(fs["backup"], promised, accidents)
               /\ ~op.closed => Live(fs["backup"], mem, promised, accidents)
               /\ pc = "swapped" => fs["stage"] = Staged(op.config, op.index)
               /\ pc \in {"swapped", "restore"} => fs["root"] = NoDir
               /\ pc = "adopt" => fs["root"] = Staged(op.config, op.index))'
  PROVE  Running'
BY DEF Running, AppliedInv, Opening, LiveInv, Serving, ReplayInv, CommitInv, InstallInv, Arguments

\* It has the new shard in place.
LEMMA ToDropBackup ==
  ASSUME TypeOK', ViewInv', pc' = "drop_backup", Arguments',
         open', Live(fs["root"], mem, promised, accidents)',
         (mem.applied_index = op.index)', (fs["root"] = Staged(op.config, op.index))'
  PROVE  Running'
BY DEF Running, AppliedInv, Opening, LiveInv, Serving, ReplayInv, CommitInv, InstallInv, Arguments

-----------------------------------------------------------------------------
(***************************************************************************)
(* The recovery of the workspaces, and __init__.                           *)
(***************************************************************************)
\* At "recover" only the places of the directories change.
LEMMA StillRecovering ==
  ASSUME Running, pc = "recover", ViewInv', fs' \in View, (unsynced \subseteq View)',
         UNCHANGED <<mem, open, pc, op, history>>,
         open /\ op.then = "stage" => fs'["root"] = fs["root"]
  PROVE  Running'
<1>1. TypeOK'
  BY DEF Running, TypeOK, history, Promise
<1>2. op.then \in {"load", "stage"} /\ promised' = promised /\ accidents' = accidents
  BY DEF Running, InstallInv, history
<1>3. CASE op.then = "load"
  BY <1>1, <1>3 DEF Running, AppliedInv, Opening, LiveInv, Serving, ReplayInv, CommitInv, InstallInv
<1>4. CASE op.then = "stage"
  <2>1. Arguments'
    BY <1>2, <1>4 DEF Running, InstallInv, Arguments
  <2>2. (\A k \in Key : promised[k] <= mem.applied_index)'
    BY <1>2, <1>4 DEF Running, AppliedInv, Opening
  <2>3. open' => Live(fs["root"], mem, promised, accidents)'
    BY <1>2, <1>4 DEF Running, LiveInv
  <2>4. (op.closed = ~open)'
    BY <1>4 DEF Running, LiveInv
  <2> QED BY <1>1, <1>4, <2>1, <2>2, <2>3, <2>4, ToStage
<1> QED BY <1>2, <1>3, <1>4

\* Nothing is removed that recovery would choose.
LEMMA RemoveKeepsSurvivor ==
  ASSUME Running, NEW p \in Dir \ {"root"}, Remove(p), fs["root"] # NoDir \/ p # "backup"
  PROVE  /\ ViewInv' /\ fs' \in View /\ (unsynced \subseteq View)'
         /\ fs'["root"] = fs["root"] /\ Survivor(fs') = Survivor(fs)
<1> DEFINE D == IF fs[p] = NewDir THEN NoDir ELSE NewDir
           v == [fs EXCEPT ![p] = D]
<1>1. NoSync(v) /\ promised' = promised /\ accidents' = accidents
  BY DEF Remove, history
<1>2. fs \in View /\ D \in Directory \cup {NoDir}
  BY DirectoryFacts DEF Running, TypeOK
<1> HIDE DEF D
<1>3. v \in View /\ \A q \in Dir : q # p => v[q] = fs[q]
  BY <1>2, ViewEdit
<1>4. "root" \in Dir /\ "backup" \in Dir
  BY DEF Dir
<1> HIDE DEF v
<1>5. Survivor(v) = Survivor(fs) /\ v["root"] = fs["root"]
  BY <1>3, <1>4 DEF Survivor
<1>6. Whole(Survivor(v), promised, accidents')
  BY <1>1, <1>5, ViewNow
<1> QED BY <1>1, <1>3, <1>5, <1>6, ViewChanged DEF Running

LEMMA RecoverRenameStep ==
  ASSUME Running, RecoverRename
  PROVE  Running'
<1> DEFINE v == [fs EXCEPT !["root"] = fs["backup"], !["backup"] = NoDir]
<1>1. /\ pc = "recover" /\ fs["backup"] # NoDir /\ fs["root"] = NoDir /\ Sync(v)
      /\ UNCHANGED <<mem, open, pc, op, history>> /\ promised' = promised /\ accidents' = accidents
  BY DEF RecoverRename, history
<1>2. v \in View /\ v["root"] = fs["backup"]
  <2>1. fs \in View /\ {"root", "backup"} \subseteq Dir
    BY DEF Running, TypeOK, Dir
  <2> QED BY <2>1 DEF View
<1> HIDE DEF v
<1>3. Survivor(v) = Survivor(fs)
  BY <1>1, <1>2 DEF Survivor
<1>4. ViewInv' /\ fs' \in View /\ (unsynced \subseteq View)'
  <2>1. Whole(Survivor(v), promised, accidents')
    BY <1>1, <1>3, ViewNow
  <2> QED BY <1>1, <1>2, <2>1, ViewChanged DEF Running
<1>5. ~(open /\ op.then = "stage")
  BY <1>1, LiveIsThere DEF Running, LiveInv
<1> QED BY <1>1, <1>4, <1>5, StillRecovering

LEMMA RecoverRemoveStep ==
  ASSUME Running, RecoverRemove
  PROVE  Running'
<1>1. PICK p \in {"backup", "stage", "failed"} : Remove(p) /\ (fs["root"] # NoDir \/ p # "backup")
  BY DEF RecoverRemove
<1>2. p \in Dir \ {"root"}
  BY DEF Dir
<1>3. pc = "recover" /\ UNCHANGED <<mem, open, pc, op, history>>
  BY <1>1 DEF RecoverRemove, Remove
<1> QED BY <1>1, <1>2, <1>3, RemoveKeepsSurvivor, StillRecovering

\* An exception out of a handler that changed neither files nor fields.
LEMMA RaiseStep ==
  ASSUME Running, Raise, UNCHANGED <<fs, unsynced, promised, accidents>>,
         ~(pc = "load" \/ op.then \in {"load", "replay"}) =>
           /\ \A k \in Key : promised[k] <= mem.applied_index
           /\ open => Live(fs["root"], mem, promised, accidents)
  PROVE  Running'
<1>1. ViewInv' /\ fs' \in View /\ (unsynced \subseteq View)'
  BY ViewKept DEF Running
<1>2. NoMem \in Fields /\ NoOp \in Operation
  BY DEF NoMem, NoOp, Fields, Operation
<1>3. CASE pc = "load" \/ op.then \in {"load", "replay"}
  <2>1. pc' = "down" /\ op' = NoOp /\ mem' = NoMem /\ open' = FALSE
    BY <1>3 DEF Raise
  <2>2. TypeOK'
    BY <1>1, <1>2, <2>1 DEF Running, TypeOK, Promise
  <2> QED BY <1>1, <2>1, <2>2, ToDown
<1>4. CASE ~(pc = "load" \/ op.then \in {"load", "replay"})
  <2>1. pc' = "idle" /\ op' = NoOp /\ UNCHANGED <<mem, open>>
    BY <1>4 DEF Raise, Return
  <2>2. TypeOK'
    BY <1>1, <1>2, <2>1 DEF Running, TypeOK, Promise
  <2> QED BY <1>1, <1>4, <2>1, <2>2, ToIdle
<1> QED BY <1>3, <1>4

LEMMA RecoverRaisesStep ==
  ASSUME Running, RecoverRaises
  PROVE  Running'
<1>1. pc = "recover" /\ Raise /\ UNCHANGED <<fs, unsynced, promised, accidents>>
  BY DEF RecoverRaises, Fails
<1>2. op.then \in {"load", "stage"}
  BY <1>1 DEF Running, InstallInv
<1>3. op.then = "stage" => /\ \A k \in Key : promised[k] <= mem.applied_index
                           /\ open => Live(fs["root"], mem, promised, accidents)
  BY <1>1 DEF Running, AppliedInv, Opening, LiveInv
<1> QED BY <1>1, <1>2, <1>3, RaiseStep

LEMMA OpenStep ==
  ASSUME Running, Open
  PROVE  Running'
<1>1. /\ pc' = "recover" /\ op' = [NoOp EXCEPT !.then = "load"]
      /\ UNCHANGED <<fs, unsynced, mem, open, promised, accidents>>
  BY DEF Open, history
<1>2. ViewInv' /\ fs' \in View /\ (unsynced \subseteq View)'
  BY <1>1, ViewKept DEF Running
<1>3. op' \in Operation /\ op'.then = "load"
  BY <1>1 DEF NoOp, Operation
<1>4. TypeOK'
  BY <1>1, <1>2, <1>3 DEF Running, TypeOK, Promise
<1> QED BY <1>1, <1>2, <1>3, <1>4
        DEF Running, AppliedInv, Opening, LiveInv, Serving, ReplayInv, CommitInv, InstallInv

LEMMA OpenRootStep ==
  ASSUME Running, OpenRoot
  PROVE  Running'
<1> DEFINE v == [fs EXCEPT !["root"] = NewDir]
<1>1. /\ pc = "recover" /\ pc' = "load" /\ op' = [op EXCEPT !.then = "idle"]
      /\ fs["backup"] = NoDir /\ UNCHANGED <<mem, open, promised, accidents>>
      /\ IF fs["root"] = NoDir THEN NoSync(v) ELSE UNCHANGED <<fs, unsynced>>
  BY DEF OpenRoot, Cleared, history
<1>2. op' \in Operation /\ op'.then = "idle"
  BY <1>1 DEF Running, TypeOK, Operation
<1>3. ViewInv' /\ fs' \in View /\ (unsynced \subseteq View)' /\ fs'["root"] # NoDir
  <2>1. CASE fs["root"] = NoDir
    <3>1. v \in View /\ v["root"] = NewDir /\ NewDir # NoDir
      <4>1. fs \in View /\ "root" \in Dir /\ NewDir \in Directory /\ NewDir # NoDir
        BY DirectoryFacts DEF Running, TypeOK, Dir
      <4> QED BY <4>1, ViewEdit
    <3> HIDE DEF v
    <3>2. Survivor(v) = Survivor(fs)
      BY <1>1, <2>1, <3>1 DEF Survivor
    <3>3. Whole(Survivor(v), promised, accidents')
      BY <1>1, <3>2, ViewNow
    <3> QED BY <1>1, <2>1, <3>1, <3>3, ViewChanged DEF Running
  <2>2. CASE fs["root"] # NoDir
    BY <1>1, <2>2, ViewKept DEF Running
  <2> QED BY <2>1, <2>2
<1>4. TypeOK'
  BY <1>1, <1>2, <1>3 DEF Running, TypeOK, Promise
<1> QED BY <1>1, <1>2, <1>3, <1>4
        DEF Running, AppliedInv, Opening, LiveInv, Serving, ReplayInv, CommitInv, InstallInv

LEMMA LoadStep ==
  ASSUME Running, Load
  PROVE  Running'
<1> DEFINE d == fs["root"]
           D == [d EXCEPT !.log = Complete(@)]
           J == Journal(Complete(d.log))
           v == [fs EXCEPT !["root"] = D]
<1>1. pc = "load" /\ Loadable(d.log) /\ d # NoDir
  BY DEF Load, Running, ReplayInv
<1>2. d \in Directory /\ Whole(d, promised, accidents) /\ mem \in Fields /\ fs \in View /\ "root" \in Dir
  BY <1>1, ViewNow DEF Running, TypeOK, Dir
<1>3. /\ D \in Directory /\ D.log = Complete(d.log) /\ J = Journal(d.log)
      /\ D.applied_index = d.applied_index
      /\ Loadable(D.log) /\ ~EndsTorn(D.log)
      /\ J.prepared \subseteq Entries /\ J.committed \subseteq Nat /\ J.snapshot_index \in Nat
      /\ Whole(D, promised, accidents)
  BY <1>1, <1>2, ReadJournal
<1>4. /\ IF D # d THEN Sync(v) ELSE UNCHANGED <<fs, unsynced>>
      /\ mem' = [term |-> D.term, placement_epoch |-> D.placement_epoch,
                 applied_index |-> D.applied_index, prepared |-> Journal(D.log).prepared,
                 committed |-> Journal(D.log).committed,
                 snapshot_index |-> Journal(D.log).snapshot_index]
      /\ open' = TRUE /\ pc' = "replay" /\ UNCHANGED <<op, promised, accidents>>
  BY DEF Load, Goto, history
<1> HIDE DEF D, d
<1>5. v \in View /\ v["root"] = D
  BY <1>2, <1>3, ViewEdit
<1>6. ViewInv' /\ fs' \in View /\ (unsynced \subseteq View)' /\ fs'["root"] = D
  <2>1. CASE D # d
    <3>1. Survivor(v) = D
      BY <1>3, <1>5, DirectoryFacts DEF Survivor
    <3> HIDE DEF v
    <3> QED BY <1>3, <1>4, <1>5, <2>1, <3>1, ViewChanged DEF Running
  <2>2. CASE D = d
    BY <1>4, <2>2, ViewKept DEF Running, d
  <2> QED BY <2>1, <2>2
<1>7. mem' \in Fields
  <2>1. D.term \in Nat /\ D.placement_epoch \in Nat /\ D.applied_index \in Nat
    BY <1>3, DirectoryFacts
  <2> QED BY <1>3, <1>4, <2>1 DEF Fields
<1>8. TypeOK'
  BY <1>4, <1>6, <1>7 DEF Running, TypeOK, Promise
<1>9. Replaying(fs["root"], mem)' /\ (mem.applied_index = fs["root"].applied_index)'
  BY <1>3, <1>4, <1>6 DEF Replaying
<1> QED BY <1>4, <1>6, <1>8, <1>9, ToReplaying

LEMMA LoadRaisesStep ==
  ASSUME Running, LoadRaises
  PROVE  Running'
<1>1. pc = "load" /\ Raise /\ UNCHANGED <<fs, unsynced, promised, accidents>>
  BY DEF LoadRaises, history
<1> QED BY <1>1, RaiseStep

LEMMA ReplayStep ==
  ASSUME Running, Replay
  PROVE  Running'
<1> DEFINE d == fs["root"]
<1>1. /\ pc = "replay" /\ UNCHANGED <<fs, unsynced, mem, open, promised, accidents>>
      /\ IF ToReplay = {} THEN Return
         ELSE /\ pc' = "apply"
              /\ \E e \in ToReplay : /\ \A f \in ToReplay : e.index <= f.index
                                     /\ op' = [op EXCEPT !.entry = {e}, !.then = "replay"]
  BY DEF Replay, history
<1>2. Replaying(d, mem) /\ open /\ mem.applied_index = d.applied_index /\ mem \in Fields
  BY <1>1 DEF Running, ReplayInv, TypeOK
<1>3. ViewInv' /\ fs' \in View /\ (unsynced \subseteq View)'
  BY <1>1, ViewKept DEF Running
<1>4. Whole(d, promised, accidents) /\ Promise(promised)
  BY <1>2, ViewNow, DirectoryFacts DEF Replaying, Running, TypeOK
<1>5. /\ ToReplay \subseteq Entries
      /\ \A f \in Entries : f \in ToReplay <=> HasCommitted(d.log, f) /\ f.index > d.applied_index
  BY <1>2 DEF ToReplay, Replaying, HasCommitted, Fields
<1>6. CASE ToReplay = {}
  <2>1. Live(d, mem, promised, accidents)
    BY <1>2, <1>4, <1>5, <1>6, ReplayDone
  <2>2. pc' = "idle" /\ op' = NoOp /\ NoOp \in Operation
    BY <1>1, <1>6 DEF Return, NoOp, Operation
  <2>3. TypeOK'
    BY <1>1, <1>3, <2>2 DEF Running, TypeOK, Promise
  <2>4. ASSUME NEW k \in Key PROVE promised[k] <= mem.applied_index
    <3>1. /\ promised[k] <= IndexOf(d.content[k]) /\ IndexOf(d.content[k]) <= mem.applied_index
          /\ d \in Directory
      BY <2>1 DEF Live
    <3>2. promised[k] \in Nat /\ IndexOf(d.content[k]) \in Nat /\ mem.applied_index \in Nat
      BY <1>2, <1>4, <3>1, DirectoryFacts DEF Promise, Fields
    <3> QED BY <3>1, <3>2
  <2>5. (\A k \in Key : promised[k] <= mem.applied_index)'
    BY <1>1, <2>4
  <2>6. Live(fs["root"], mem, promised, accidents)'
    BY <1>1, <2>1
  <2> QED BY <1>3, <2>2, <2>3, <2>5, <2>6, ToIdle
<1>7. CASE ToReplay # {}
  <2>1. PICK e \in ToReplay : /\ \A f \in ToReplay : e.index <= f.index
                              /\ op' = [op EXCEPT !.entry = {e}, !.then = "replay"]
    BY <1>1, <1>7
  <2>2. op' \in Operation /\ op'.entry = {e} /\ op'.then = "replay" /\ pc' = "apply"
    BY <1>1, <1>5, <1>7, <2>1 DEF Running, TypeOK, Operation
  <2>3. TheEntry' = e /\ e \in Entries
    BY <1>5, <2>2 DEF TheEntry
  <2>4. TypeOK'
    BY <1>1, <1>3, <2>2 DEF Running, TypeOK, Promise
  <2>5. /\ HasCommitted(d.log, e) /\ e.index > d.applied_index
        /\ \A f \in Entries : HasCommitted(d.log, f) /\ f.index > d.applied_index
             => e.index <= f.index
    BY <1>5, <2>1
  <2>6. ReplayInv'
    BY <1>1, <1>2, <2>2, <2>3, <2>5 DEF ReplayInv
  <2> QED BY <1>3, <2>2, <2>4, <2>6
          DEF Running, AppliedInv, Opening, LiveInv, Serving, CommitInv, InstallInv
<1> QED BY <1>6, <1>7

-----------------------------------------------------------------------------
(***************************************************************************)
(* prepare, commit and configure.                                          *)
(***************************************************************************)
LEMMA EntryOf ==
  ASSUME op \in Operation, op.entry # {}
  PROVE  TheEntry \in Entries /\ op.entry = {TheEntry}
BY DEF Operation, TheEntry

\* A request that is served outside of a rollback finds the shard live.
LEMMA RequestFacts ==
  ASSUME Running, pc = "idle"
  PROVE  /\ \A k \in Key : promised[k] <= mem.applied_index
         /\ open => Live(fs["root"], mem, promised, accidents)
BY DEF Running, AppliedInv, Opening, LiveInv

\* What a handler that is under way may rely on.
LEMMA HandlerFacts ==
  ASSUME Running, pc \in Serving, op.then # "replay"
  PROVE  /\ \A k \in Key : promised[k] <= mem.applied_index
         /\ open /\ Live(fs["root"], mem, promised, accidents)
         /\ fs["root"] # NoDir /\ fs["root"] \in Directory
         /\ Whole(fs["root"], promised, accidents)
<1>1. ~Opening
  BY DEF Running, InstallInv, CommitInv, Opening, Serving
<1>2. open /\ Live(fs["root"], mem, promised, accidents)
  BY DEF Running, LiveInv
<1>3. fs["root"] # NoDir /\ fs["root"] \in Directory
  BY <1>2, LiveIsThere
<1> QED BY <1>1, <1>2, <1>3, ViewNow DEF Running, AppliedInv

LEMMA ServedFacts ==
  ASSUME Running, Served, "rollback" \notin accidents'
  PROVE  open /\ UNCHANGED <<promised, accidents>>
BY DEF Served

LEMMA PrepareStep ==
  ASSUME Running, NEW e \in Entries, Prepare(e) \/ Commit(e), "rollback" \notin accidents'
  PROVE  Running'
<1>1. /\ pc = "idle" /\ pc' = "prepare" /\ UNCHANGED <<fs, unsynced, mem, open>> /\ Served
      /\ \/ op' = [NoOp EXCEPT !.entry = {e}]
         \/ op' = [NoOp EXCEPT !.entry = {e}, !.then = "commit"]
  BY DEF Prepare, Commit
<1>2. open /\ UNCHANGED <<promised, accidents>>
  BY <1>1, ServedFacts
<1>3. ViewInv' /\ fs' \in View /\ (unsynced \subseteq View)'
  BY <1>1, <1>2, ViewKept DEF Running
<1>4. op' \in Operation /\ op'.entry = {e} /\ op'.then \in {"idle", "commit"}
  <2>1. CASE op' = [NoOp EXCEPT !.entry = {e}]
    BY <2>1 DEF NoOp, Operation
  <2>2. CASE op' = [NoOp EXCEPT !.entry = {e}, !.then = "commit"]
    BY <2>2 DEF NoOp, Operation
  <2> QED BY <1>1, <2>1, <2>2
<1>5. TypeOK'
  BY <1>1, <1>2, <1>3, <1>4 DEF Running, TypeOK, Promise
<1>6. (\A k \in Key : promised[k] <= mem.applied_index)' /\ Live(fs["root"], mem, promised, accidents)'
  BY <1>1, <1>2, RequestFacts
<1> QED BY <1>1, <1>2, <1>3, <1>4, <1>5, <1>6, ToJournal

\* The record that is still missing.
LEMMA NextLineFacts ==
  ASSUME Running, pc \in {"prepare", "commit"}, NEW line \in NextLine
  PROVE  /\ line \in Record /\ TheEntry \in Entries
         /\ pc = "prepare" => line = PrepareLine(TheEntry) /\ line.entry = TheEntry
         /\ pc = "commit" => line = CommitLine(TheEntry.index) /\ line.index = TheEntry.index
         /\ \A i \in Nat : line = CommitLine(i) => \E e \in mem.prepared : e.index = i
<1>1. op \in Operation /\ op.entry # {}
  BY DEF Running, TypeOK, CommitInv
<1>2. TheEntry \in Entries /\ TheEntry.index \in Nat
  BY <1>1, EntryOf, EntryFacts
<1>3. CASE pc = "prepare"
  <2>1. line = PrepareLine(TheEntry)
    BY <1>3 DEF NextLine
  <2>2. line.entry = TheEntry /\ \A i \in Nat : line # CommitLine(i)
    BY <1>2, <2>1, LineTypes
  <2> QED BY <1>2, <1>3, <2>1, <2>2 DEF Record
<1>4. CASE pc = "commit"
  <2>1. line = CommitLine(TheEntry.index) /\ TheEntry \in mem.prepared
    BY <1>4 DEF NextLine, Running, CommitInv
  <2>2. line.index = TheEntry.index /\ \A i \in Nat : line = CommitLine(i) => i = TheEntry.index
    BY <1>2, <2>1, LineTypes
  <2> QED BY <1>2, <1>4, <2>1, <2>2 DEF Record
<1> QED BY <1>3, <1>4

\* Where prepare and commit go on once the record is in the dictionaries.
LEMMA AfterRecord ==
  ASSUME Running, pc \in {"prepare", "commit"}, ViewInv', fs' \in View, (unsynced \subseteq View)',
         mem' \in Fields, UNCHANGED <<open, promised, accidents>>,
         Live(fs["root"], mem, promised, accidents)',
         mem'.applied_index = mem.applied_index, mem.prepared \subseteq mem'.prepared,
         pc = "prepare" => TheEntry \in mem'.prepared,
         pc = "commit" => TheEntry.index \in mem'.committed,
         CASE pc = "prepare" /\ op.then = "idle" -> Return
           [] pc = "prepare" /\ op.then = "commit" ->
                pc' = "commit" /\ op' = [op EXCEPT !.then = "idle"]
           [] pc = "commit" /\ TheEntry.index > mem.applied_index -> Goto("apply")
           [] OTHER -> Return
  PROVE  Running'
<1>1. op \in Operation /\ op.entry # {} /\ pc \in Serving /\ op.then # "replay"
  BY DEF Running, TypeOK, CommitInv, Serving
<1>2. (\A k \in Key : promised[k] <= mem.applied_index)' /\ open'
  BY <1>1, HandlerFacts
<1>3. CASE pc' = "idle" /\ op' = NoOp
  <2>1. NoOp \in Operation
    BY DEF NoOp, Operation
  <2>2. TypeOK'
    BY <1>3, <2>1 DEF Running, TypeOK, Promise
  <2> QED BY <1>2, <1>3, <2>2, ToIdle
<1>4. CASE pc = "prepare" /\ pc' = "commit" /\ op' = [op EXCEPT !.then = "idle"]
  <2>1. op' \in Operation /\ op'.entry = op.entry /\ op'.then = "idle"
    BY <1>1, <1>4 DEF Operation
  <2>2. TheEntry' = TheEntry
    BY <2>1 DEF TheEntry
  <2>3. TypeOK'
    BY <2>1 DEF Running, TypeOK, Promise
  <2> QED BY <1>1, <1>2, <1>4, <2>1, <2>2, <2>3, ToJournal
<1>5. CASE pc = "commit" /\ TheEntry.index > mem.applied_index /\ pc' = "apply" /\ op' = op
  <2>1. op.then = "idle" /\ TheEntry \in mem.prepared
    BY <1>5 DEF Running, CommitInv
  <2>2. TheEntry' = TheEntry
    BY <1>5 DEF TheEntry
  <2>3. TypeOK'
    BY <1>5 DEF Running, TypeOK, Promise
  <2> QED BY <1>1, <1>2, <1>5, <2>1, <2>2, <2>3, ToApply
<1>6. \/ pc' = "idle" /\ op' = NoOp
      \/ pc = "prepare" /\ pc' = "commit" /\ op' = [op EXCEPT !.then = "idle"]
      \/ pc = "commit" /\ TheEntry.index > mem.applied_index /\ pc' = "apply" /\ op' = op
  BY DEF Return, Goto
<1> QED BY <1>3, <1>4, <1>5, <1>6

LEMMA JournalStepStep ==
  ASSUME Running, JournalStep
  PROVE  Running'
<1>1. /\ pc \in {"prepare", "commit"} /\ UNCHANGED <<open, promised, accidents>>
      /\ CASE pc = "prepare" /\ op.then = "idle" -> Return
           [] pc = "prepare" /\ op.then = "commit" ->
                pc' = "commit" /\ op' = [op EXCEPT !.then = "idle"]
           [] pc = "commit" /\ TheEntry.index > mem.applied_index -> Goto("apply")
           [] OTHER -> Return
  BY DEF JournalStep, history
<1>2. pc \in Serving /\ op.then # "replay" /\ mem \in Fields /\ fs \in View /\ "root" \in Dir
  BY <1>1 DEF Running, TypeOK, CommitInv, Serving, Dir
<1> DEFINE d == fs["root"]
<1>3. /\ Live(d, mem, promised, accidents) /\ Whole(d, promised, accidents)
      /\ accidents \subseteq {"append"} /\ Promise(promised) /\ d \in Directory
  BY <1>2, HandlerFacts DEF Running, TypeOK
<1>4. CASE NextLine = {}
  <2>1. UNCHANGED <<fs, unsynced, mem>>
    BY <1>4 DEF JournalStep
  <2>2. ViewInv' /\ fs' \in View /\ (unsynced \subseteq View)'
    BY <1>1, <2>1, ViewKept DEF Running
  <2>3. /\ pc = "prepare" => TheEntry \in mem.prepared
        /\ pc = "commit" => TheEntry.index \in mem.committed
    BY <1>1, <1>4 DEF NextLine
  <2>4. Live(fs["root"], mem, promised, accidents)'
    BY <1>1, <1>3, <2>1
  <2> QED BY <1>1, <1>2, <2>1, <2>2, <2>3, <2>4, AfterRecord
<1>5. CASE NextLine # {}
  <2> DEFINE D(line) == [d EXCEPT !.log = Appended(@, line)]
             v(line) == [fs EXCEPT !["root"] = D(line)]
  <2>1. PICK line \in NextLine :
          /\ Sync([fs EXCEPT !["root"].log = Appended(@, line)])
          /\ mem' = IF pc = "prepare" THEN [mem EXCEPT !.prepared = @ \cup {line.entry}]
                    ELSE [mem EXCEPT !.committed = @ \cup {line.index}]
    BY <1>5 DEF JournalStep
  <2>2. Sync(v(line))
    BY <2>1
  <2>3. /\ line \in Record /\ TheEntry \in Entries
        /\ pc = "prepare" => line = PrepareLine(TheEntry) /\ line.entry = TheEntry
        /\ pc = "commit" => line = CommitLine(TheEntry.index) /\ line.index = TheEntry.index
        /\ \A i \in Nat : line = CommitLine(i) => \E e \in mem.prepared : e.index = i
    BY <1>1, NextLineFacts
  <2>4. /\ Whole(D(line), promised, accidents)
        /\ \A e \in Entries : line = PrepareLine(e) =>
             Live(D(line), [mem EXCEPT !.prepared = @ \cup {e}], promised, accidents)
        /\ \A i \in Nat : line = CommitLine(i) =>
             Live(D(line), [mem EXCEPT !.committed = @ \cup {i}], promised, accidents)
    BY <1>2, <1>3, <2>3, RecordWrite
  <2>5. TheEntry.index \in Nat
    BY <2>3, EntryFacts
  <2>6. Live(D(line), mem', promised, accidents)
    <3>1. CASE pc = "prepare"
      BY <2>1, <2>3, <2>4, <3>1
    <3>2. CASE pc = "commit"
      BY <2>1, <2>3, <2>4, <2>5, <3>2
    <3> QED BY <1>1, <3>1, <3>2
  <2>7. /\ mem' \in Fields /\ mem'.applied_index = mem.applied_index
        /\ mem.prepared \subseteq mem'.prepared
        /\ pc = "prepare" => TheEntry \in mem'.prepared
        /\ pc = "commit" => TheEntry.index \in mem'.committed
    <3>1. CASE pc = "prepare"
      <4>1. mem' = [mem EXCEPT !.prepared = @ \cup {TheEntry}]
        BY <2>1, <2>3, <3>1
      <4> QED BY <1>2, <2>3, <3>1, <4>1 DEF Fields
    <3>2. CASE pc = "commit"
      <4>1. mem' = [mem EXCEPT !.committed = @ \cup {TheEntry.index}]
        BY <2>1, <2>3, <3>2
      <4> QED BY <1>2, <2>5, <3>2, <4>1 DEF Fields
    <3> QED BY <1>1, <3>1, <3>2
  <2>8. D(line) \in Directory
    BY <2>4 DEF Whole
  <2> HIDE DEF D
  <2>9. v(line) \in View /\ v(line)["root"] = D(line)
    BY <1>2, <2>8, ViewEdit
  <2>10. Survivor(v(line)) = D(line)
    BY <2>8, <2>9, DirectoryFacts DEF Survivor
  <2> HIDE DEF v
  <2>11. ViewInv' /\ fs' = v(line) /\ fs' \in View /\ (unsynced \subseteq View)'
    BY <1>1, <2>2, <2>4, <2>9, <2>10, ViewChanged DEF Running
  <2>12. Live(fs["root"], mem, promised, accidents)'
    BY <1>1, <2>6, <2>9, <2>11
  <2> QED BY <1>1, <2>7, <2>11, <2>12, AfterRecord
<1> QED BY <1>4, <1>5

\* What an interrupted append leaves.
LEMMA LineCutFacts ==
  ASSUME Running, pc \in {"prepare", "commit"}, NEW line \in NextLine, NEW v \in LineCut(line)
  PROVE  /\ v \in View /\ Survivor(v) = v["root"] /\ Whole(v["root"], promised, accidents)
         /\ \A acc : accidents \subseteq acc /\ (EndsTorn(v["root"].log) => "append" \in acc) =>
              Live(v["root"], mem, promised, acc)
<1> DEFINE d == fs["root"]
           D(l) == [d EXCEPT !.log = Appended(@, l)]
<1>1. pc \in Serving /\ op.then # "replay" /\ mem \in Fields /\ fs \in View /\ "root" \in Dir
  BY DEF Running, TypeOK, CommitInv, Serving, Dir
<1>2. /\ Live(d, mem, promised, accidents) /\ Whole(d, promised, accidents)
      /\ accidents \subseteq {"append"} /\ Promise(promised) /\ d \in Directory
  BY <1>1, HandlerFacts DEF Running, TypeOK
<1>3. line \in Record /\ \A i \in Nat : line = CommitLine(i) => \E e \in mem.prepared : e.index = i
  BY NextLineFacts
<1>4. Whole(D(line), promised, accidents) /\ Live(D(line), mem, promised, accidents)
  BY <1>1, <1>2, <1>3, RecordWrite
<1>5. Whole(D(Torn), promised, accidents)
  BY <1>2, TornWrite
<1>6. ASSUME NEW acc, accidents \subseteq acc, "append" \in acc
      PROVE  Live(D(Torn), mem, promised, acc)
  <2>1. Live(d, mem, promised, acc)
    BY <1>2, <1>6, MoreAccidents
  <2> QED BY <1>2, <1>6, <2>1, TornWrite
<1>7. EndsTorn(D(Torn).log)
  <2>1. LogOK(d.log) /\ LogOK(Appended(d.log, Torn)) /\ EndsTorn(Appended(d.log, Torn))
    BY <1>2, DirectoryFacts, TornFacts
  <2>2. D(Torn).log = Appended(d.log, Torn)
    BY <1>2, <2>1, LogEdit
  <2> QED BY <2>1, <2>2
<1>8. v = fs \/ \E l \in {Torn, line} : v = [fs EXCEPT !["root"] = D(l)]
  BY DEF LineCut
<1>9. D(line) \in Directory /\ D(Torn) \in Directory
  BY <1>4, <1>5 DEF Whole
<1> HIDE DEF D
<1>10. CASE v = fs
  <2>1. Survivor(v) = v["root"]
    BY <1>2, <1>10, DirectoryFacts DEF Survivor
  <2> QED BY <1>1, <1>2, <1>10, <2>1, MoreAccidents
<1>11. CASE v = [fs EXCEPT !["root"] = D(line)]
  <2>1. v \in View /\ v["root"] = D(line)
    <3>1. LET w == [fs EXCEPT !["root"] = D(line)] IN w \in View /\ w["root"] = D(line)
      BY <1>1, <1>9, ViewEdit
    <3> QED BY <1>11, <3>1
  <2>2. Survivor(v) = v["root"]
    BY <1>9, <2>1, DirectoryFacts DEF Survivor
  <2> QED BY <1>4, <2>1, <2>2, MoreAccidents
<1>12. CASE v = [fs EXCEPT !["root"] = D(Torn)]
  <2>1. v \in View /\ v["root"] = D(Torn)
    <3>1. LET w == [fs EXCEPT !["root"] = D(Torn)] IN w \in View /\ w["root"] = D(Torn)
      BY <1>1, <1>9, ViewEdit
    <3> QED BY <1>12, <3>1
  <2>2. Survivor(v) = v["root"]
    BY <1>9, <2>1, DirectoryFacts DEF Survivor
  <2> QED BY <1>5, <1>6, <1>7, <2>1, <2>2
<1> QED BY <1>8, <1>10, <1>11, <1>12

LEMMA JournalRaisesStep ==
  ASSUME Running, JournalRaises
  PROVE  Running'
<1>1. /\ pc \in {"prepare", "commit"} /\ pc' = "idle" /\ op' = NoOp /\ UNCHANGED <<mem, open>>
      /\ NextLine # {}
  BY DEF JournalRaises, Return
<1>2. pc \in Serving /\ op.then # "replay" /\ NoOp \in Operation
  BY <1>1 DEF Running, CommitInv, Serving, NoOp, Operation
<1>3. fs["root"] # NoDir /\ open /\ \A k \in Key : promised[k] <= mem.applied_index
  BY <1>2, HandlerFacts
<1>4. /\ promised' = promised
      /\ \E line \in NextLine : \E v \in LineCut(line) :
           /\ IF v = fs THEN UNCHANGED <<fs, unsynced>> ELSE NoSync(v)
           /\ accidents' = accidents \cup (IF EndsTorn(v["root"].log) THEN {"append"} ELSE {})
  BY <1>3 DEF JournalRaises, Fails
<1>11. PICK line \in NextLine : \E v \in LineCut(line) :
           /\ IF v = fs THEN UNCHANGED <<fs, unsynced>> ELSE NoSync(v)
           /\ accidents' = accidents \cup (IF EndsTorn(v["root"].log) THEN {"append"} ELSE {})
  BY <1>4
<1>5. PICK v \in LineCut(line) :
           /\ IF v = fs THEN UNCHANGED <<fs, unsynced>> ELSE NoSync(v)
           /\ accidents' = accidents \cup (IF EndsTorn(v["root"].log) THEN {"append"} ELSE {})
  BY <1>11
<1>6. /\ v \in View /\ Survivor(v) = v["root"] /\ Whole(v["root"], promised, accidents)
      /\ Live(v["root"], mem, promised, accidents')
  BY <1>1, <1>5, LineCutFacts
<1>7. accidents \subseteq accidents' /\ accidents' \subseteq {"append"}
  BY <1>5 DEF Running, TypeOK
<1>8. ViewInv' /\ fs' = v /\ fs' \in View /\ (unsynced \subseteq View)'
  <2>1. CASE v = fs
    BY <1>4, <1>5, <1>7, <2>1, ViewKept DEF Running
  <2>2. CASE v # fs
    <3>1. Whole(Survivor(v), promised, accidents')
      BY <1>6, <1>7, MoreAccidents
    <3> QED BY <1>4, <1>5, <1>6, <1>7, <2>2, <3>1, ViewChanged DEF Running
  <2> QED BY <2>1, <2>2
<1>9. TypeOK'
  BY <1>1, <1>2, <1>4, <1>7, <1>8 DEF Running, TypeOK, Promise
<1>10. (\A k \in Key : promised[k] <= mem.applied_index)' /\ Live(fs["root"], mem, promised, accidents)'
  BY <1>1, <1>3, <1>4, <1>6, <1>8
<1> QED BY <1>1, <1>8, <1>9, <1>10, ToIdle

\* The shard's fields cover what was answered for.
LEMMA LiveCovers ==
  ASSUME NEW d, NEW m \in Fields, NEW prom, NEW acc, Promise(prom), Live(d, m, prom, acc)
  PROVE  \A k \in Key : prom[k] <= m.applied_index
<1>1. SUFFICES ASSUME NEW k \in Key PROVE prom[k] <= m.applied_index
  OBVIOUS
<1>2. /\ prom[k] <= IndexOf(d.content[k]) /\ IndexOf(d.content[k]) <= m.applied_index
      /\ d \in Directory
  BY DEF Live
<1>3. prom[k] \in Nat /\ IndexOf(d.content[k]) \in Nat /\ m.applied_index \in Nat
  BY <1>2, DirectoryFacts DEF Promise, Fields
<1> QED BY <1>2, <1>3

LEMMA ApplyEntryStep ==
  ASSUME Running, ApplyEntry
  PROVE  Running'
<1> DEFINE d == fs["root"]
           e == TheEntry
           D == [d EXCEPT !.content[KeyOf[e.mut]] = e.mut]
           M == [mem EXCEPT !.applied_index = e.index]
           v == [fs EXCEPT !["root"] = D]
<1>1. /\ pc = "apply" /\ open /\ e.mut \notin Rejected /\ mem' = M /\ pc' = "publish"
      /\ UNCHANGED <<op, open, promised, accidents>>
      /\ Sync([fs EXCEPT !["root"].content[KeyOf[e.mut]] = e.mut])
  BY DEF ApplyEntry, Goto, history
<1>2. Sync(v)
  BY <1>1
<1>3. /\ op \in Operation /\ op.entry # {} /\ op.then \in {"idle", "replay"} /\ mem \in Fields
      /\ fs \in View /\ Promise(promised) /\ "root" \in Dir
  BY <1>1 DEF Running, TypeOK, CommitInv, Dir
<1>4. e \in Entries /\ e' = e /\ e.index \in Nat
  BY <1>1, <1>3, EntryOf, EntryFacts DEF TheEntry
<1>5. M \in Fields /\ M.applied_index = e.index /\ M.prepared = mem.prepared /\ M.committed = mem.committed
  BY <1>3, <1>4 DEF Fields
<1>6. Whole(D, promised, accidents) => ViewInv' /\ fs' = v /\ TypeOK' /\ fs'["root"] = D
  <2>1. SUFFICES ASSUME Whole(D, promised, accidents)
                 PROVE  ViewInv' /\ fs' = v /\ TypeOK' /\ fs'["root"] = D
    OBVIOUS
  <2>2. D \in Directory
    BY <2>1 DEF Whole
  <2> HIDE DEF D
  <2>3. v \in View /\ v["root"] = D
    BY <1>3, <2>2, ViewEdit
  <2>4. Survivor(v) = D
    BY <2>2, <2>3, DirectoryFacts DEF Survivor
  <2> HIDE DEF v
  <2>5. ViewInv' /\ fs' = v /\ fs' \in View /\ (unsynced \subseteq View)'
    BY <1>1, <1>2, <2>1, <2>3, <2>4, ViewChanged DEF Running
  <2>6. TypeOK'
    BY <1>1, <1>5, <2>5 DEF Running, TypeOK, Promise
  <2> QED BY <2>3, <2>5, <2>6
<1>7. CASE op.then = "idle"
  <2>1. /\ Live(d, mem, promised, accidents) /\ Whole(d, promised, accidents)
    BY <1>1, <1>7, HandlerFacts DEF Serving
  <2>2. e \in mem.prepared /\ e.index \in mem.committed /\ e.index > mem.applied_index
    BY <1>1, <1>3, <1>7 DEF Running, CommitInv
  <2>3. Whole(D, promised, accidents) /\ Live(D, M, promised, accidents) /\ D.content[KeyOf[e.mut]] = e.mut
    BY <1>1, <1>3, <1>4, <2>1, <2>2, ApplyWrite
  <2> HIDE DEF D, M, v, d, e
  <2>4. TypeOK' /\ ViewInv' /\ fs'["root"] = D
    BY <1>6, <2>3
  <2>5. (\A k \in Key : promised[k] <= mem.applied_index)'
    BY <1>1, <1>3, <1>5, <2>3, LiveCovers
  <2>6. Live(fs["root"], mem, promised, accidents)'
    BY <1>1, <2>3, <2>4
  <2>7. /\ e' \in mem'.prepared /\ e'.index \in mem'.committed /\ mem'.applied_index = e'.index
        /\ fs'["root"].content[KeyOf[e'.mut]] = e'.mut
    BY <1>1, <1>4, <1>5, <2>2, <2>3, <2>4
  <2> QED BY <1>1, <1>7, <2>4, <2>5, <2>6, <2>7, ToApply DEF e
<1>8. CASE op.then = "replay"
  <2>1. /\ Replaying(d, mem) /\ HasCommitted(d.log, e) /\ e.index > d.applied_index
        /\ \A f \in Entries : HasCommitted(d.log, f) /\ f.index > d.applied_index
            => e.index <= f.index
    BY <1>1, <1>8 DEF Running, ReplayInv
  <2>2. Whole(d, promised, accidents)
    BY <2>1, ViewNow, DirectoryFacts DEF Replaying
  <2>3. /\ Whole(D, promised, accidents) /\ Replaying(D, M)
        /\ D.log = d.log /\ D.applied_index = d.applied_index
        /\ D.content[KeyOf[e.mut]] = e.mut
    BY <1>1, <1>3, <1>4, <2>1, <2>2, ReplayWrite
  <2> HIDE DEF D, M, v, d, e
  <2>4. TypeOK' /\ ViewInv' /\ fs'["root"] = D
    BY <1>6, <2>3
  <2>5. ReplayInv'
    <3>1. /\ Replaying(fs'["root"], mem') /\ open' /\ op'.entry # {} /\ HasCommitted(fs'["root"].log, e')
          /\ e'.index > fs'["root"].applied_index
          /\ \A f \in Entries : HasCommitted(fs'["root"].log, f) /\ f.index > fs'["root"].applied_index
              => e'.index <= f.index
          /\ mem'.applied_index = e'.index
          /\ fs'["root"].content[KeyOf[e'.mut]] = e'.mut
      BY <1>1, <1>3, <1>4, <1>5, <2>1, <2>3, <2>4
    <3> QED BY <1>1, <3>1 DEF ReplayInv, e
  <2> QED BY <1>1, <1>8, <2>4, <2>5
          DEF Running, AppliedInv, Opening, LiveInv, Serving, CommitInv, InstallInv
<1> QED BY <1>3, <1>7, <1>8

LEMMA ApplyRaisesStep ==
  ASSUME Running, ApplyRaises \/ PublishRaises
  PROVE  Running'
<1>1. /\ pc \in {"apply", "publish"} /\ Raise /\ UNCHANGED <<fs, unsynced, promised, accidents>>
  BY DEF ApplyRaises, PublishRaises, Fails, history
<1>2. op.then \in {"idle", "replay"}
  BY <1>1 DEF Running, CommitInv
<1>3. op.then = "idle" => /\ \A k \in Key : promised[k] <= mem.applied_index
                          /\ open => Live(fs["root"], mem, promised, accidents)
  BY <1>1, HandlerFacts DEF Serving
<1> QED BY <1>1, <1>2, <1>3, RaiseStep

LEMMA ConfigureStep ==
  ASSUME Running, NEW c \in Configs, Configure(c), "rollback" \notin accidents'
  PROVE  Running'
<1>1. /\ pc = "idle" /\ pc' = "publish" /\ op' = NoOp /\ Served
      /\ mem' = [mem EXCEPT !.term = c[1], !.placement_epoch = c[2]]
      /\ UNCHANGED <<fs, unsynced, open>>
  BY DEF Configure
<1>2. open /\ UNCHANGED <<promised, accidents>>
  BY <1>1, ServedFacts
<1>3. ViewInv' /\ fs' \in View /\ (unsynced \subseteq View)'
  BY <1>1, <1>2, ViewKept DEF Running
<1>4. NoOp \in Operation /\ NoOp.entry = {} /\ NoOp.then = "idle"
  BY DEF NoOp, Operation
<1>5. mem \in Fields /\ c \in Nat \X Nat
  BY StorageAssumption DEF Running, TypeOK
<1>6. /\ mem' \in Fields /\ mem'.applied_index = mem.applied_index /\ mem'.prepared = mem.prepared
      /\ mem'.committed = mem.committed /\ mem'.snapshot_index = mem.snapshot_index
  BY <1>1, <1>5 DEF Fields
<1>7. TypeOK'
  BY <1>1, <1>2, <1>3, <1>4, <1>6 DEF Running, TypeOK, Promise
<1>8. Live(fs["root"], mem, promised, accidents)
  BY <1>1, <1>2, RequestFacts
<1>9. Live(fs["root"], mem, promised, accidents)'
  BY <1>1, <1>2, <1>6, <1>8 DEF Live
<1>10. (\A k \in Key : promised[k] <= mem.applied_index)'
  BY <1>1, <1>2, <1>6, RequestFacts
<1> QED BY <1>1, <1>2, <1>3, <1>4, <1>7, <1>9, <1>10, ToApply

\* The two views that the rename of the state file leaves.
LEMMA PublishedViews ==
  ASSUME Running, PublishState, fs["root"] \in Directory,
         Whole(fs["root"], promised', accidents), Whole(Published(fs["root"], mem), promised', accidents)
  PROVE  ViewInv' /\ fs' \in View /\ (unsynced \subseteq View)' /\ fs'["root"] = Published(fs["root"], mem)
<1> DEFINE d == fs["root"]
           D == Published(d, mem)
<1>1. d # NoDir /\ fs \in View /\ "root" \in Dir
  BY DirectoryFacts DEF Running, TypeOK, Dir
<1>2. fs' = [fs EXCEPT !["root"] = D] /\ unsynced' = {fs} /\ accidents' = accidents
  BY <1>1 DEF PublishState, WithState, Published
<1>3. D \in Directory
  BY DEF Whole
<1> HIDE DEF D
<1>4. fs' \in View /\ fs'["root"] = D
  <2>1. LET w == [fs EXCEPT !["root"] = D] IN w \in View /\ w["root"] = D
    BY <1>1, <1>3, ViewEdit
  <2> QED BY <1>2, <2>1
<1>5. Survivor(fs) = d /\ Survivor(fs') = D
  BY <1>1, <1>3, <1>4, DirectoryFacts DEF Survivor
<1>6. Views' = {fs, fs'}
  BY <1>2 DEF Views
<1>7. \A w \in Views' : Whole(Survivor(w), promised', accidents')
  BY <1>2, <1>5, <1>6 DEF D
<1>8. ViewInv'
  BY <1>7 DEF ViewInv
<1> QED BY <1>1, <1>2, <1>4, <1>8 DEF D

LEMMA PublishStateStep ==
  ASSUME Running, PublishState
  PROVE  Running'
<1> DEFINE d == fs["root"]
           D == Published(d, mem)
<1>1. /\ pc = "publish" /\ UNCHANGED <<mem, open, accidents>>
      /\ promised' = IF op.entry = {} \/ op.then # "idle" THEN promised
                     ELSE [promised EXCEPT ![KeyOf[TheEntry.mut]] = TheEntry.index]
      /\ IF op.then = "replay" THEN pc' = "replay" /\ op' = NoOp ELSE pc' = "idle" /\ op' = NoOp
  BY DEF PublishState, Return
<1>2. /\ op \in Operation /\ op.then \in {"idle", "replay"} /\ mem \in Fields
      /\ Promise(promised) /\ NoOp \in Operation
  BY <1>1 DEF Running, TypeOK, CommitInv, NoOp, Operation
<1>3. CASE op.then = "replay"
  <2> DEFINE e == TheEntry
  <2>1. /\ Replaying(d, mem) /\ open /\ op.entry # {} /\ HasCommitted(d.log, e)
        /\ e.index > d.applied_index
        /\ \A f \in Entries : HasCommitted(d.log, f) /\ f.index > d.applied_index
            => e.index <= f.index
        /\ mem.applied_index = e.index /\ d.content[KeyOf[e.mut]] = e.mut
    BY <1>1, <1>3 DEF Running, ReplayInv
  <2>2. e \in Entries /\ promised' = promised
    BY <1>1, <1>2, <1>3, <2>1, EntryOf
  <2>3. Whole(d, promised, accidents) /\ d \in Directory
    BY <2>1, ViewNow, DirectoryFacts DEF Replaying
  <2> HIDE DEF e
  <2>4. Whole(D, promised, accidents) /\ Replaying(D, mem) /\ D.applied_index = mem.applied_index
    BY <1>2, <2>1, <2>2, <2>3, ReplayedWrite
  <2> HIDE DEF D, d
  <2>5. ViewInv' /\ fs' \in View /\ (unsynced \subseteq View)' /\ fs'["root"] = D
    BY <2>2, <2>3, <2>4, PublishedViews DEF D, d
  <2>6. TypeOK'
    BY <1>1, <1>2, <1>3, <2>2, <2>5 DEF Running, TypeOK, Promise
  <2>7. Replaying(fs["root"], mem)' /\ open' /\ (mem.applied_index = fs["root"].applied_index)'
    BY <1>1, <2>1, <2>4, <2>5
  <2> QED BY <1>1, <1>3, <2>5, <2>6, <2>7, ToReplaying
<1>4. CASE op.then = "idle"
  <2>1. /\ open /\ Live(d, mem, promised, accidents) /\ d \in Directory
        /\ Whole(d, promised, accidents)
    BY <1>1, <1>4, HandlerFacts DEF Serving
  <2>2. Promise(promised') /\ Whole(d, promised', accidents) /\ Live(d, mem, promised', accidents)
    <3>1. CASE op.entry = {}
      BY <1>1, <1>2, <2>1, <3>1
    <3>2. CASE op.entry # {}
      <4> DEFINE e == TheEntry
      <4>1. e \in Entries /\ promised' = [promised EXCEPT ![KeyOf[e.mut]] = e.index]
        BY <1>1, <1>2, <1>4, <3>2, EntryOf
      <4>2. /\ e \in mem.prepared /\ e.index \in mem.committed /\ mem.applied_index = e.index
            /\ d.content[KeyOf[e.mut]] = e.mut
        BY <1>1, <1>4, <3>2 DEF Running, CommitInv
      <4> HIDE DEF e, d
      <4>3. e.mut \notin Rejected
        <5>1. ContentOK(d.content) /\ e.mut # NoMutation /\ KeyOf[e.mut] \in Key
          BY <2>1, <4>1, DirectoryFacts, EntryFacts
        <5> QED BY <4>2, <5>1 DEF ContentOK
      <4> QED BY <1>2, <2>1, <4>1, <4>2, <4>3, AnswerKept
    <3> QED BY <3>1, <3>2
  <2>3. Whole(D, promised', accidents) /\ Live(D, mem, promised', accidents)
    BY <1>2, <2>2, StateWrite
  <2> HIDE DEF D, d
  <2>4. ViewInv' /\ fs' \in View /\ (unsynced \subseteq View)' /\ fs'["root"] = D
    BY <2>1, <2>2, <2>3, PublishedViews DEF D, d
  <2>5. TypeOK'
    BY <1>1, <1>2, <1>4, <2>2, <2>4 DEF Running, TypeOK, Promise
  <2>6. Live(fs["root"], mem, promised, accidents)'
    BY <1>1, <2>3, <2>4
  <2>7. \A k \in Key : promised'[k] <= mem.applied_index
    BY <1>2, <2>2, LiveCovers
  <2>8. (\A k \in Key : promised[k] <= mem.applied_index)'
    BY <1>1, <2>7
  <2> QED BY <1>1, <1>4, <2>4, <2>5, <2>6, <2>8, ToIdle
<1> QED BY <1>2, <1>3, <1>4

-----------------------------------------------------------------------------
(***************************************************************************)
(* install_snapshot.                                                       *)
(***************************************************************************)
LEMMA InstallSnapshotStep ==
  ASSUME Running, NEW i \in Snapshots, NEW c \in Configs, InstallSnapshot(i, c)
  PROVE  Running'
<1>1. /\ pc = "idle" /\ pc' = "recover" /\ i >= mem.applied_index
      /\ op' = [NoOp EXCEPT !.index = i, !.config = c, !.then = "stage", !.closed = ~open]
      /\ UNCHANGED <<fs, unsynced, mem, open, promised, accidents>>
  BY DEF InstallSnapshot, history
<1>2. ViewInv' /\ fs' \in View /\ (unsynced \subseteq View)'
  BY <1>1, ViewKept DEF Running
<1>3. i \in Nat /\ c \in Nat \X Nat /\ open \in BOOLEAN /\ mem \in Fields /\ Promise(promised)
  BY StorageAssumption DEF Running, TypeOK
<1>4. /\ op' \in Operation /\ op'.index = i /\ op'.config = c /\ op'.then = "stage"
      /\ op'.closed = ~open
  BY <1>1, <1>3 DEF NoOp, Operation
<1>5. TypeOK'
  BY <1>1, <1>2, <1>4 DEF Running, TypeOK, Promise
<1>6. \A k \in Key : promised[k] <= mem.applied_index
  BY <1>1, RequestFacts
<1>7. ASSUME NEW k \in Key PROVE promised[k] <= i
  <2>1. promised[k] \in Nat /\ mem.applied_index \in Nat /\ promised[k] <= mem.applied_index
    BY <1>3, <1>6 DEF Promise, Fields
  <2> QED BY <1>1, <1>3, <2>1
<1>8. Arguments'
  BY <1>1, <1>4, <1>7 DEF Arguments
<1>9. /\ (\A k \in Key : promised[k] <= mem.applied_index)'
      /\ open' => Live(fs["root"], mem, promised, accidents)'
  BY <1>1, <1>6, RequestFacts
<1> QED BY <1>1, <1>2, <1>4, <1>5, <1>8, <1>9, ToStage

\* What install_snapshot may rely on until the swap.
LEMMA StageFacts ==
  ASSUME Running, pc \in {"stage", "state"} \/ (pc = "recover" /\ op.then = "stage")
  PROVE  /\ \A k \in Key : promised[k] <= mem.applied_index
         /\ open => Live(fs["root"], mem, promised, accidents)
         /\ op.closed = ~open /\ Arguments /\ op \in Operation
         /\ op.index \in Nat /\ op.config \in Nat \X Nat
<1>1. ~Opening
  BY DEF Opening
<1>2. op.closed = ~open /\ (open => Live(fs["root"], mem, promised, accidents))
  BY DEF Running, LiveInv
<1>3. op \in Operation /\ op.index \in Nat /\ op.config \in Nat \X Nat
  BY DEF Running, TypeOK, Operation
<1> QED BY <1>1, <1>2, <1>3 DEF Running, AppliedInv, InstallInv, Arguments

\* A write in the stage directory changes no shard.
LEMMA StageWrite ==
  ASSUME Running, NEW D \in Directory, Sync([fs EXCEPT !["stage"] = D]),
         promised' = promised, accidents' = accidents
  PROVE  /\ ViewInv' /\ fs' \in View /\ (unsynced \subseteq View)'
         /\ fs'["stage"] = D /\ fs'["root"] = fs["root"]
<1> DEFINE v == [fs EXCEPT !["stage"] = D]
<1>1. fs \in View /\ "stage" \in Dir /\ "root" \in Dir /\ "backup" \in Dir
  BY DEF Running, TypeOK, Dir
<1>2. v \in View /\ v["stage"] = D /\ \A q \in Dir : q # "stage" => v[q] = fs[q]
  BY <1>1, ViewEdit
<1>3. Sync(v)
  OBVIOUS
<1> HIDE DEF v
<1>4. Survivor(v) = Survivor(fs) /\ v["root"] = fs["root"]
  BY <1>1, <1>2 DEF Survivor
<1>5. Whole(Survivor(v), promised, accidents')
  BY <1>4, ViewNow
<1> QED BY <1>2, <1>3, <1>4, <1>5, ViewChanged DEF Running

\* The stage directory with its collection, then with its journal, then with its state.
LEMMA StageDirectories ==
  ASSUME NEW i \in Nat
  PROVE  LET C == [NewDir EXCEPT !.content = Source(i).content]
             L == [NewDir EXCEPT !.content = Source(i).content, !.log = <<SnapshotLine(i)>>]
         IN  /\ C \in Directory /\ L \in Directory
             /\ [C EXCEPT !.log = Appended(@, SnapshotLine(i))] = L
             /\ \A c : [L EXCEPT !.term = c[1], !.placement_epoch = c[2], !.applied_index = i]
                         = Staged(c, i)
<1> DEFINE c0 == Source(i).content
           l0 == <<SnapshotLine(i)>>
<1>1. /\ ContentOK(c0) /\ LogOK(<<>>) /\ LogOK(l0)
      /\ Appended(<<>>, SnapshotLine(i)) = l0
  BY SourceFacts, EmptyLog, SnapshotLog
<1>2. \A p : Staged(p, i) = [term |-> p[1], placement_epoch |-> p[2], applied_index |-> i,
                            log |-> l0, content |-> c0]
  BY DEF Staged
<1> HIDE DEF c0, l0
<1>3. c0 \in Content /\ <<>> \in Seq(Line) /\ l0 \in Seq(Line)
  BY <1>1 DEF ContentOK, LogOK
<1> DEFINE N == [term |-> 0, placement_epoch |-> 0, applied_index |-> 0, log |-> <<>>,
                 content |-> EmptyDisk.content]
           C == [term |-> 0, placement_epoch |-> 0, applied_index |-> 0, log |-> <<>>, content |-> c0]
           L == [term |-> 0, placement_epoch |-> 0, applied_index |-> 0, log |-> l0, content |-> c0]
           D == [term : Nat, placement_epoch : Nat, applied_index : Nat, log : Seq(Line),
                 content : Content]
<1>4. NewDir = N
  BY DEF NewDir
<1>5. [N EXCEPT !.content = c0] = C
  OBVIOUS
<1>6. [C EXCEPT !.log = l0] = L
  OBVIOUS
<1>7. [C EXCEPT !.log = Appended(@, SnapshotLine(i))] = L
  BY <1>1
<1>8. C \in D /\ C.log = <<>> /\ C.content = c0
  BY <1>3
<1>9. L \in D /\ L.log = l0 /\ L.content = c0
  BY <1>3
<1>10. ASSUME NEW p
       PROVE  [L EXCEPT !.term = p[1], !.placement_epoch = p[2], !.applied_index = i] = Staged(p, i)
  <2> DEFINE L1 == [term |-> p[1], placement_epoch |-> 0, applied_index |-> 0, log |-> l0,
                    content |-> c0]
             L2 == [term |-> p[1], placement_epoch |-> p[2], applied_index |-> 0, log |-> l0,
                    content |-> c0]
  <2>1. [L EXCEPT !.term = p[1]] = L1
    OBVIOUS
  <2>2. [L1 EXCEPT !.placement_epoch = p[2]] = L2
    OBVIOUS
  <2>3. [L2 EXCEPT !.applied_index = i] = Staged(p, i)
    BY <1>2
  <2> HIDE DEF L, L1, L2
  <2> QED BY <2>1, <2>2, <2>3
<1> HIDE DEF N, C, L
<1>11. C \in Directory /\ L \in Directory
  BY <1>1, <1>8, <1>9 DEF Directory
<1> DEFINE C0 == [NewDir EXCEPT !.content = c0]
           L0 == [NewDir EXCEPT !.content = c0, !.log = l0]
<1>12. C0 = C /\ L0 = L
  BY <1>4, <1>5, <1>6
<1> HIDE DEF C0, L0
<1>13. /\ C0 \in Directory /\ L0 \in Directory
       /\ [C0 EXCEPT !.log = Appended(@, SnapshotLine(i))] = L0
       /\ \A p : [L0 EXCEPT !.term = p[1], !.placement_epoch = p[2], !.applied_index = i] = Staged(p, i)
  BY <1>7, <1>10, <1>11, <1>12
<1> QED BY <1>13 DEF C0, L0, c0, l0

LEMMA StageCollectionStep ==
  ASSUME Running, StageCollection
  PROVE  Running'
<1> DEFINE D == [NewDir EXCEPT !.content = Source(op.index).content]
<1>1. /\ pc = "recover" /\ op.then = "stage" /\ pc' = "stage" /\ op' = [op EXCEPT !.then = "idle"]
      /\ UNCHANGED <<mem, open, promised, accidents>>
      /\ Sync([fs EXCEPT !["stage"] = D])
  BY DEF StageCollection, Cleared, history
<1>2. /\ \A k \in Key : promised[k] <= mem.applied_index
      /\ open => Live(fs["root"], mem, promised, accidents)
      /\ op.closed = ~open /\ Arguments /\ op \in Operation /\ op.index \in Nat
  BY <1>1, StageFacts
<1>3. D \in Directory
  BY <1>2, StageDirectories
<1>4. op' \in Operation /\ op'.index = op.index /\ op'.config = op.config /\ op'.closed = op.closed
  BY <1>1, <1>2 DEF Operation
<1> HIDE DEF D
<1>5. /\ ViewInv' /\ fs' \in View /\ (unsynced \subseteq View)'
      /\ fs'["stage"] = D /\ fs'["root"] = fs["root"]
  BY <1>1, <1>3, StageWrite
<1>6. TypeOK'
  BY <1>1, <1>4, <1>5 DEF Running, TypeOK, Promise
<1>7. Arguments'
  BY <1>1, <1>2, <1>4 DEF Arguments
<1>8. /\ (\A k \in Key : promised[k] <= mem.applied_index)'
      /\ open' => Live(fs["root"], mem, promised, accidents)'
      /\ (op.closed = ~open)'
  BY <1>1, <1>2, <1>4, <1>5
<1>9. (fs["stage"] = [NewDir EXCEPT !.content = Source(op.index).content])'
  BY <1>4, <1>5 DEF D
<1> QED BY <1>1, <1>5, <1>6, <1>7, <1>8, <1>9, ToStage

LEMMA StageJournalStep ==
  ASSUME Running, StageJournal
  PROVE  Running'
<1> DEFINE C == [NewDir EXCEPT !.content = Source(op.index).content]
           D == [NewDir EXCEPT !.content = Source(op.index).content,
                               !.log = <<SnapshotLine(op.index)>>]
<1>1. /\ pc = "stage" /\ pc' = "state"
      /\ UNCHANGED <<op, mem, open, promised, accidents>>
      /\ Sync([fs EXCEPT !["stage"].log = Appended(@, SnapshotLine(op.index))])
  BY DEF StageJournal, Goto, history
<1>2. /\ \A k \in Key : promised[k] <= mem.applied_index
      /\ open => Live(fs["root"], mem, promised, accidents)
      /\ op.closed = ~open /\ Arguments /\ op \in Operation /\ op.index \in Nat
  BY <1>1, StageFacts
<1>3. fs["stage"] = C
  BY <1>1 DEF Running, InstallInv
<1>4. D \in Directory /\ [C EXCEPT !.log = Appended(@, SnapshotLine(op.index))] = D
  BY <1>2, StageDirectories
<1> HIDE DEF C, D
<1>5. Sync([fs EXCEPT !["stage"] = D])
  <2>1. [fs EXCEPT !["stage"].log = Appended(@, SnapshotLine(op.index))] =
          [fs EXCEPT !["stage"] = [fs["stage"] EXCEPT !.log = Appended(@, SnapshotLine(op.index))]]
    OBVIOUS
  <2> QED BY <1>1, <1>3, <1>4, <2>1
<1>6. /\ ViewInv' /\ fs' \in View /\ (unsynced \subseteq View)'
      /\ fs'["stage"] = D /\ fs'["root"] = fs["root"]
  BY <1>1, <1>4, <1>5, StageWrite
<1>7. TypeOK'
  BY <1>1, <1>6 DEF Running, TypeOK, Promise
<1>8. Arguments'
  BY <1>1, <1>2 DEF Arguments
<1>9. /\ (\A k \in Key : promised[k] <= mem.applied_index)'
      /\ open' => Live(fs["root"], mem, promised, accidents)'
      /\ (op.closed = ~open)'
  BY <1>1, <1>2, <1>6
<1>10. (fs["stage"] = [NewDir EXCEPT !.content = Source(op.index).content,
                                     !.log = <<SnapshotLine(op.index)>>])'
  BY <1>1, <1>6 DEF D
<1> QED BY <1>1, <1>6, <1>7, <1>8, <1>9, <1>10, ToStage

LEMMA StageStateStep ==
  ASSUME Running, StageState
  PROVE  Running'
<1> DEFINE L == [NewDir EXCEPT !.content = Source(op.index).content,
                               !.log = <<SnapshotLine(op.index)>>]
           D == Staged(op.config, op.index)
<1>1. /\ pc = "state" /\ pc' = "swap" /\ open' = FALSE
      /\ UNCHANGED <<op, mem, promised, accidents>>
      /\ Sync([fs EXCEPT !["stage"] = [@ EXCEPT !.term = op.config[1],
                                            !.placement_epoch = op.config[2],
                                            !.applied_index = op.index]])
  BY DEF StageState, Goto, history
<1>2. /\ \A k \in Key : promised[k] <= mem.applied_index
      /\ open => Live(fs["root"], mem, promised, accidents)
      /\ op.closed = ~open /\ Arguments /\ op \in Operation /\ op.index \in Nat
      /\ op.config \in Nat \X Nat
  BY <1>1, StageFacts
<1>3. fs["stage"] = L
  BY <1>1 DEF Running, InstallInv
<1>4. [L EXCEPT !.term = op.config[1], !.placement_epoch = op.config[2],
                !.applied_index = op.index] = D
  BY <1>2, StageDirectories
<1>5. D \in Directory
  <2>1. Promise(promised) /\ \A k \in Key : promised[k] <= op.index
    BY <1>2 DEF Running, TypeOK, Arguments
  <2> QED BY <1>2, <2>1, StagedFacts
<1> HIDE DEF L, D
<1>6. Sync([fs EXCEPT !["stage"] = D])
  BY <1>1, <1>3, <1>4
<1>7. /\ ViewInv' /\ fs' \in View /\ (unsynced \subseteq View)'
      /\ fs'["stage"] = D /\ fs'["root"] = fs["root"]
  BY <1>1, <1>5, <1>6, StageWrite
<1>8. TypeOK'
  BY <1>1, <1>7 DEF Running, TypeOK, Promise
<1>9. Arguments' /\ (\A k \in Key : promised[k] <= mem.applied_index)'
  BY <1>1, <1>2 DEF Arguments
<1>10. (fs["stage"] = Staged(op.config, op.index))'
  BY <1>1, <1>7 DEF D
<1>11. (~op.closed => Live(fs["root"], mem, promised, accidents))'
  BY <1>1, <1>2, <1>7
<1> QED BY <1>1, <1>7, <1>8, <1>9, <1>10, <1>11, ToSwap

LEMMA StageRaisesStep ==
  ASSUME Running, StageRaises
  PROVE  Running'
<1>1. /\ pc \in {"stage", "state"} /\ pc' = "finish"
      /\ UNCHANGED <<fs, unsynced, op, mem, open, promised, accidents>>
  BY DEF StageRaises, Goto, Fails
<1>2. ViewInv' /\ fs' \in View /\ (unsynced \subseteq View)'
  BY <1>1, ViewKept DEF Running
<1>3. TypeOK'
  BY <1>1, <1>2 DEF Running, TypeOK, Promise
<1>4. /\ (\A k \in Key : promised[k] <= mem.applied_index)'
      /\ open' => Live(fs["root"], mem, promised, accidents)'
  BY <1>1, StageFacts
<1> QED BY <1>1, <1>2, <1>3, <1>4, ToIdle

\* What install_snapshot may rely on while it swaps.
LEMMA SwapFacts ==
  ASSUME Running, pc \in {"swap", "swapped", "adopt", "undo", "restore"}
  PROVE  /\ \A k \in Key : promised[k] <= mem.applied_index
         /\ ~open /\ Arguments /\ mem \in Fields /\ fs \in View
         /\ op.index \in Nat /\ op.config \in Nat \X Nat
         /\ Staged(op.config, op.index) \in Directory
         /\ Whole(Staged(op.config, op.index), promised, accidents)
         /\ pc = "swap" => /\ fs["stage"] = Staged(op.config, op.index)
                           /\ ~op.closed => Live(fs["root"], mem, promised, accidents)
         /\ pc # "swap" => /\ fs["backup"] # NoDir /\ fs["backup"] \in Directory
                           /\ Whole(fs["backup"], promised, accidents)
                           /\ ~op.closed => Live(fs["backup"], mem, promised, accidents)
         /\ pc = "swapped" => fs["stage"] = Staged(op.config, op.index) /\ fs["root"] = NoDir
         /\ pc = "adopt" => fs["root"] = Staged(op.config, op.index)
         /\ pc = "restore" => fs["root"] = NoDir
<1>1. /\ \A k \in Key : promised[k] <= mem.applied_index
      /\ ~open /\ Arguments
  BY DEF Running, AppliedInv, Opening, InstallInv, Arguments
<1>2. op.index \in Nat /\ op.config \in Nat \X Nat /\ Promise(promised) /\ mem \in Fields /\ fs \in View
  BY DEF Running, TypeOK, Operation
<1>3. Staged(op.config, op.index) \in Directory /\ Whole(Staged(op.config, op.index), promised, accidents)
  <2>1. \A k \in Key : promised[k] <= op.index
    BY <1>1 DEF Arguments
  <2> QED BY <1>2, <2>1, StagedFacts
<1>4. pc # "swap" => /\ fs["backup"] # NoDir /\ fs["backup"] \in Directory
                     /\ Whole(fs["backup"], promised, accidents)
                     /\ ~op.closed => Live(fs["backup"], mem, promised, accidents)
  BY DEF Running, InstallInv, LiveInv, Whole
<1>5. /\ pc = "swap" => /\ fs["stage"] = Staged(op.config, op.index)
                        /\ ~op.closed => Live(fs["root"], mem, promised, accidents)
      /\ pc = "swapped" => fs["stage"] = Staged(op.config, op.index) /\ fs["root"] = NoDir
      /\ pc = "adopt" => fs["root"] = Staged(op.config, op.index)
      /\ pc = "restore" => fs["root"] = NoDir
  BY DEF Running, InstallInv, LiveInv
<1> QED BY <1>1, <1>2, <1>3, <1>4, <1>5

LEMMA SwapOutStep ==
  ASSUME Running, SwapOut
  PROVE  Running'
<1> DEFINE w == [fs EXCEPT !["backup"] = fs["root"], !["root"] = NoDir]
<1>1. /\ pc = "swap" /\ pc' = "swapped" /\ fs["root"] # NoDir /\ NoSync(w)
      /\ UNCHANGED <<op, mem, open, promised, accidents>>
  BY DEF SwapOut, Goto, history
<1>2. /\ \A k \in Key : promised[k] <= mem.applied_index
      /\ ~open /\ Arguments /\ fs \in View /\ fs["stage"] = Staged(op.config, op.index)
      /\ ~op.closed => Live(fs["root"], mem, promised, accidents)
  BY <1>1, SwapFacts
<1>3. {"root", "backup", "stage"} \subseteq Dir
  BY DEF Dir
<1>4. Whole(fs["root"], promised, accidents) /\ fs["root"] \in Directory
  BY <1>1, ViewNow DEF Whole
<1>5. w \in View /\ w["backup"] = fs["root"] /\ w["root"] = NoDir /\ w["stage"] = fs["stage"]
  BY <1>2, <1>3, <1>4 DEF View
<1> HIDE DEF w
<1>6. Survivor(w) = fs["root"]
  BY <1>1, <1>5 DEF Survivor
<1>7. ViewInv' /\ fs' = w /\ fs' \in View /\ (unsynced \subseteq View)'
  BY <1>1, <1>4, <1>5, <1>6, ViewChanged DEF Running
<1>8. TypeOK'
  BY <1>1, <1>7 DEF Running, TypeOK, Promise
<1>9. Arguments' /\ (\A k \in Key : promised[k] <= mem.applied_index)' /\ ~open'
  BY <1>1, <1>2 DEF Arguments
<1>10. /\ fs'["backup"] # NoDir /\ Whole(fs["backup"], promised, accidents)'
       /\ (~op.closed => Live(fs["backup"], mem, promised, accidents))'
       /\ (fs["stage"] = Staged(op.config, op.index))'
       /\ (fs["root"] = NoDir)'
  BY <1>1, <1>2, <1>4, <1>5, <1>7
<1> QED BY <1>1, <1>7, <1>8, <1>9, <1>10, ToSwap

LEMMA SwapOutRaisesStep ==
  ASSUME Running, SwapOutRaises, "rollback" \notin accidents'
  PROVE  Running'
<1>1. /\ pc = "swap" /\ pc' = "finish" /\ Reopens
      /\ UNCHANGED <<fs, unsynced, op, mem, promised>>
  BY DEF SwapOutRaises, Goto, Fails
<1>2. ~op.closed /\ open' /\ accidents' = accidents
  BY <1>1 DEF Reopens
<1>3. /\ \A k \in Key : promised[k] <= mem.applied_index
      /\ ~op.closed => Live(fs["root"], mem, promised, accidents)
  BY <1>1, SwapFacts
<1>4. ViewInv' /\ fs' \in View /\ (unsynced \subseteq View)'
  BY <1>1, <1>2, ViewKept DEF Running
<1>5. open' \in BOOLEAN
  BY <1>1 DEF Reopens
<1>6. TypeOK'
  BY <1>1, <1>2, <1>4, <1>5 DEF Running, TypeOK, Promise
<1>7. /\ (\A k \in Key : promised[k] <= mem.applied_index)'
      /\ Live(fs["root"], mem, promised, accidents)'
  BY <1>1, <1>2, <1>3
<1> QED BY <1>1, <1>4, <1>6, <1>7, ToIdle

LEMMA SwapInStep ==
  ASSUME Running, SwapIn
  PROVE  Running'
<1> DEFINE D == Staged(op.config, op.index)
           w == [fs EXCEPT !["root"] = fs["stage"], !["stage"] = NoDir]
<1>1. /\ pc = "swapped" /\ pc' = "adopt" /\ NoSync(w)
      /\ UNCHANGED <<op, mem, open, promised, accidents>>
  BY DEF SwapIn, Goto, history
<1>2. /\ \A k \in Key : promised[k] <= mem.applied_index
      /\ ~open /\ Arguments /\ fs \in View /\ fs["stage"] = D
      /\ D \in Directory /\ Whole(D, promised, accidents)
      /\ fs["backup"] # NoDir /\ Whole(fs["backup"], promised, accidents)
      /\ ~op.closed => Live(fs["backup"], mem, promised, accidents)
  BY <1>1, SwapFacts
<1>3. {"root", "backup", "stage"} \subseteq Dir
  BY DEF Dir
<1>4. D' = D
  BY <1>1
<1> HIDE DEF D
<1>5. w \in View /\ w["root"] = D /\ w["backup"] = fs["backup"]
  BY <1>2, <1>3 DEF View
<1> HIDE DEF w
<1>6. Survivor(w) = D
  BY <1>2, <1>5, DirectoryFacts DEF Survivor
<1>7. ViewInv' /\ fs' = w /\ fs' \in View /\ (unsynced \subseteq View)'
  BY <1>1, <1>2, <1>5, <1>6, ViewChanged DEF Running
<1>8. TypeOK'
  BY <1>1, <1>7 DEF Running, TypeOK, Promise
<1>9. Arguments' /\ (\A k \in Key : promised[k] <= mem.applied_index)' /\ ~open'
  BY <1>1, <1>2 DEF Arguments
<1>10. /\ fs'["backup"] # NoDir /\ Whole(fs["backup"], promised, accidents)'
       /\ (~op.closed => Live(fs["backup"], mem, promised, accidents))'
  BY <1>1, <1>2, <1>5, <1>7
<1>11. (fs["root"] = Staged(op.config, op.index))'
  BY <1>1, <1>5, <1>7 DEF D
<1> QED BY <1>1, <1>7, <1>8, <1>9, <1>10, <1>11, ToSwap

\* The swap or the adoption raises.
LEMMA SwapInRaisesStep ==
  ASSUME Running, SwapInRaises \/ AdoptRaises
  PROVE  Running'
<1>1. /\ pc \in {"swapped", "adopt"} /\ pc' = "undo"
      /\ UNCHANGED <<fs, unsynced>> \/ Sync(fs)
      /\ UNCHANGED <<op, mem, open, promised, accidents>>
  BY DEF SwapInRaises, AdoptRaises, Goto, Fails
<1>2. /\ \A k \in Key : promised[k] <= mem.applied_index
      /\ ~open /\ Arguments /\ fs \in View
      /\ fs["backup"] # NoDir /\ Whole(fs["backup"], promised, accidents)
      /\ ~op.closed => Live(fs["backup"], mem, promised, accidents)
  BY <1>1, SwapFacts
<1>3. ViewInv' /\ fs' = fs /\ fs' \in View /\ (unsynced \subseteq View)'
  <2>1. CASE UNCHANGED <<fs, unsynced>>
    BY <1>1, <2>1, ViewKept DEF Running
  <2>2. CASE Sync(fs)
    <3>1. Whole(Survivor(fs), promised, accidents')
      BY <1>1, ViewNow
    <3> QED BY <1>1, <1>2, <2>2, <3>1, ViewChanged DEF Running
  <2> QED BY <1>1, <2>1, <2>2
<1>4. TypeOK'
  BY <1>1, <1>3 DEF Running, TypeOK, Promise
<1>5. Arguments' /\ (\A k \in Key : promised[k] <= mem.applied_index)' /\ ~open'
  BY <1>1, <1>2 DEF Arguments
<1>6. /\ fs'["backup"] # NoDir /\ Whole(fs["backup"], promised, accidents)'
      /\ (~op.closed => Live(fs["backup"], mem, promised, accidents))'
  BY <1>1, <1>2, <1>3
<1> QED BY <1>1, <1>3, <1>4, <1>5, <1>6, ToSwap

LEMMA AdoptStep ==
  ASSUME Running, Adopt
  PROVE  Running'
<1> DEFINE D == Staged(op.config, op.index)
<1>1. /\ pc = "adopt" /\ pc' = "drop_backup" /\ Sync(fs) /\ open' = TRUE
      /\ mem' = [term |-> op.config[1], placement_epoch |-> op.config[2],
             applied_index |-> op.index, prepared |-> {}, committed |-> {},
             snapshot_index |-> op.index]
      /\ UNCHANGED <<op, promised, accidents>>
  BY DEF Adopt, Goto, history
<1>2. /\ Arguments /\ fs \in View /\ fs["root"] = D /\ op.index \in Nat /\ op.config \in Nat \X Nat
  BY <1>1, SwapFacts
<1>3. /\ mem' \in Fields /\ mem'.applied_index = op.index /\ mem'.prepared = {}
      /\ mem'.committed = {} /\ mem'.snapshot_index = op.index
  BY <1>1, <1>2 DEF Fields
<1>4. Live(D, mem', promised, accidents)
  <2>1. Promise(promised) /\ \A k \in Key : promised[k] <= op.index
    BY <1>2 DEF Running, TypeOK, Arguments
  <2> QED BY <1>2, <1>3, <2>1, StagedFacts
<1>5. ViewInv' /\ fs' = fs /\ fs' \in View /\ (unsynced \subseteq View)'
  <2>1. Whole(Survivor(fs), promised, accidents')
    BY <1>1, ViewNow
  <2> QED BY <1>1, <1>2, <2>1, ViewChanged DEF Running
<1>6. TypeOK'
  BY <1>1, <1>3, <1>5 DEF Running, TypeOK, Promise
<1>7. Arguments'
  BY <1>1, <1>2 DEF Arguments
<1>8. /\ Live(fs["root"], mem, promised, accidents)' /\ (mem.applied_index = op.index)'
      /\ (fs["root"] = Staged(op.config, op.index))'
  BY <1>1, <1>2, <1>3, <1>4, <1>5
<1> QED BY <1>1, <1>5, <1>6, <1>7, <1>8, ToDropBackup

LEMMA UndoStep ==
  ASSUME Running, Undo
  PROVE  Running'
<1> DEFINE w == [fs EXCEPT !["failed"] = fs["root"], !["root"] = NoDir]
<1>1. /\ pc = "undo" /\ pc' = "restore"
      /\ IF fs["root"] = NoDir THEN UNCHANGED <<fs, unsynced>> ELSE NoSync(w)
      /\ UNCHANGED <<op, mem, open, promised, accidents>>
  BY DEF Undo, Goto, history
<1>2. /\ \A k \in Key : promised[k] <= mem.applied_index
      /\ ~open /\ Arguments /\ fs \in View
      /\ fs["backup"] # NoDir /\ Whole(fs["backup"], promised, accidents)
      /\ ~op.closed => Live(fs["backup"], mem, promised, accidents)
  BY <1>1, SwapFacts
<1>3. /\ ViewInv' /\ fs' \in View /\ (unsynced \subseteq View)'
      /\ fs'["backup"] = fs["backup"] /\ fs'["root"] = NoDir
  <2>1. CASE fs["root"] = NoDir
    BY <1>1, <2>1, ViewKept DEF Running
  <2>2. CASE fs["root"] # NoDir
    <3>1. {"root", "backup", "failed"} \subseteq Dir /\ fs["root"] \in Directory \cup {NoDir}
      BY ViewNow DEF Dir
    <3>2. w \in View /\ w["root"] = NoDir /\ w["backup"] = fs["backup"]
      BY <1>2, <3>1 DEF View
    <3> HIDE DEF w
    <3>3. Survivor(w) = fs["backup"]
      BY <1>2, <3>2 DEF Survivor
    <3> QED BY <1>1, <1>2, <2>2, <3>2, <3>3, ViewChanged DEF Running
  <2> QED BY <2>1, <2>2
<1>4. TypeOK'
  BY <1>1, <1>3 DEF Running, TypeOK, Promise
<1>5. Arguments' /\ (\A k \in Key : promised[k] <= mem.applied_index)' /\ ~open'
  BY <1>1, <1>2 DEF Arguments
<1>6. /\ fs'["backup"] # NoDir /\ Whole(fs["backup"], promised, accidents)'
      /\ (~op.closed => Live(fs["backup"], mem, promised, accidents))' /\ (fs["root"] = NoDir)'
  BY <1>1, <1>2, <1>3
<1> QED BY <1>1, <1>3, <1>4, <1>5, <1>6, ToSwap

\* The backup returns with the journal `log'.
LEMMA BackFacts ==
  ASSUME Running, pc = "restore", NEW log, LogOK(log),
         Whole([fs["backup"] EXCEPT !.log = log], promised, accidents),
         Sync(BackInPlace(log)) \/ NoSync(BackInPlace(log)), UNCHANGED <<promised, accidents>>
  PROVE  /\ ViewInv' /\ fs' \in View /\ (unsynced \subseteq View)'
         /\ fs'["root"] = [fs["backup"] EXCEPT !.log = log]
<1> DEFINE D == [fs["backup"] EXCEPT !.log = log]
           w == [fs EXCEPT !["root"] = D, !["backup"] = NoDir]
<1>1. fs \in View /\ {"root", "backup"} \subseteq Dir /\ D \in Directory
  BY SwapFacts DEF Dir, Whole
<1>2. BackInPlace(log) = w
  BY DEF BackInPlace
<1> HIDE DEF D
<1>3. w \in View /\ w["root"] = D
  BY <1>1 DEF View
<1>4. Survivor(w) = D
  BY <1>1, <1>3, DirectoryFacts DEF Survivor
<1> HIDE DEF w
<1>5. Sync(w) \/ NoSync(w)
  BY <1>2
<1>6. Whole(D, promised, accidents')
  BY DEF D
<1>7. ViewInv' /\ fs' = w /\ fs' \in View /\ (unsynced \subseteq View)'
  BY <1>3, <1>4, <1>5, <1>6, ViewChanged DEF Running
<1> QED BY <1>3, <1>7 DEF D

LEMMA RestoreStep ==
  ASSUME Running, Restore, "rollback" \notin accidents'
  PROVE  Running'
<1> DEFINE d == fs["backup"]
           log == Complete(d.log)
           J == Journal(log)
<1>1. pc = "restore" /\ Reopens /\ promised' = promised
  BY DEF Restore
<1>2. ~op.closed /\ open' = TRUE /\ accidents' = accidents
  BY <1>1 DEF Reopens
<1>3. /\ \A k \in Key : promised[k] <= mem.applied_index
      /\ mem \in Fields /\ d \in Directory /\ LogOK(d.log)
      /\ Whole(d, promised, accidents) /\ Live(d, mem, promised, accidents)
  BY <1>1, <1>2, SwapFacts, DirectoryFacts
<1>4. CASE Loadable(d.log)
  <2> DEFINE D == [d EXCEPT !.log = log]
             M == [mem EXCEPT !.prepared = J.prepared, !.committed = J.committed,
                              !.snapshot_index = J.snapshot_index]
  <2>1. Sync(BackInPlace(log)) /\ mem' = M /\ pc' = "drop_failed" /\ op' = op
    BY <1>4 DEF Restore, Goto
  <2>2. /\ J.prepared \subseteq Entries /\ J.committed \subseteq Nat /\ J.snapshot_index \in Nat
        /\ Whole(D, promised, accidents) /\ Live(D, M, promised, accidents)
    BY <1>3, <1>4, ReadJournal
  <2>3. LogOK(log)
    BY <1>3, CompleteFacts
  <2>4. M \in Fields /\ M.applied_index = mem.applied_index
    BY <1>3, <2>2 DEF Fields
  <2> HIDE DEF M, J, log
  <2>5. /\ ViewInv' /\ fs' \in View /\ (unsynced \subseteq View)' /\ fs'["root"] = D
    BY <1>1, <1>2, <2>1, <2>2, <2>3, BackFacts
  <2> HIDE DEF D
  <2>6. TypeOK'
    BY <1>1, <1>2, <2>1, <2>4, <2>5 DEF Running, TypeOK, Promise
  <2>7. /\ (\A k \in Key : promised[k] <= mem.applied_index)'
        /\ Live(fs["root"], mem, promised, accidents)'
    BY <1>1, <1>2, <1>3, <2>1, <2>2, <2>4, <2>5
  <2> QED BY <1>2, <2>1, <2>5, <2>6, <2>7, ToDropFailed
<1>5. CASE ~Loadable(d.log)
  <2>1. Sync(BackInPlace(d.log)) /\ mem' = mem /\ pc' = "finish" /\ op' = op
    BY <1>5 DEF Restore, Goto
  <2>2. [d EXCEPT !.log = d.log] = d
    BY <1>3 DEF Directory
  <2>3. /\ ViewInv' /\ fs' \in View /\ (unsynced \subseteq View)' /\ fs'["root"] = d
    BY <1>1, <1>2, <1>3, <2>1, <2>2, BackFacts
  <2>4. TypeOK'
    BY <1>1, <1>2, <2>1, <2>3 DEF Running, TypeOK, Promise
  <2>5. /\ (\A k \in Key : promised[k] <= mem.applied_index)'
        /\ Live(fs["root"], mem, promised, accidents)'
    BY <1>1, <1>2, <1>3, <2>1, <2>3
  <2> QED BY <2>1, <2>3, <2>4, <2>5, ToIdle
<1> QED BY <1>4, <1>5

LEMMA UndoRaisesStep ==
  ASSUME Running, UndoRaises
  PROVE  Running'
<1>1. /\ pc \in {"undo", "restore"} /\ pc' = "finish"
      /\ UNCHANGED <<op, mem, open, promised, accidents>>
      /\ UNCHANGED <<fs, unsynced>> \/ (pc = "restore" /\ NoSync(BackInPlace(fs["backup"].log)))
  BY DEF UndoRaises, Goto, history
<1>2. /\ \A k \in Key : promised[k] <= mem.applied_index
      /\ ~open /\ fs["backup"] \in Directory /\ Whole(fs["backup"], promised, accidents)
  BY <1>1, SwapFacts
<1>3. ViewInv' /\ fs' \in View /\ (unsynced \subseteq View)'
  <2>1. CASE UNCHANGED <<fs, unsynced>>
    BY <1>1, <2>1, ViewKept DEF Running
  <2>2. CASE pc = "restore" /\ NoSync(BackInPlace(fs["backup"].log))
    <3>1. [fs["backup"] EXCEPT !.log = fs["backup"].log] = fs["backup"]
      BY <1>2 DEF Directory
    <3>2. LogOK(fs["backup"].log)
      BY <1>2, DirectoryFacts
    <3> QED BY <1>1, <1>2, <2>2, <3>1, <3>2, BackFacts
  <2> QED BY <1>1, <2>1, <2>2
<1>4. TypeOK'
  BY <1>1, <1>3 DEF Running, TypeOK, Promise
<1>5. (\A k \in Key : promised[k] <= mem.applied_index)' /\ ~open'
  BY <1>1, <1>2
<1> QED BY <1>1, <1>3, <1>4, <1>5, ToIdle

\* A workspace is removed: the directory in use stays.
LEMMA RemoveTypes ==
  ASSUME Running, NEW p \in Dir \ {"root"}, Remove(p), fs["root"] # NoDir \/ p # "backup"
  PROVE  /\ TypeOK' /\ ViewInv' /\ fs'["root"] = fs["root"]
         /\ UNCHANGED <<mem, open, pc, op, promised, accidents>>
<1>1. UNCHANGED <<mem, open, pc, op, promised, accidents>>
  BY DEF Remove, history
<1>2. ViewInv' /\ fs' \in View /\ (unsynced \subseteq View)' /\ fs'["root"] = fs["root"]
  BY RemoveKeepsSurvivor
<1> QED BY <1>1, <1>2 DEF Running, TypeOK, Promise

LEMMA DropFailedStep ==
  ASSUME Running, DropFailed
  PROVE  Running'
<1>1. pc = "drop_failed" /\ "failed" \in Dir \ {"root"}
  BY DEF DropFailed, Dir
<1>2. /\ \A k \in Key : promised[k] <= mem.applied_index
      /\ open /\ Live(fs["root"], mem, promised, accidents)
  BY <1>1 DEF Running, AppliedInv, Opening, InstallInv, LiveInv
<1>3. CASE Remove("failed")
  <2>1. /\ TypeOK' /\ ViewInv' /\ fs'["root"] = fs["root"]
        /\ UNCHANGED <<mem, open, pc, op, promised, accidents>>
    BY <1>1, <1>3, RemoveTypes
  <2>2. /\ (\A k \in Key : promised[k] <= mem.applied_index)'
        /\ Live(fs["root"], mem, promised, accidents)'
    BY <1>2, <2>1
  <2> QED BY <1>1, <1>2, <2>1, <2>2, ToDropFailed
<1>4. CASE pc' = "finish" /\ UNCHANGED <<fs, unsynced, op, mem, open, promised, accidents>>
  <2>1. ViewInv' /\ fs' \in View /\ (unsynced \subseteq View)'
    BY <1>4, ViewKept DEF Running
  <2>2. TypeOK'
    BY <1>4, <2>1 DEF Running, TypeOK, Promise
  <2>3. /\ (\A k \in Key : promised[k] <= mem.applied_index)'
        /\ Live(fs["root"], mem, promised, accidents)'
    BY <1>2, <1>4
  <2> QED BY <1>4, <2>1, <2>2, <2>3, ToIdle
<1> QED BY <1>3, <1>4 DEF DropFailed, Goto, history

\* What install_snapshot answers for: everything in the snapshot, and what was
\* answered for before is there or below.
LEMMA SnapshotPromise ==
  ASSUME NEW i \in Nat, NEW c \in Nat \X Nat, NEW m \in Fields, NEW prom, NEW acc, Promise(prom),
         Live(Staged(c, i), m, prom, acc), Whole(Staged(c, i), prom, acc), m.applied_index = i
  PROVE  LET next == [k \in Key |->
                        LET x == Source(i).content[k]
                        IN  IF x = NoMutation THEN prom[k]
                            ELSE (CHOOSE e \in Entries : e.mut = x).index]
         IN  /\ Promise(next) /\ Live(Staged(c, i), m, next, acc)
             /\ Whole(Staged(c, i), next, acc)
             /\ \A k \in Key : next[k] <= i
<1> DEFINE d == Staged(c, i)
           next == [k \in Key |->
                        LET x == Source(i).content[k]
                        IN  IF x = NoMutation THEN prom[k]
                            ELSE (CHOOSE e \in Entries : e.mut = x).index]
<1>1. d.content = Source(i).content /\ ContentOK(Source(i).content)
  BY SourceFacts DEF Staged
<1>2. ASSUME NEW k \in Key
      PROVE  /\ next[k] \in Nat /\ next[k] <= IndexOf(d.content[k]) /\ IndexOf(d.content[k]) <= i
             /\ next[k] # 0 => \E e \in Entries : /\ e.index = next[k] /\ KeyOf[e.mut] = k
                                                  /\ e.mut \notin Rejected
  <2> DEFINE x == Source(i).content[k]
  <2>1. next[k] = IF x = NoMutation THEN prom[k] ELSE (CHOOSE e \in Entries : e.mut = x).index
    OBVIOUS
  <2> HIDE DEF next, d
  <2>2. prom[k] \in Nat /\ prom[k] <= IndexOf(d.content[k]) /\ IndexOf(d.content[k]) <= i
    BY DEF Live, Promise, d
  <2>3. prom[k] # 0 => \E e \in Entries : /\ e.index = prom[k] /\ KeyOf[e.mut] = k
                                          /\ e.mut \notin Rejected
    BY DEF Promise
  <2>4. CASE x = NoMutation
    BY <2>1, <2>2, <2>3, <2>4
  <2>5. CASE x # NoMutation
    <3>1. next[k] = IndexOf(x) /\ x = d.content[k]
      BY <1>1, <2>1, <2>5 DEF IndexOf
    <3>2. PICK e \in Entries : e.mut = x /\ KeyOf[e.mut] = k /\ e.mut \notin Rejected
      BY <1>1, <2>5 DEF ContentOK
    <3>3. IndexOf(x) = e.index /\ e.index \in Nat
      BY <3>2, EntryFacts
    <3> QED BY <2>2, <3>1, <3>2, <3>3
  <2> QED BY <2>4, <2>5
<1>3. next \in [Key -> Nat]
  <2>1. next = [k \in Key |-> next[k]]
    OBVIOUS
  <2> HIDE DEF next
  <2> QED BY <1>2, <2>1
<1> HIDE DEF next, d
<1>4. Promise(next)
  BY <1>2, <1>3 DEF Promise
<1>5. Live(d, m, next, acc)
  BY <1>2 DEF Live, d
<1>6. \A k \in Key : next[k] <= i
  <2>1. m.applied_index \in Nat
    BY DEF Fields
  <2> QED BY <1>4, <1>5, <2>1, LiveCovers
<1>7. Whole(d, next, acc)
  BY <1>4, <1>6, StagedFacts DEF d
<1> QED BY <1>4, <1>5, <1>6, <1>7 DEF next, d

LEMMA DropBackupStep ==
  ASSUME Running, DropBackup
  PROVE  Running'
<1> DEFINE D == Staged(op.config, op.index)
<1>1. pc = "drop_backup" /\ "backup" \in Dir \ {"root"} /\ fs \in View
  BY DEF DropBackup, Dir, Running, TypeOK
<1>2. /\ open /\ Live(fs["root"], mem, promised, accidents) /\ Arguments
      /\ fs["root"] = D /\ mem.applied_index = op.index
  BY <1>1 DEF Running, InstallInv, LiveInv, Arguments
<1>3. /\ op.index \in Nat /\ op.config \in Nat \X Nat /\ mem \in Fields /\ Promise(promised)
  BY DEF Running, TypeOK, Operation
<1>4. fs["root"] # NoDir /\ D \in Directory /\ Whole(D, promised, accidents)
  BY <1>2, LiveIsThere, ViewNow
<1>5. CASE Remove("backup")
  <2>1. /\ TypeOK' /\ ViewInv' /\ fs'["root"] = fs["root"]
        /\ UNCHANGED <<mem, open, pc, op, promised, accidents>>
    BY <1>1, <1>4, <1>5, RemoveTypes
  <2>2. /\ Live(fs["root"], mem, promised, accidents)' /\ Arguments' /\ open'
        /\ (mem.applied_index = op.index)' /\ (fs["root"] = Staged(op.config, op.index))'
    BY <1>2, <2>1 DEF Arguments
  <2> QED BY <1>1, <2>1, <2>2, ToDropBackup
<1>6. CASE ~Remove("backup")
  <2>1. /\ Sync(fs) /\ pc' = "finish" /\ UNCHANGED <<op, mem, open, accidents>>
        /\ promised' = [k \in Key |->
             LET m == Source(op.index).content[k]
             IN  IF m = NoMutation THEN promised[k]
                 ELSE (CHOOSE e \in Entries : e.mut = m).index]
    BY <1>6 DEF DropBackup, Goto
  <2>2. /\ Promise(promised') /\ Live(D, mem, promised', accidents)
        /\ Whole(D, promised', accidents)
        /\ \A k \in Key : promised'[k] <= op.index
    <3>1. Live(D, mem, promised, accidents)
      BY <1>2
    <3> DEFINE next == [k \in Key |->
                 LET m == Source(op.index).content[k]
                 IN  IF m = NoMutation THEN promised[k]
                     ELSE (CHOOSE e \in Entries : e.mut = m).index]
    <3>2. /\ Promise(next) /\ Live(D, mem, next, accidents)
          /\ Whole(D, next, accidents) /\ \A k \in Key : next[k] <= op.index
      BY <1>2, <1>3, <1>4, <3>1, SnapshotPromise
    <3>3. promised' = next
      BY <2>1
    <3> HIDE DEF next
    <3> QED BY <3>2, <3>3
  <2> HIDE DEF D
  <2>3. fs' = fs /\ unsynced' = {} /\ Survivor(fs) = D
    BY <1>2, <1>4, <2>1 DEF Sync, Survivor
  <2>4. \A w \in Views' : Whole(Survivor(w), promised', accidents')
    BY <2>1, <2>2, <2>3 DEF Views
  <2>5. ViewInv'
    BY <2>4 DEF ViewInv
  <2>6. TypeOK'
    BY <1>1, <2>1, <2>2, <2>3 DEF Running, TypeOK, Promise
  <2>7. (\A k \in Key : promised[k] <= mem.applied_index)' /\ Live(fs["root"], mem, promised, accidents)'
    BY <1>2, <2>1, <2>2, <2>3
  <2> QED BY <2>1, <2>5, <2>6, <2>7, ToIdle
<1> QED BY <1>5, <1>6

LEMMA DropRaisesStep ==
  ASSUME Running, DropRaises
  PROVE  Running'
<1>1. /\ pc \in {"drop_failed", "drop_backup"} /\ pc' = "finish"
      /\ UNCHANGED <<fs, unsynced, op, mem, open, promised, accidents>>
  BY DEF DropRaises, Goto, Fails
<1>2. ViewInv' /\ fs' \in View /\ (unsynced \subseteq View)'
  BY <1>1, ViewKept DEF Running
<1>3. TypeOK'
  BY <1>1, <1>2 DEF Running, TypeOK, Promise
<1>4. /\ \A k \in Key : promised[k] <= mem.applied_index
      /\ open => Live(fs["root"], mem, promised, accidents)
  BY <1>1 DEF Running, AppliedInv, Opening, LiveInv
<1>5. /\ (\A k \in Key : promised[k] <= mem.applied_index)'
      /\ open' => Live(fs["root"], mem, promised, accidents)'
  BY <1>1, <1>4
<1> QED BY <1>1, <1>2, <1>3, <1>5, ToIdle

LEMMA FinishStep ==
  ASSUME Running, Finish
  PROVE  Running'
<1>1. pc = "finish" /\ "stage" \in Dir \ {"root"} /\ NoOp \in Operation
  BY DEF Finish, Dir, NoOp, Operation
<1>2. /\ \A k \in Key : promised[k] <= mem.applied_index
      /\ open => Live(fs["root"], mem, promised, accidents)
  BY <1>1 DEF Running, AppliedInv, Opening, LiveInv
<1>3. CASE Remove("stage")
  <2>1. /\ TypeOK' /\ ViewInv' /\ fs'["root"] = fs["root"]
        /\ UNCHANGED <<mem, open, pc, op, promised, accidents>>
    BY <1>1, <1>3, RemoveTypes
  <2>2. /\ (\A k \in Key : promised[k] <= mem.applied_index)'
        /\ open' => Live(fs["root"], mem, promised, accidents)'
    BY <1>2, <2>1
  <2> QED BY <1>1, <2>1, <2>2, ToIdle
<1>4. CASE pc' = "idle" /\ op' = NoOp /\ UNCHANGED <<fs, unsynced, mem, open, promised, accidents>>
  <2>1. ViewInv' /\ fs' \in View /\ (unsynced \subseteq View)'
    BY <1>4, ViewKept DEF Running
  <2>2. TypeOK'
    BY <1>1, <1>4, <2>1 DEF Running, TypeOK, Promise
  <2>3. /\ (\A k \in Key : promised[k] <= mem.applied_index)'
        /\ open' => Live(fs["root"], mem, promised, accidents)'
    BY <1>2, <1>4
  <2> QED BY <1>4, <2>1, <2>2, <2>3, ToIdle
<1> QED BY <1>3, <1>4 DEF Finish, Return, history

-----------------------------------------------------------------------------
(***************************************************************************)
(* Deaths and power losses.                                                *)
(***************************************************************************)
LEMMA CrashStep ==
  ASSUME Running, Crash
  PROVE  Running'
<1>1. /\ pc' = "down" /\ op' = NoOp /\ mem' = NoMem /\ open' = FALSE
      /\ UNCHANGED <<promised, accidents>>
  BY DEF Crash, Dies
<1>2. PICK v \in {fs} \cup (IF fs["root"] = NoDir THEN {}
                            ELSE UNION {LineCut(line) : line \in NextLine}) :
       IF v = fs THEN UNCHANGED <<fs, unsynced>> ELSE NoSync(v)
  BY DEF Crash
<1>3. ViewInv' /\ fs' \in View /\ (unsynced \subseteq View)'
  <2>1. CASE v = fs
    BY <1>1, <1>2, <2>1, ViewKept DEF Running
  <2>2. CASE v # fs
    <3>1. PICK line \in NextLine : v \in LineCut(line)
      BY <1>2, <2>2
    <3>2. pc \in {"prepare", "commit"}
      BY <3>1 DEF NextLine
    <3>3. v \in View /\ Whole(Survivor(v), promised, accidents')
      BY <1>1, <3>1, <3>2, LineCutFacts
    <3> QED BY <1>1, <1>2, <2>2, <3>3, ViewChanged DEF Running
  <2> QED BY <2>1, <2>2
<1>4. NoMem \in Fields /\ NoOp \in Operation
  BY DEF NoMem, NoOp, Fields, Operation
<1>5. TypeOK'
  BY <1>1, <1>3, <1>4 DEF Running, TypeOK, Promise
<1> QED BY <1>1, <1>3, <1>5, ToDown

LEMMA PowerLossStep ==
  ASSUME Running, PowerLoss
  PROVE  Running'
<1>1. /\ pc' = "down" /\ op' = NoOp /\ mem' = NoMem /\ open' = FALSE
      /\ UNCHANGED <<promised, accidents>>
  BY DEF PowerLoss, Dies
<1>2. PICK v \in Views : fs' = v /\ unsynced' = {}
  BY DEF PowerLoss
<1>3. v \in View /\ Whole(Survivor(v), promised, accidents')
  BY <1>1, ViewNow DEF Running, TypeOK, Views
<1>4. ViewInv' /\ fs' \in View /\ (unsynced \subseteq View)'
  BY <1>1, <1>2, <1>3, ViewChanged DEF Running, Sync
<1>5. NoMem \in Fields /\ NoOp \in Operation
  BY DEF NoMem, NoOp, Fields, Operation
<1>6. TypeOK'
  BY <1>1, <1>4, <1>5 DEF Running, TypeOK, Promise
<1> QED BY <1>1, <1>4, <1>6, ToDown

-----------------------------------------------------------------------------
(***************************************************************************)
(* The invariant, and what it says.                                        *)
(***************************************************************************)
\* No step takes an accident back.
LEMMA AccidentsGrow ==
  ASSUME [Next]_vars
  PROVE  accidents \subseteq accidents'
<1>1. CASE UNCHANGED vars
  BY <1>1 DEF vars
<1>2. CASE Open \/ (\E e \in Entries : Prepare(e) \/ Commit(e)) \/ (\E c \in Configs : Configure(c))
        \/ (\E i \in Snapshots, c \in Configs : InstallSnapshot(i, c))
  BY <1>2 DEF Open, Prepare, Commit, Configure, InstallSnapshot, Served, history
<1>3. CASE Crash \/ PowerLoss
  BY <1>3 DEF Crash, PowerLoss, Dies
<1>4. CASE RecoverRename \/ RecoverRemove \/ RecoverRaises \/ OpenRoot \/ Load \/ LoadRaises \/ Replay
  BY <1>4 DEF RecoverRename, RecoverRemove, RecoverRaises, OpenRoot, Load, LoadRaises, Replay,
              Remove, history
<1>5. CASE JournalStep \/ JournalRaises \/ ApplyEntry \/ ApplyRaises \/ PublishState \/ PublishRaises
  BY <1>5 DEF JournalStep, JournalRaises, ApplyEntry, ApplyRaises, PublishState, PublishRaises, history
<1>6. CASE StageCollection \/ StageJournal \/ StageState \/ StageRaises \/ SwapOut \/ SwapOutRaises
        \/ SwapIn \/ SwapInRaises \/ Adopt \/ AdoptRaises
  BY <1>6 DEF StageCollection, StageJournal, StageState, StageRaises, SwapOut, SwapOutRaises,
              SwapIn, SwapInRaises, Adopt, AdoptRaises, Reopens, history
<1>7. CASE Undo \/ Restore \/ UndoRaises \/ DropFailed \/ DropBackup \/ DropRaises \/ Finish
  BY <1>7 DEF Undo, Restore, UndoRaises, DropFailed, DropBackup, DropRaises, Finish, Reopens,
              Remove, history
<1> QED BY <1>1, <1>2, <1>3, <1>4, <1>5, <1>6, <1>7 DEF Next, Step

LEMMA InitRunning ==
  ASSUME Init
  PROVE  Running
<1>1. /\ fs = [d \in Dir |-> NoDir] /\ unsynced = {} /\ mem = NoMem /\ open = FALSE
      /\ pc = "down" /\ op = NoOp /\ promised = [k \in Key |-> 0] /\ accidents = {}
  BY DEF Init
<1>2. NoMem \in Fields /\ NoOp \in Operation
  BY DEF NoMem, NoOp, Fields, Operation
<1>3. fs \in View /\ fs["root"] = NoDir /\ fs["backup"] = NoDir
  BY <1>1 DEF View, Dir
<1>4. Promise(promised)
  BY <1>1 DEF Promise
<1>5. TypeOK
  BY <1>1, <1>2, <1>3, <1>4 DEF TypeOK
<1>6. Survivor(fs) = NewDir
  BY <1>3 DEF Survivor
<1>7. ViewInv
  <2>1. Whole(NewDir, promised, accidents)
    BY <1>1, NewWhole
  <2> QED BY <1>1, <1>6, <2>1 DEF ViewInv, Views
<1> QED BY <1>1, <1>5, <1>7
        DEF Running, AppliedInv, Opening, LiveInv, Serving, ReplayInv, CommitInv, InstallInv

LEMMA StutterRunning ==
  ASSUME Running, UNCHANGED vars
  PROVE  Running'
<1>1. UNCHANGED <<fs, unsynced, mem, open, pc, op, promised, accidents>>
  BY DEF vars
<1>2. TypeOK' /\ ViewInv' /\ AppliedInv' /\ LiveInv'
  BY <1>1 DEF Running, TypeOK, ViewInv, Views, AppliedInv, Opening, LiveInv, Promise
<1>3. ReplayInv' /\ CommitInv' /\ InstallInv'
  BY <1>1 DEF Running, ReplayInv, CommitInv, InstallInv, TheEntry
<1> QED BY <1>2, <1>3 DEF Running

\* A step of the shard, of its clients or of its surroundings keeps the invariant,
\* unless it goes on after a rollback that raised.
LEMMA NextRunning ==
  ASSUME Running, [Next]_vars, "rollback" \notin accidents'
  PROVE  Running'
<1>1. CASE UNCHANGED vars
  BY <1>1, StutterRunning
<1>2. CASE Open
  BY <1>2, OpenStep
<1>3. CASE \E e \in Entries : Prepare(e) \/ Commit(e)
  BY <1>3, PrepareStep
<1>4. CASE \E c \in Configs : Configure(c)
  BY <1>4, ConfigureStep
<1>5. CASE \E i \in Snapshots, c \in Configs : InstallSnapshot(i, c)
  BY <1>5, InstallSnapshotStep
<1>6. CASE Crash \/ PowerLoss
  BY <1>6, CrashStep, PowerLossStep
<1>7. CASE RecoverRename \/ RecoverRemove \/ RecoverRaises \/ OpenRoot \/ Load \/ LoadRaises \/ Replay
  BY <1>7, RecoverRenameStep, RecoverRemoveStep, RecoverRaisesStep, OpenRootStep, LoadStep,
     LoadRaisesStep, ReplayStep
<1>8. CASE JournalStep \/ JournalRaises \/ ApplyEntry \/ ApplyRaises \/ PublishState \/ PublishRaises
  BY <1>8, JournalStepStep, JournalRaisesStep, ApplyEntryStep, ApplyRaisesStep, PublishStateStep
<1>9. CASE StageCollection \/ StageJournal \/ StageState \/ StageRaises
  BY <1>9, StageCollectionStep, StageJournalStep, StageStateStep, StageRaisesStep
<1>10. CASE SwapOut \/ SwapOutRaises \/ SwapIn \/ SwapInRaises \/ Adopt \/ AdoptRaises
  BY <1>10, SwapOutStep, SwapOutRaisesStep, SwapInStep, SwapInRaisesStep, AdoptStep
<1>11. CASE Undo \/ Restore \/ UndoRaises
  BY <1>11, UndoStep, RestoreStep, UndoRaisesStep
<1>12. CASE DropFailed \/ DropBackup \/ DropRaises \/ Finish
  BY <1>12, DropFailedStep, DropBackupStep, DropRaisesStep, FinishStep
<1> QED BY <1>1, <1>2, <1>3, <1>4, <1>5, <1>6, <1>7, <1>8, <1>9, <1>10, <1>11, <1>12 DEF Next, Step

\* Whatever is interrupted, and as long as the shard does not go on after a rollback
\* that raised: every view of the file system has a whole shard, and the fields of
\* the process fit the directory they were read from.
THEOREM FilesAndFieldsAgree == Spec => []Inv
<1>1. Init => Inv
  BY InitRunning DEF Inv
<1>2. Inv /\ [Next]_vars => Inv'
  <2>1. SUFFICES ASSUME Inv, [Next]_vars, "rollback" \notin accidents' PROVE Running'
    BY DEF Inv
  <2>2. Running
    BY <2>1, AccidentsGrow DEF Inv
  <2> QED BY <2>1, <2>2, NextRunning
<1> QED BY <1>1, <1>2, PTL DEF Spec

\* What commit and install_snapshot answered for survives every crash and power loss.
THEOREM AnswersSurvive == Spec => []AnsweredSurvives
<1>1. Inv => AnsweredSurvives
  <2>1. SUFFICES ASSUME Running, NEW view \in Views, NEW k \in Key,
                        Loadable(Survivor(view).log), ~RecoveryRaises(DiskOf(Survivor(view)))
                 PROVE  IndexOf(Recovered(DiskOf(Survivor(view))).content[k]) >= promised[k]
    BY DEF Inv, AnsweredSurvives
  <2>2. Whole(Survivor(view), promised, accidents) /\ Promise(promised)
    BY <2>1, ViewNow DEF Running, TypeOK
  <2> QED BY <2>1, <2>2, WholeAnswers
<1> QED BY <1>1, FilesAndFieldsAgree, PTL

\* An open shard serves from a directory that has what it answered for and a
\* journal with every record of its dictionaries.
THEOREM ServesTheWholeShard == Spec => []OpenShardIsWhole
<1>1. Inv => OpenShardIsWhole
  <2> DEFINE d == fs["root"]
             J == Journal(d.log)
  <2>1. SUFFICES ASSUME Running, pc = "idle", open
                 PROVE  /\ d # NoDir
                        /\ \A k \in Key : IndexOf(d.content[k]) >= promised[k]
                        /\ mem.prepared \subseteq J.prepared \/ "append" \in accidents
                        /\ mem.committed \subseteq J.committed \/ "append" \in accidents
                        /\ mem.snapshot_index = J.snapshot_index
                        /\ d.applied_index <= mem.applied_index
    BY DEF Inv, OpenShardIsWhole
  <2>2. Live(d, mem, promised, accidents) /\ Promise(promised) /\ accidents \subseteq {"append"}
    BY <2>1, RequestFacts DEF Running, TypeOK
  <2>3. d # NoDir /\ d \in Directory /\ Whole(d, promised, accidents)
    BY <2>1, <2>2, LiveIsThere, ViewNow
  <2>4. ASSUME NEW k \in Key PROVE IndexOf(d.content[k]) >= promised[k]
    <3>1. promised[k] \in Nat /\ IndexOf(d.content[k]) \in Nat /\ promised[k] <= IndexOf(d.content[k])
      BY <2>2, <2>3, DirectoryFacts DEF Live, Promise
    <3> QED BY <3>1
  <2>5. accidents = {} => Loadable(d.log)
    BY <2>3 DEF Whole
  <2>6. accidents = {} \/ "append" \in accidents
    BY <2>2
  <2>7. /\ mem.prepared \subseteq J.prepared \/ "append" \in accidents
        /\ mem.committed \subseteq J.committed \/ "append" \in accidents
        /\ mem.snapshot_index = J.snapshot_index
        /\ d.applied_index <= mem.applied_index
    BY <2>2, <2>5, <2>6 DEF Live
  <2> QED BY <2>3, <2>4, <2>7
<1> QED BY <1>1, FilesAndFieldsAgree, PTL

\* A shard opens after any crash, if no append raised in the middle of its line.
THEOREM JournalLoads == Spec => []JournalReopens
<1>1. Inv => JournalReopens
  <2>1. SUFFICES ASSUME Running, accidents = {}, NEW view \in Views
                 PROVE  Loadable(Survivor(view).log)
    BY DEF Inv, JournalReopens
  <2> QED BY <2>1, ViewNow DEF Whole
<1> QED BY <1>1, FilesAndFieldsAgree, PTL

\* The collection never runs ahead of the journal of its directory.
THEOREM NothingUnjournalled == Spec => []ContentIsJournalled
<1>1. Inv => ContentIsJournalled
  <2>1. SUFFICES ASSUME Running, accidents = {}, NEW view \in Views, NEW k \in Key
                 PROVE  LET d == Survivor(view)
                            i == IndexOf(d.content[k])
                        IN  i \in Journal(d.log).committed \/ i <= Journal(d.log).snapshot_index
    BY DEF Inv, ContentIsJournalled
  <2> DEFINE d == Survivor(view)
  <2>2. Journalled(d) /\ Loadable(d.log)
    BY <2>1, ViewNow DEF Whole
  <2> HIDE DEF d
  <2>3. CASE IndexOf(d.content[k]) <= Journal(d.log).snapshot_index
    BY <2>3 DEF d
  <2>4. CASE \E e \in Entries : e.mut = d.content[k] /\ HasCommitted(d.log, e)
    <3>1. PICK e \in Entries : e.mut = d.content[k] /\ HasCommitted(d.log, e)
      BY <2>4
    <3>2. IndexOf(d.content[k]) = e.index
      BY <3>1, EntryFacts
    <3>3. IndexOf(d.content[k]) \in Journal(d.log).committed
      BY <3>1, <3>2 DEF HasCommitted
    <3> QED BY <3>3 DEF d
  <2> QED BY <2>2, <2>3, <2>4 DEF Journalled
<1> QED BY <1>1, FilesAndFieldsAgree, PTL

-----------------------------------------------------------------------------
(***************************************************************************)
(* What a restart finds changes by steps of ReplicaShard.                  *)
(***************************************************************************)
\* Two directories with the same state, records and points are the same shard.
LEMMA SameDisk ==
  ASSUME NEW d, NEW D, D.term = d.term, D.placement_epoch = d.placement_epoch,
         D.applied_index = d.applied_index, D.content = d.content, Journal(D.log) = Journal(d.log)
  PROVE  DiskOf(D) = DiskOf(d)
BY DEF DiskOf

LEMMA StepForms ==
  ASSUME NEW d, NEW f \in Entries
  PROVE  /\ JournalPrepare(d, f) \in ShardSteps(d)
         /\ JournalCommit(d, f.index) \in ShardSteps(d)
         /\ [Apply(d, f) EXCEPT !.done = {}] \in ShardSteps(d)
<1> DEFINE A == {JournalPrepare(d, e) : e \in Entries}
           B == {JournalCommit(d, e.index) : e \in Entries}
           C == {[Apply(d, e) EXCEPT !.done = {}] : e \in Entries}
           I == {[Installed(Source(i), c[1], c[2]) EXCEPT !.done = {}] : i \in Snapshots, c \in Configs}
<1>1. ShardSteps(d) = A \cup B \cup C \cup I
  BY DEF ShardSteps
<1>2. JournalPrepare(d, f) \in A
  BY Zenon
<1>3. JournalCommit(d, f.index) \in B
  BY Zenon
<1>4. [Apply(d, f) EXCEPT !.done = {}] \in C
  BY Zenon
<1> HIDE DEF A, B, C, I
<1> QED BY <1>1, <1>2, <1>3, <1>4, Zenon

\* Appending a line is a step of the shard's journal, or changes nothing that is read.
LEMMA LineChange ==
  ASSUME NEW d \in Directory, NEW e \in Entries, NEW line \in Line,
         line \in {Torn, PrepareLine(e), CommitLine(e.index)}
  PROVE  LET D == [d EXCEPT !.log = Appended(@, line)]
         IN  DiskOf(D) = DiskOf(d) \/ DiskOf(D) \in ShardSteps(DiskOf(d))
<1> DEFINE now == Appended(d.log, line)
           D == [d EXCEPT !.log = now]
           J == Journal(d.log)
           K == Journal(now)
<1> SUFFICES DiskOf(D) = DiskOf(d) \/ DiskOf(D) \in ShardSteps(DiskOf(d))
  OBVIOUS
<1>1. LogOK(d.log) /\ e.index \in Nat
  BY DirectoryFacts, EntryFacts
<1>2. LogOK(now)
  <2>1. CASE line = Torn
    BY <1>1, <2>1, TornFacts
  <2>2. CASE line # Torn
    BY <1>1, <2>2, AppendedFacts DEF Record
  <2> QED BY <2>1, <2>2
<1>3. K = J \/ (K.snapshot_index = J.snapshot_index
                /\ \/ K.prepared = J.prepared \cup {e} /\ K.committed = J.committed
                   \/ K.prepared = J.prepared /\ K.committed = J.committed \cup {e.index})
  <2>1. CASE line = Torn
    BY <1>1, <2>1, TornFacts
  <2>2. CASE line # Torn
    <3>1. line \in Record
      BY <1>1, <2>2 DEF Record
    <3> QED BY <1>1, <2>2, <3>1, AppendedFacts
  <2> QED BY <2>1, <2>2
<1>4. J.prepared \subseteq Entries
  BY <1>1, JournalFacts
<1> HIDE DEF now
<1>5. /\ D.log = now /\ D.content = d.content /\ D.applied_index = d.applied_index
      /\ D.term = d.term /\ D.placement_epoch = d.placement_epoch
  BY <1>2, LogEdit
<1> HIDE DEF D
<1>6. DiskOf(D) = [term |-> d.term, placement_epoch |-> d.placement_epoch,
                   applied_index |-> d.applied_index, prepared |-> K.prepared,
                   committed |-> K.committed, snapshot_index |-> K.snapshot_index,
                   content |-> d.content, dense |-> d.content, done |-> {}]
  BY <1>5 DEF DiskOf
<1>7. DiskOf(d) = [term |-> d.term, placement_epoch |-> d.placement_epoch,
                   applied_index |-> d.applied_index, prepared |-> J.prepared,
                   committed |-> J.committed, snapshot_index |-> J.snapshot_index,
                   content |-> d.content, dense |-> d.content, done |-> {}]
  BY DEF DiskOf
<1> HIDE DEF J, K
<1>8. CASE K = J
  BY <1>6, <1>7, <1>8
<1>9. CASE /\ K.snapshot_index = J.snapshot_index
           /\ K.prepared = J.prepared \cup {e} /\ K.committed = J.committed
  <2>1. CASE \E p \in J.prepared : p.index = e.index
    <3>1. e \in J.prepared
      BY <1>4, <2>1, EntryFacts
    <3>2. K.prepared = J.prepared
      BY <1>9, <3>1
    <3> QED BY <1>6, <1>7, <1>9, <3>2
  <2>2. CASE ~ \E p \in J.prepared : p.index = e.index
    <3>1. JournalPrepare(DiskOf(d), e) = [DiskOf(d) EXCEPT !.prepared = J.prepared \cup {e}]
      BY <1>7, <2>2 DEF JournalPrepare
    <3>2. DiskOf(D) = [DiskOf(d) EXCEPT !.prepared = J.prepared \cup {e}]
      BY <1>6, <1>7, <1>9
    <3> QED BY <3>1, <3>2, StepForms
  <2> QED BY <2>1, <2>2
<1>10. CASE /\ K.snapshot_index = J.snapshot_index
            /\ K.prepared = J.prepared /\ K.committed = J.committed \cup {e.index}
  <2>1. JournalCommit(DiskOf(d), e.index) = [DiskOf(d) EXCEPT !.committed = J.committed \cup {e.index}]
    BY <1>7 DEF JournalCommit
  <2>2. DiskOf(D) = [DiskOf(d) EXCEPT !.committed = J.committed \cup {e.index}]
    BY <1>6, <1>7, <1>10
  <2> QED BY <2>1, <2>2, StepForms
<1> QED BY <1>3, <1>8, <1>9, <1>10

\* An upsert is a step of the shard.
LEMMA ContentChange ==
  ASSUME NEW d \in Directory, NEW e \in Entries, e.mut \notin Rejected
  PROVE  DiskOf([d EXCEPT !.content[KeyOf[e.mut]] = e.mut]) \in ShardSteps(DiskOf(d))
<1> DEFINE D == [d EXCEPT !.content[KeyOf[e.mut]] = e.mut]
           c == [d.content EXCEPT ![KeyOf[e.mut]] = e.mut]
           J == Journal(d.log)
<1>1. /\ D.log = d.log /\ D.applied_index = d.applied_index
      /\ D.term = d.term /\ D.placement_epoch = d.placement_epoch /\ D.content = c
  BY ContentEdit
<1> HIDE DEF D
<1>2. DiskOf(D) = [term |-> d.term, placement_epoch |-> d.placement_epoch,
                   applied_index |-> d.applied_index, prepared |-> J.prepared,
                   committed |-> J.committed, snapshot_index |-> J.snapshot_index,
                   content |-> c, dense |-> c, done |-> {}]
  BY <1>1 DEF DiskOf
<1>3. DiskOf(d) = [term |-> d.term, placement_epoch |-> d.placement_epoch,
                   applied_index |-> d.applied_index, prepared |-> J.prepared,
                   committed |-> J.committed, snapshot_index |-> J.snapshot_index,
                   content |-> d.content, dense |-> d.content, done |-> {}]
  BY DEF DiskOf
<1> HIDE DEF J
<1>4. Apply(DiskOf(d), e) =
        [term |-> d.term, placement_epoch |-> d.placement_epoch,
         applied_index |-> d.applied_index, prepared |-> J.prepared,
         committed |-> J.committed, snapshot_index |-> J.snapshot_index,
         content |-> c, dense |-> c, done |-> {} \cup {e.index}]
  <2> DEFINE a == KeyOf[e.mut]
             A == [DiskOf(d) EXCEPT !.content[a] = e.mut]
             B == [A EXCEPT !.dense[a] = e.mut]
  <2>1. A = [term |-> d.term, placement_epoch |-> d.placement_epoch,
             applied_index |-> d.applied_index, prepared |-> J.prepared,
             committed |-> J.committed, snapshot_index |-> J.snapshot_index,
             content |-> c, dense |-> d.content, done |-> {}]
    BY <1>3
  <2>2. Apply(DiskOf(d), e) = [B EXCEPT !.done = @ \cup {e.index}]
    BY DEF Apply
  <2> HIDE DEF A
  <2>3. B = [term |-> d.term, placement_epoch |-> d.placement_epoch,
             applied_index |-> d.applied_index, prepared |-> J.prepared,
             committed |-> J.committed, snapshot_index |-> J.snapshot_index,
             content |-> c, dense |-> c, done |-> {}]
    BY <2>1
  <2> HIDE DEF B, c
  <2> QED BY <2>2, <2>3
<1> HIDE DEF c
<1>5. [Apply(DiskOf(d), e) EXCEPT !.done = {}] = DiskOf(D)
  BY <1>2, <1>4
<1> QED BY <1>5, StepForms DEF D

\* The staged directory is the installed shard.
LEMMA InstallChange ==
  ASSUME NEW i \in Snapshots, NEW c \in Configs, NEW any
  PROVE  DiskOf(Staged(c, i)) \in ShardSteps(any)
<1>1. i \in Nat
  BY StorageAssumption
<1> DEFINE S == Source(i)
           J == Journal(<<SnapshotLine(i)>>)
<1>2. S.applied_index = i /\ S.dense = S.content
  BY DEF Source, Replayed, EmptyDisk
<1>3. J.prepared = {} /\ J.committed = {} /\ J.snapshot_index = i
  BY <1>1, SnapshotLog
<1> HIDE DEF J
<1>4. DiskOf(Staged(c, i)) =
        [term |-> c[1], placement_epoch |-> c[2], applied_index |-> i, prepared |-> {},
         committed |-> {}, snapshot_index |-> i, content |-> S.content, dense |-> S.content, done |-> {}]
  <2>1. DiskOf(Staged(c, i)) =
          [term |-> c[1], placement_epoch |-> c[2], applied_index |-> i, prepared |-> J.prepared,
           committed |-> J.committed, snapshot_index |-> J.snapshot_index,
           content |-> S.content, dense |-> S.content, done |-> {}]
    BY DEF DiskOf, Staged, J
  <2> QED BY <1>3, <2>1
<1> HIDE DEF S
<1>5. Installed(S, c[1], c[2]) =
        [term |-> c[1], placement_epoch |-> c[2], applied_index |-> i, prepared |-> {},
         committed |-> {}, snapshot_index |-> i, content |-> S.content, dense |-> S.content, done |-> S.done]
  BY <1>2 DEF Installed
<1>6. [Installed(S, c[1], c[2]) EXCEPT !.done = {}] = DiskOf(Staged(c, i))
  BY <1>4, <1>5
<1> QED BY <1>6 DEF ShardSteps, S

\* The state file is published.
LEMMA StateChange ==
  ASSUME NEW d \in Directory, NEW m \in Fields
  PROVE  DiskOf(Published(d, m)) =
           [DiskOf(d) EXCEPT !.term = m.term, !.placement_epoch = m.placement_epoch,
                             !.applied_index = m.applied_index]
<1> DEFINE D == Published(d, m)
           J == Journal(d.log)
           R0 == [term |-> d.term, placement_epoch |-> d.placement_epoch, applied_index |-> d.applied_index,
                  prepared |-> J.prepared, committed |-> J.committed,
                  snapshot_index |-> J.snapshot_index, content |-> d.content, dense |-> d.content, done |-> {}]
           R1 == [term |-> m.term, placement_epoch |-> d.placement_epoch, applied_index |-> d.applied_index,
                  prepared |-> J.prepared, committed |-> J.committed,
                  snapshot_index |-> J.snapshot_index, content |-> d.content, dense |-> d.content, done |-> {}]
           R2 == [term |-> m.term, placement_epoch |-> m.placement_epoch, applied_index |-> d.applied_index,
                  prepared |-> J.prepared, committed |-> J.committed,
                  snapshot_index |-> J.snapshot_index, content |-> d.content, dense |-> d.content, done |-> {}]
           R3 == [term |-> m.term, placement_epoch |-> m.placement_epoch, applied_index |-> m.applied_index,
                  prepared |-> J.prepared, committed |-> J.committed,
                  snapshot_index |-> J.snapshot_index, content |-> d.content, dense |-> d.content, done |-> {}]
<1>1. /\ D.log = d.log /\ D.content = d.content /\ D.term = m.term
      /\ D.placement_epoch = m.placement_epoch /\ D.applied_index = m.applied_index
  BY DEF Published, Directory
<1> HIDE DEF D
<1>2. DiskOf(D) = R3 /\ DiskOf(d) = R0
  BY <1>1 DEF DiskOf
<1> HIDE DEF J
<1>3. [R0 EXCEPT !.term = m.term] = R1
  OBVIOUS
<1>4. [R1 EXCEPT !.placement_epoch = m.placement_epoch] = R2
  OBVIOUS
<1>5. [R2 EXCEPT !.applied_index = m.applied_index] = R3
  OBVIOUS
<1> HIDE DEF R0, R1, R2, R3
<1>6. DiskOf(D) = [R0 EXCEPT !.term = m.term, !.placement_epoch = m.placement_epoch,
                             !.applied_index = m.applied_index]
  BY <1>2, <1>3, <1>4, <1>5
<1> QED BY <1>2, <1>6 DEF D

\* The shard that recovery chooses stays the same.
LEMMA SameSurvivor ==
  ASSUME Survivor(fs') = Survivor(fs)
  PROVE  ShardChange
<1>1. RestartFinds' = RestartFinds
  BY DEF RestartFinds
<1> QED BY <1>1 DEF ShardChange

LEMMA RootSurvives ==
  ASSUME NEW v, v["root"] # NoDir
  PROVE  Survivor(v) = v["root"]
BY DEF Survivor

LEMMA BackupSurvives ==
  ASSUME NEW v, v["root"] = NoDir, v["backup"] # NoDir
  PROVE  Survivor(v) = v["backup"]
BY DEF Survivor

LEMMA RecoveryChange ==
  ASSUME Running,
         RecoverRename \/ RecoverRemove \/ RecoverRaises \/ OpenRoot \/ Load \/ LoadRaises \/ Replay
  PROVE  ShardChange
<1>0. fs \in View /\ {"root", "backup", "stage", "failed"} \subseteq Dir
  BY DEF Running, TypeOK, Dir
<1>1. CASE RecoverRename
  <2>1. fs["backup"] # NoDir /\ fs["root"] = NoDir
    BY <1>1 DEF RecoverRename
  <2>2. fs'["root"] = fs["backup"]
    BY <1>0, <1>1 DEF RecoverRename, Sync, View
  <2> QED BY <2>1, <2>2, RootSurvives, BackupSurvives, SameSurvivor
<1>2. CASE RecoverRemove
  <2>1. PICK p \in {"backup", "stage", "failed"} : Remove(p) /\ (fs["root"] # NoDir \/ p # "backup")
    BY <1>2 DEF RecoverRemove
  <2>2. p \in Dir \ {"root"}
    BY DEF Dir
  <2> QED BY <2>1, <2>2, RemoveKeepsSurvivor, SameSurvivor
<1>3. CASE RecoverRaises \/ LoadRaises \/ Replay
  <2>1. fs' = fs
    BY <1>3 DEF RecoverRaises, LoadRaises, Replay
  <2> QED BY <2>1, SameSurvivor
<1>4. CASE OpenRoot
  <2>1. CASE fs["root"] = NoDir
    <3>1. fs["backup"] = NoDir /\ fs'["root"] = NewDir
      BY <1>0, <1>4, <2>1 DEF OpenRoot, Cleared, NoSync, View
    <3>2. Survivor(fs) = NewDir /\ NewDir # NoDir
      BY <2>1, <3>1, DirectoryFacts DEF Survivor
    <3> QED BY <3>1, <3>2, RootSurvives, SameSurvivor
  <2>2. CASE fs["root"] # NoDir
    <3>1. fs' = fs
      BY <1>4, <2>2 DEF OpenRoot
    <3> QED BY <3>1, SameSurvivor
  <2> QED BY <2>1, <2>2
<1>5. CASE Load
  <2> DEFINE d == fs["root"]
             D == [d EXCEPT !.log = Complete(@)]
  <2>1. pc = "load" /\ Loadable(d.log) /\ d # NoDir
    BY <1>5 DEF Load, Running, ReplayInv
  <2>2. d \in Directory /\ LogOK(d.log)
    BY <2>1, ViewNow, DirectoryFacts DEF Whole
  <2>3. LogOK(Complete(d.log)) /\ Journal(Complete(d.log)) = Journal(d.log)
    BY <2>2, CompleteFacts
  <2>4. /\ D.log = Complete(d.log) /\ D.content = d.content /\ D.applied_index = d.applied_index
        /\ D.term = d.term /\ D.placement_epoch = d.placement_epoch /\ D \in Directory
    BY <2>2, <2>3, LogEdit
  <2>5. fs' = IF D # d THEN [fs EXCEPT !["root"] = D] ELSE fs
    BY <1>5 DEF Load, Sync
  <2> HIDE DEF D
  <2>6. fs'["root"] = D
    BY <1>0, <2>5 DEF View
  <2>7. Survivor(fs') = D /\ Survivor(fs) = d
    BY <2>1, <2>4, <2>6, RootSurvives, DirectoryFacts
  <2>8. DiskOf(D) = DiskOf(d)
    BY <2>3, <2>4, SameDisk
  <2>9. RestartFinds' = RestartFinds
    BY <2>7, <2>8 DEF RestartFinds
  <2> QED BY <2>9 DEF ShardChange
<1> QED BY <1>1, <1>2, <1>3, <1>4, <1>5

\* A line is appended, wholly or in part.
LEMMA CutChange ==
  ASSUME Running, pc \in {"prepare", "commit"}, NEW line \in NextLine, NEW l \in {Torn, line},
         fs' = [fs EXCEPT !["root"].log = Appended(@, l)]
  PROVE  ShardChange
<1> DEFINE d == fs["root"]
           D == [d EXCEPT !.log = Appended(@, l)]
<1>1. pc \in Serving /\ op.then # "replay" /\ fs \in View /\ "root" \in Dir
  BY DEF Running, TypeOK, CommitInv, Serving, Dir
<1>2. d # NoDir /\ d \in Directory
  BY <1>1, HandlerFacts
<1>3. TheEntry \in Entries /\ l \in {Torn, PrepareLine(TheEntry), CommitLine(TheEntry.index)} /\ l \in Line
  <2>1. /\ line \in Record /\ TheEntry \in Entries
        /\ pc = "prepare" => line = PrepareLine(TheEntry)
        /\ pc = "commit" => line = CommitLine(TheEntry.index)
    BY NextLineFacts
  <2> QED BY <2>1, LineTypes DEF Record
<1>4. DiskOf(D) = DiskOf(d) \/ DiskOf(D) \in ShardSteps(DiskOf(d))
  BY <1>2, <1>3, LineChange
<1>5. D \in Directory
  <2>1. LogOK(d.log)
    BY <1>2, DirectoryFacts
  <2>2. LogOK(Appended(d.log, l))
    <3>1. CASE l = Torn
      BY <2>1, <3>1, TornFacts
    <3>2. CASE l # Torn
      BY <2>1, <3>2, NextLineFacts, AppendedFacts
    <3> QED BY <3>1, <3>2
  <2> QED BY <1>2, <2>2, LogEdit
<1>6. fs' = [fs EXCEPT !["root"] = D]
  OBVIOUS
<1> HIDE DEF D
<1>7. fs'["root"] = D
  BY <1>1, <1>6 DEF View
<1>8. Survivor(fs') = D /\ Survivor(fs) = d
  BY <1>2, <1>5, <1>7, RootSurvives, DirectoryFacts
<1>9. RestartFinds' = RestartFinds \/ RestartFinds' \in ShardSteps(RestartFinds)
  BY <1>4, <1>8 DEF RestartFinds
<1> QED BY <1>9 DEF ShardChange

LEMMA LineCutChange ==
  ASSUME Running, pc \in {"prepare", "commit"}, NEW line \in NextLine, NEW v \in LineCut(line),
         fs' = v
  PROVE  ShardChange
<1>1. v = fs \/ \E l \in {Torn, line} : v = [fs EXCEPT !["root"].log = Appended(@, l)]
  BY DEF LineCut
<1> QED BY <1>1, CutChange, SameSurvivor

LEMMA CommitChange ==
  ASSUME Running,
         JournalStep \/ JournalRaises \/ ApplyEntry \/ ApplyRaises \/ PublishState \/ PublishRaises
  PROVE  ShardChange
<1>0. fs \in View /\ "root" \in Dir /\ mem \in Fields /\ op \in Operation
  BY DEF Running, TypeOK, Dir
<1>1. CASE JournalStep
  <2>1. CASE NextLine = {}
    <3>1. fs' = fs
      BY <1>1, <2>1 DEF JournalStep
    <3> QED BY <3>1, SameSurvivor
  <2>2. CASE NextLine # {}
    <3>1. PICK line \in NextLine : fs' = [fs EXCEPT !["root"].log = Appended(@, line)]
      BY <1>1, <2>2 DEF JournalStep, Sync
    <3>2. pc \in {"prepare", "commit"}
      BY <1>1 DEF JournalStep
    <3> QED BY <3>1, <3>2, CutChange
  <2> QED BY <2>1, <2>2
<1>2. CASE JournalRaises
  <2>1. CASE fs' = fs
    BY <2>1, SameSurvivor
  <2>2. CASE fs' # fs
    <3>1. pc \in {"prepare", "commit"} /\ \E line \in NextLine : \E v \in LineCut(line) : fs' = v
      BY <1>2, <2>2 DEF JournalRaises, NoSync
    <3> QED BY <3>1, LineCutChange
  <2> QED BY <2>1, <2>2
<1>3. CASE ApplyEntry
  <2> DEFINE d == fs["root"]
             e == TheEntry
             D == [d EXCEPT !.content[KeyOf[e.mut]] = e.mut]
  <2>1. pc = "apply" /\ e.mut \notin Rejected /\ fs' = [fs EXCEPT !["root"].content[KeyOf[e.mut]] = e.mut]
    BY <1>3 DEF ApplyEntry, Sync
  <2>2. e \in Entries
    BY <1>0, <2>1, EntryOf DEF Running, CommitInv
  <2>3. d \in Directory
    <3>1. CASE op.then = "replay"
      BY <2>1, <3>1 DEF Running, ReplayInv, Replaying
    <3>2. CASE op.then # "replay"
      BY <2>1, <3>2, HandlerFacts DEF Serving
    <3> QED BY <3>1, <3>2
  <2>4. D \in Directory
    BY <2>1, <2>2, <2>3, ContentEdit
  <2>5. DiskOf(D) \in ShardSteps(DiskOf(d))
    BY <2>1, <2>2, <2>3, ContentChange
  <2>6. fs' = [fs EXCEPT !["root"] = D]
    BY <2>1
  <2> HIDE DEF D
  <2>7. fs'["root"] = D
    BY <1>0, <2>6 DEF View
  <2>8. Survivor(fs') = D /\ Survivor(fs) = d
    BY <2>3, <2>4, <2>7, RootSurvives, DirectoryFacts
  <2>9. RestartFinds' \in ShardSteps(RestartFinds)
    BY <2>5, <2>8 DEF RestartFinds
  <2> QED BY <2>9 DEF ShardChange
<1>4. CASE ApplyRaises \/ PublishRaises
  <2>1. fs' = fs
    BY <1>4 DEF ApplyRaises, PublishRaises
  <2> QED BY <2>1, SameSurvivor
<1>5. CASE PublishState
  <2> DEFINE d == fs["root"]
             D == Published(d, mem)
  <2>1. pc = "publish" /\ mem' = mem
    BY <1>5 DEF PublishState
  <2>2. d \in Directory /\ d # NoDir
    <3>1. CASE op.then = "replay"
      BY <2>1, <3>1, DirectoryFacts DEF Running, ReplayInv, Replaying
    <3>2. CASE op.then # "replay"
      BY <2>1, <3>2, HandlerFacts DEF Serving
    <3> QED BY <3>1, <3>2
  <2>3. fs' = [fs EXCEPT !["root"] = D]
    BY <1>5, <2>2 DEF PublishState, WithState, Published
  <2>4. DiskOf(D) = [DiskOf(d) EXCEPT !.term = mem.term, !.placement_epoch = mem.placement_epoch,
                                      !.applied_index = mem.applied_index]
    BY <1>0, <2>2, StateChange
  <2>5. D \in Directory
    BY <1>0, <2>2 DEF Published, Directory, Fields
  <2> HIDE DEF D
  <2>6. fs'["root"] = D
    BY <1>0, <2>3 DEF View
  <2>7. Survivor(fs') = D /\ Survivor(fs) = d
    BY <2>2, <2>5, <2>6, RootSurvives, DirectoryFacts
  <2>8. RestartFinds' = [RestartFinds EXCEPT !.term = mem'.term,
          !.placement_epoch = mem'.placement_epoch, !.applied_index = mem'.applied_index]
    BY <2>1, <2>4, <2>7 DEF RestartFinds
  <2> QED BY <2>8 DEF ShardChange
<1> QED BY <1>1, <1>2, <1>3, <1>4, <1>5

LEMMA StageChange ==
  ASSUME Running, StageCollection \/ StageJournal \/ StageState \/ StageRaises
  PROVE  ShardChange
<1>1. fs \in View /\ {"root", "backup", "stage"} \subseteq Dir
  BY DEF Running, TypeOK, Dir
<1>2. fs'["root"] = fs["root"] /\ fs'["backup"] = fs["backup"]
  BY <1>1 DEF StageCollection, StageJournal, StageState, StageRaises, Sync, View
<1>3. Survivor(fs') = Survivor(fs)
  BY <1>2 DEF Survivor
<1> QED BY <1>3, SameSurvivor

LEMMA SwapChange ==
  ASSUME Running, SwapOut \/ SwapOutRaises \/ SwapIn \/ SwapInRaises \/ Adopt \/ AdoptRaises
  PROVE  ShardChange
<1>0. fs \in View /\ {"root", "backup", "stage"} \subseteq Dir
  BY DEF Running, TypeOK, Dir
<1>1. CASE SwapOut
  <2>1. fs["root"] # NoDir /\ fs'["backup"] = fs["root"] /\ fs'["root"] = NoDir
    BY <1>0, <1>1 DEF SwapOut, NoSync, View
  <2> QED BY <2>1, RootSurvives, BackupSurvives, SameSurvivor
<1>2. CASE SwapIn
  <2> DEFINE D == Staged(op.config, op.index)
  <2>1. pc = "swapped" /\ fs["stage"] = D /\ D \in Directory /\ Arguments
    BY <1>2, SwapFacts DEF SwapIn
  <2>2. fs'["root"] = fs["stage"]
    BY <1>0, <1>2 DEF SwapIn, NoSync, View
  <2>3. DiskOf(D) \in ShardSteps(RestartFinds)
    BY <2>1, InstallChange DEF Arguments
  <2> HIDE DEF D
  <2>4. Survivor(fs') = D
    BY <2>1, <2>2, RootSurvives, DirectoryFacts
  <2>5. RestartFinds' \in ShardSteps(RestartFinds)
    BY <2>3, <2>4 DEF RestartFinds
  <2> QED BY <2>5 DEF ShardChange
<1>3. CASE SwapOutRaises \/ SwapInRaises \/ Adopt \/ AdoptRaises
  <2>1. fs' = fs
    BY <1>3 DEF SwapOutRaises, SwapInRaises, Adopt, AdoptRaises, Sync
  <2> QED BY <2>1, SameSurvivor
<1> QED BY <1>1, <1>2, <1>3

LEMMA UndoChange ==
  ASSUME Running, Undo \/ Restore \/ UndoRaises
  PROVE  ShardChange
<1> DEFINE d == fs["backup"]
<1>0. /\ fs \in View /\ {"root", "backup", "failed"} \subseteq Dir
      /\ pc \in {"undo", "restore"}
  BY DEF Running, TypeOK, Dir, Undo, Restore, UndoRaises
<1>1. /\ d # NoDir /\ d \in Directory /\ LogOK(d.log)
      /\ pc = "restore" => fs["root"] = NoDir
  BY <1>0, SwapFacts, DirectoryFacts
<1>2. CASE Undo
  <2>1. pc = "undo" /\ fs'["root"] = NoDir /\ fs'["backup"] = d
    BY <1>0, <1>2 DEF Undo, NoSync, View
  <2>2. RestartFinds' = DiskOf(fs["backup"])
    <3>1. Survivor(fs') = d
      BY <1>1, <2>1, BackupSurvives
    <3> QED BY <3>1 DEF RestartFinds
  <2> QED BY <1>1, <2>1, <2>2 DEF ShardChange
<1>3. ASSUME NEW log, pc = "restore", fs' = BackInPlace(log), LogOK(log), Journal(log) = Journal(d.log)
      PROVE  ShardChange
  <2> DEFINE D == [d EXCEPT !.log = log]
  <2>1. /\ D.log = log /\ D.content = d.content /\ D.applied_index = d.applied_index
        /\ D.term = d.term /\ D.placement_epoch = d.placement_epoch /\ D \in Directory
    BY <1>1, <1>3, LogEdit
  <2>2. fs'["root"] = D
    BY <1>0, <1>3 DEF BackInPlace, View
  <2> HIDE DEF D
  <2>3. Survivor(fs') = D /\ Survivor(fs) = d
    BY <1>1, <1>3, <2>1, <2>2, RootSurvives, BackupSurvives, DirectoryFacts
  <2>4. DiskOf(D) = DiskOf(d)
    BY <1>3, <2>1, SameDisk
  <2>5. RestartFinds' = RestartFinds
    BY <2>3, <2>4 DEF RestartFinds
  <2> QED BY <2>5 DEF ShardChange
<1>4. CASE Restore
  <2>1. pc = "restore" /\ \E log \in {d.log, Complete(d.log)} : fs' = BackInPlace(log)
    BY <1>4 DEF Restore, Sync
  <2>2. LogOK(Complete(d.log)) /\ Journal(Complete(d.log)) = Journal(d.log)
    BY <1>1, CompleteFacts
  <2> QED BY <1>1, <1>3, <2>1, <2>2
<1>5. CASE UndoRaises
  <2>1. fs' = fs \/ (pc = "restore" /\ fs' = BackInPlace(d.log))
    BY <1>5 DEF UndoRaises, NoSync
  <2> QED BY <1>1, <1>3, <2>1, SameSurvivor
<1> QED BY <1>2, <1>4, <1>5

LEMMA DropChange ==
  ASSUME Running, DropFailed \/ DropBackup \/ DropRaises \/ Finish
  PROVE  ShardChange
<1>1. CASE fs' = fs
  BY <1>1, SameSurvivor
<1>2. CASE fs' # fs
  <2>1. PICK p \in {"failed", "backup", "stage"} : Remove(p) /\ (p = "backup" => pc = "drop_backup")
    BY <1>2 DEF DropFailed, DropBackup, DropRaises, Finish, Sync
  <2>2. p \in Dir \ {"root"}
    BY DEF Dir
  <2>3. pc = "drop_backup" => fs["root"] # NoDir
    BY LiveIsThere DEF Running, InstallInv, LiveInv
  <2> QED BY <2>1, <2>2, <2>3, RemoveKeepsSurvivor, SameSurvivor
<1> QED BY <1>1, <1>2

LEMMA FaultChange ==
  ASSUME Running, Crash \/ PowerLoss
  PROVE  ShardChange
<1>1. CASE fs' = fs
  BY <1>1, SameSurvivor
<1>2. CASE Crash /\ fs' # fs
  <2>1. PICK line \in NextLine : fs' \in LineCut(line)
    BY <1>2 DEF Crash, NoSync
  <2>2. pc \in {"prepare", "commit"}
    BY <2>1 DEF NextLine
  <2> QED BY <2>1, <2>2, LineCutChange
<1>3. CASE PowerLoss /\ fs' # fs
  <2>1. fs' \in unsynced
    BY <1>3 DEF PowerLoss, Views
  <2>2. RestartFinds' \in {DiskOf(Survivor(view)) : view \in unsynced}
    BY <2>1 DEF RestartFinds
  <2> QED BY <2>2 DEF ShardChange
<1> QED BY <1>1, <1>2, <1>3

\* What a restart would find changes by one step of ReplicaShard at a time, by the
\* loss of what was not synced, or back to the shard of before the install.
THEOREM RestartSeesShardSteps == Spec => ChangesByShardSteps
<1>1. Inv /\ [Next]_vars => [ShardChange]_vars
  <2>1. SUFFICES ASSUME Inv, Next, "rollback" \notin accidents' PROVE ShardChange
    BY DEF ShardChange
  <2>2. Running
    BY <2>1, AccidentsGrow DEF Inv
  <2>3. CASE \/ Open \/ (\E e \in Entries : Prepare(e) \/ Commit(e)) \/ (\E c \in Configs : Configure(c))
             \/ (\E i \in Snapshots, c \in Configs : InstallSnapshot(i, c))
    <3>1. fs' = fs
      BY <2>3 DEF Open, Prepare, Commit, Configure, InstallSnapshot
    <3> QED BY <3>1, SameSurvivor
  <2> QED BY <2>1, <2>2, <2>3, RecoveryChange, CommitChange, StageChange, SwapChange, UndoChange,
             DropChange, FaultChange DEF Next, Step
<1> QED BY <1>1, FilesAndFieldsAgree, PTL DEF Spec, ChangesByShardSteps
=============================================================================
