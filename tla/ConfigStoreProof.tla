--------------------------- MODULE ConfigStoreProof ---------------------------
(***************************************************************************)
(* The safety properties of ConfigStore.tla, for any number of processes,  *)
(* frames, names and commands.  IInv is the inductive invariant: TypeOK,   *)
(* what every configuration in memory or on the disk is like (KnownInv),   *)
(* which command does what (KindInv), and how the disk stands to the one   *)
(* command under way as long as commands have not overlapped (SerialInv,   *)
(* FiledInv).                                                              *)
(***************************************************************************)
EXTENDS ConfigStore, FiniteSetTheorems, WellFoundedInduction, TLAPS

\* The state tuples, expanded wherever a step is split into its variables.
USE DEF vars, diskVars, procVars

\* The frames of a configuration know its identity, by the pairings made.
Known(c, by) == \A n \in Filed(c): <<c.frames[n], c.key>> \in by

\* No frame has two names, and there is a default if there is a frame.
WellFormed(c) ==
  /\ \A m, n \in Filed(c): c.frames[m] = c.frames[n] => m = n
  /\ IF Filed(c) = {} THEN c.default = 0 ELSE c.default \in Filed(c)

KnownInv ==
  /\ \A i \in Inodes: content[i] # Partial => Known(content[i], trust) /\ WellFormed(content[i])
  /\ \A p \in Procs: Known(mem[p], trust) /\ WellFormed(mem[p])

\* Only the command pair pairs, and only forget forgets.
KindInv ==
  \A p \in Procs: /\ pc[p] = "pairing" \/ next[p] = "pairing" => op[p].kind = "pair"
                  /\ pc[p] = "forgetting" => op[p].kind = "forget"
                  /\ pc[p] = "idle" => next[p] = "idle"

\* One command at a time: the file is whole, and the temporary file is its own.
SerialOf(p) ==
  /\ pc[p] = "write" => tmp # 0 /\ fd[p] = tmp /\ content[tmp] = Partial
  /\ pc[p] = "rename" /\ tmp # 0 => content[tmp] = mem[p]
SerialInv ==
  ~overlap =>
    /\ \A p, q \in Procs: pc[p] # "idle" /\ pc[q] # "idle" => p = q
    /\ path # 0 => content[path] # Partial
    /\ \A p \in Procs: SerialOf(p)

\* The frames of the configuration on the disk, and those of p's once it is saved.
FramesOf(c) == {c.frames[n]: n \in Filed(c)}
OnDisk == IF path = 0 THEN {} ELSE FramesOf(Disk)
Added(p) == IF op[p].kind = "pair" THEN {op[p].peer} ELSE {}

\* One command at a time: what it loaded is what is on the disk, and what it
\* saves differs from that by what it will report.
FiledOf(p) ==
  /\ pc[p] \in {"idle", "load", "forgetting"} => next[p] = "idle"
  /\ pc[p] \in {"pairing", "forgetting"} => path # 0 /\ mem[p] = Disk
  /\ pc[p] \in {"open", "write", "rename"} =>
       IF next[p] = "pairing" THEN path = 0 /\ FramesOf(mem[p]) = {}
       ELSE /\ path # 0 /\ mem[p].key = Disk.key
            /\ FramesOf(mem[p]) = (OnDisk \ {over[p]}) \cup Added(p)
FiledInv == ~overlap => filed = OnDisk /\ \A p \in Procs: FiledOf(p)

IInv == TypeOK /\ KnownInv /\ KindInv /\ SerialInv /\ FiledInv

-------------------------------------------------------------------------------
(* The operators *)

LEMMA MinFacts ==
  ASSUME NEW S \in SUBSET Nat, S # {}
  PROVE  Min(S) \in S
<1>1. PICK x \in S: \A y \in S: ~(<<y, x>> \in OpToRel(<, Nat))
  BY NatLessThanWellFounded, WFMin
<1>2. \A y \in S: ~(y < x)
  BY <1>1 DEF OpToRel
<1>3. \A y \in S: x =< y
  BY <1>2
<1> QED
  BY <1>3 DEF Min

\* A file that is created is not the configuration, nor one that is open.
LEMMA FreeInodeFacts ==
  ASSUME TypeOK, tmp = 0
  PROVE  FreeInode \in Inodes /\ FreeInode # path
<1> DEFINE Open == {fd[p]: p \in Procs}
           Busy == {path, tmp} \cup Open
           n == Cardinality(Procs)
<1>1. n \in Nat /\ IsFiniteSet(Open) /\ Cardinality(Open) \in Nat /\ Cardinality(Open) <= n
  <2>1. fd \in Surjection(Procs, Open)
    BY DEF TypeOK, Surjection
  <2> HIDE DEF Open
  <2> QED
    BY <2>1, ProcsAssumption, FS_Surjection, FS_CardinalityType
<1> HIDE DEF Open
<1>2. IsFiniteSet(Busy \cup {0}) /\ Cardinality(Busy \cup {0}) <= n + 2
  <2>1. Busy \cup {0} = (Open \cup {path}) \cup {0}
    OBVIOUS
  <2> HIDE DEF n, Busy
  <2>2. /\ IsFiniteSet(Open \cup {path}) /\ Cardinality(Open \cup {path}) \in Nat
        /\ Cardinality(Open \cup {path}) <= n + 1
    <3>1. /\ IsFiniteSet(Open \cup {path})
          /\ Cardinality(Open \cup {path}) = IF path \in Open THEN Cardinality(Open) ELSE Cardinality(Open) + 1
      BY <1>1, FS_AddElement
    <3> QED
      BY <1>1, <3>1
  <2>3. /\ IsFiniteSet(Busy \cup {0})
        /\ Cardinality(Busy \cup {0}) = IF 0 \in Open \cup {path} THEN Cardinality(Open \cup {path})
                                        ELSE Cardinality(Open \cup {path}) + 1
    BY <2>1, <2>2, FS_AddElement
  <2> QED
    BY <1>1, <2>2, <2>3
<1>3. IsFiniteSet(0..(n + 2)) /\ Cardinality(0..(n + 2)) = n + 3
  <2> HIDE DEF n
  <2>1. 0 \in Int /\ n + 2 \in Int /\ ~(0 > n + 2)
    BY <1>1
  <2> QED
    BY <1>1, <2>1, FS_Interval
<1>4. Inodes \ Busy # {}
  <2>1. SUFFICES ASSUME Inodes \subseteq Busy PROVE FALSE
    OBVIOUS
  <2>2. 0..(n + 2) \subseteq Busy \cup {0}
    BY <1>1, <2>1 DEF Inodes
  <2>3. Cardinality(0..(n + 2)) <= Cardinality(Busy \cup {0})
    BY <1>2, <2>2, FS_Subset
  <2>4. Cardinality(Busy \cup {0}) \in Nat
    BY <1>2, FS_CardinalityType
  <2> QED
    BY <1>1, <1>2, <1>3, <2>3, <2>4
<1>5. Min(Inodes \ Busy) \in Inodes \ Busy
  BY <1>1, <1>4, MinFacts DEF Inodes
<1> QED
  BY <1>5 DEF FreeInode, Open

LEMMA ConfigFacts ==
  ASSUME NEW c \in Configs
  PROVE  /\ c.key \in 1..KeyBound /\ c.frames \in [Names -> Peers \cup {NoPeer}]
         /\ c.default \in Names \cup {0} /\ Filed(c) \subseteq Names /\ Names \subseteq Nat /\ 0 \notin Names
         /\ \A n \in Filed(c): c.frames[n] \in Peers
BY BoundAssumption DEF Configs, Filed, Names

LEMMA BlankFacts ==
  ASSUME NEW k \in 1..KeyBound
  PROVE  /\ Blank(k) \in Configs /\ Filed(Blank(k)) = {} /\ FramesOf(Blank(k)) = {}
         /\ WellFormed(Blank(k)) /\ \A by: Known(Blank(k), by)
<1>1. Blank(k) \in Configs
  BY DEF Blank, Configs
<1>2. Filed(Blank(k)) = {}
  BY DEF Blank, Filed
<1> QED
  BY <1>1, <1>2 DEF Known, WellFormed, FramesOf, Blank

\* nameFor finds a name: there are no more frames than names.
LEMMA NameForFacts ==
  ASSUME NEW c \in Configs, WellFormed(c), NEW peer \in Peers
  PROVE  NameFor(c, peer) \in Names
<1>1. CASE NamesOf(c, peer) # {}
  BY <1>1 DEF NameFor, NamesOf
<1>2. CASE NamesOf(c, peer) = {}
  <2>1. Names \ Filed(c) # {}
    <3>1. SUFFICES ASSUME Names \subseteq Filed(c) PROVE FALSE
      OBVIOUS
    <3>2. c.frames \in [Names -> Peers \ {peer}]
      <4>1. c.frames \in [Names -> Peers \cup {NoPeer}] /\ \A n \in Names: c.frames[n] \in Peers
        BY <3>1, ConfigFacts
      <4>2. \A n \in Names: c.frames[n] # peer
        BY <1>2 DEF NamesOf
      <4> QED
        BY <4>1, <4>2
    <3>3. c.frames \in Injection(Names, Peers \ {peer})
      BY <3>1, <3>2 DEF Injection, IsInjective, WellFormed
    <3>4. /\ IsFiniteSet(Peers \ {peer}) /\ Cardinality(Peers \ {peer}) = Cardinality(Peers) - 1
          /\ Cardinality(Peers) \in Nat
      BY PeersAssumption, FS_RemoveElement, FS_CardinalityType
    <3>5. Cardinality(Names) = NameBound
      BY BoundAssumption, FS_Interval DEF Names
    <3>6. Cardinality(Names) <= Cardinality(Peers \ {peer})
      BY <3>3, <3>4, FS_Injection
    <3> QED
      BY <3>4, <3>5, <3>6, BoundAssumption
  <2>2. Min(Names \ Filed(c)) \in Names \ Filed(c)
    BY <2>1, MinFacts, BoundAssumption DEF Names
  <2> QED
    BY <1>2, <2>2 DEF NameFor
<1> QED
  BY <1>1, <1>2

\* A frame that is added has one name, and takes the place of who had it.
LEMMA AddFacts ==
  ASSUME NEW c \in Configs, WellFormed(c), NEW n \in Names, NEW peer \in Peers
  PROVE  LET d == AddFrame(c, n, peer)
         IN  /\ d \in Configs /\ d.key = c.key /\ WellFormed(d)
             /\ FramesOf(d) = (FramesOf(c) \ {c.frames[n]}) \cup {peer}
<1> DEFINE d == AddFrame(c, n, peer)
<1>1. /\ d.key = c.key
      /\ d.frames = [m \in Names |-> IF m = n THEN peer ELSE IF c.frames[m] = peer THEN NoPeer
                                     ELSE c.frames[m]]
      /\ d.default = IF c.default = 0 \/ c.default \in NamesOf(c, peer) THEN n ELSE c.default
      /\ d \in Configs
  BY DEF AddFrame, Configs
<1> HIDE DEF d
<1>2. /\ Filed(d) = {n} \cup {m \in Filed(c): c.frames[m] # peer}
      /\ d.frames[n] = peer
      /\ \A m \in Filed(d): m # n => m \in Filed(c) /\ d.frames[m] = c.frames[m] /\ c.frames[m] # peer
  BY <1>1, PeersAssumption DEF Filed
<1>3. WellFormed(d)
  BY <1>1, <1>2, ConfigFacts DEF WellFormed, NamesOf, Filed
<1>4. FramesOf(d) = (FramesOf(c) \ {c.frames[n]}) \cup {peer}
  <2>1. ASSUME NEW m \in Filed(d)
        PROVE  d.frames[m] \in (FramesOf(c) \ {c.frames[n]}) \cup {peer}
    <3>1. CASE m # n
      <4>1. c.frames[m] # c.frames[n]
        BY <1>2, <3>1 DEF WellFormed, Filed
      <4> QED
        BY <1>2, <3>1, <4>1 DEF FramesOf
    <3> QED
      BY <1>2, <3>1
  <2>2. ASSUME NEW m \in Filed(c), c.frames[m] # c.frames[n]
        PROVE  c.frames[m] \in FramesOf(d)
    <3>1. CASE c.frames[m] = peer
      BY <1>2, <3>1 DEF FramesOf
    <3>2. CASE c.frames[m] # peer
      <4>1. m \in Filed(d) /\ d.frames[m] = c.frames[m]
        BY <1>2, <2>2, <3>2
      <4> QED
        BY <4>1 DEF FramesOf
    <3> QED
      BY <3>1, <3>2
  <2>3. peer \in FramesOf(d)
    BY <1>2 DEF FramesOf
  <2> QED
    BY <2>1, <2>2, <2>3 DEF FramesOf
<1> QED
  BY <1>1, <1>3, <1>4 DEF d

LEMMA RemoveFacts ==
  ASSUME NEW c \in Configs, WellFormed(c), NEW n \in Filed(c)
  PROVE  LET d == RemoveFrame(c, n)
         IN  /\ d \in Configs /\ d.key = c.key /\ WellFormed(d)
             /\ FramesOf(d) = FramesOf(c) \ {c.frames[n]}
<1> DEFINE d == RemoveFrame(c, n)
           rest == Filed(c) \ {n}
<1>0. n \in Names /\ c.frames \in [Names -> Peers \cup {NoPeer}] /\ rest \subseteq Names
      /\ (rest # {} => Min(rest) \in rest)
  BY ConfigFacts, MinFacts
<1>1. /\ d.key = c.key
      /\ d.frames = [c.frames EXCEPT ![n] = NoPeer]
      /\ d.default = IF c.default # n THEN c.default ELSE IF rest = {} THEN 0 ELSE Min(rest)
      /\ d \in Configs
  BY <1>0 DEF RemoveFrame, Configs
<1> HIDE DEF d
<1>2. Filed(d) = rest /\ \A m \in rest: d.frames[m] = c.frames[m]
  BY <1>0, <1>1 DEF Filed
<1>3. WellFormed(d)
  BY <1>0, <1>1, <1>2 DEF WellFormed
<1>4. FramesOf(d) = FramesOf(c) \ {c.frames[n]}
  BY <1>2 DEF FramesOf, WellFormed
<1> QED
  BY <1>1, <1>3, <1>4 DEF d

-------------------------------------------------------------------------------
(* What the steps have in common *)

LEMMA RestFacts ==
  ASSUME TypeOK, NEW p \in Procs, Rest(p)
  PROVE  /\ pc' \in [Procs -> {"idle", "load", "pairing", "forgetting", "open", "write", "rename"}]
         /\ op' \in [Procs -> Ops] /\ over' \in [Procs -> Peers \cup {NoPeer}]
         /\ mem' \in [Procs -> Configs] /\ fd' \in [Procs -> Inodes \cup {0}]
         /\ next' \in [Procs -> {"pairing", "idle"}]
         /\ pc'[p] = "idle" /\ next'[p] = "idle" /\ mem'[p] = Blank(1) /\ op'[p].kind = "forget"
         /\ \A q \in Procs: q # p => /\ pc'[q] = pc[q] /\ next'[q] = next[q]
                                     /\ mem'[q] = mem[q] /\ op'[q] = op[q]
<1>1. Blank(1) \in Configs /\ [kind |-> "forget", name |-> 1, peer |-> NoPeer] \in Ops
  BY BlankFacts, BoundAssumption DEF Ops, Names
<1> HIDE DEF Blank
<1> QED
  BY <1>1 DEF TypeOK, Rest

LEMMA KnownKept ==
  ASSUME KnownInv, trust \subseteq trust',
         \A i \in Inodes: \/ content'[i] \in {content[i], Partial}
                          \/ \E q \in Procs: content'[i] = mem[q],
         \A q \in Procs: \/ mem'[q] = mem[q]
                         \/ Known(mem'[q], trust') /\ WellFormed(mem'[q])
  PROVE  KnownInv'
<1>1. \A c: Known(c, trust) => Known(c, trust')
  BY DEF Known
<1>2. ASSUME NEW i \in Inodes, content'[i] # Partial
      PROVE  Known(content'[i], trust') /\ WellFormed(content'[i])
  BY <1>1, <1>2 DEF KnownInv
<1>3. ASSUME NEW q \in Procs
      PROVE  Known(mem'[q], trust') /\ WellFormed(mem'[q])
  BY <1>1 DEF KnownInv
<1> QED
  BY <1>2, <1>3 DEF KnownInv

\* A step of a command that is under way: only its own process and the disk
\* are to be looked at, and only as long as it is alone.
LEMMA Alone ==
  ASSUME IInv, TypeOK', KnownInv', KindInv', overlap' = overlap,
         NEW p \in Procs, pc[p] # "idle",
         \A q \in Procs: q # p => pc'[q] = pc[q] /\ next'[q] = next[q],
         ~overlap => /\ path' # 0 => content'[path'] # Partial
                     /\ SerialOf(p)' /\ FiledOf(p)' /\ filed' = OnDisk'
  PROVE  IInv'
<1>1. ASSUME ~overlap, NEW q \in Procs, q # p
      PROVE  pc[q] = "idle" /\ next[q] = "idle" /\ pc'[q] = "idle" /\ next'[q] = "idle"
  BY <1>1 DEF IInv, SerialInv, FiledInv, FiledOf
<1>2. ASSUME ~overlap, NEW q \in Procs
      PROVE  SerialOf(q)' /\ FiledOf(q)'
  BY <1>1, <1>2 DEF SerialOf, FiledOf
<1>3. SerialInv'
  BY <1>1, <1>2 DEF SerialInv
<1>4. FiledInv'
  BY <1>2 DEF FiledInv
<1> QED
  BY <1>3, <1>4 DEF IInv

-------------------------------------------------------------------------------
(* The steps *)

\* A process comes to rest with the disk as it is, but perhaps for the
\* temporary file.
LEMMA RestKeeps ==
  ASSUME IInv, NEW p \in Procs, pc[p] # "idle", Rest(p), tmp' \in {tmp, 0},
         UNCHANGED <<path, content, runs, minted, trust, filed, overlap>>
  PROVE  IInv'
<1>1. TypeOK'
  BY RestFacts, 0 \notin Inodes DEF IInv, TypeOK, Inodes
<1>2. KnownInv'
  <2>1. Known(Blank(1), trust') /\ WellFormed(Blank(1))
    BY BlankFacts, BoundAssumption
  <2> HIDE DEF Blank
  <2>2. \A q \in Procs: mem'[q] = mem[q] \/ mem'[q] = Blank(1)
    BY RestFacts DEF IInv
  <2> QED
    BY <2>1, <2>2, KnownKept DEF IInv
<1>3. KindInv'
  BY RestFacts DEF IInv, KindInv
<1>4. ~overlap => /\ path' # 0 => content'[path'] # Partial
                  /\ SerialOf(p)' /\ FiledOf(p)' /\ filed' = OnDisk'
  BY RestFacts DEF IInv, SerialInv, SerialOf, FiledInv, FiledOf, OnDisk, Disk
<1> QED
  BY <1>1, <1>2, <1>3, <1>4, RestFacts, Alone DEF IInv

LEMMA StartKeeps ==
  ASSUME IInv, NEW p \in Procs, Start(p)
  PROVE  IInv'
<1>1. PICK o \in Ops: op' = [op EXCEPT ![p] = o]
  BY DEF Start
<1>2. TypeOK'
  BY <1>1, BoundAssumption DEF IInv, TypeOK, Start
<1>3. KnownInv'
  BY KnownKept DEF IInv, Start
<1>4. KindInv'
  BY <1>1 DEF IInv, TypeOK, KindInv, Start
<1>5. ~overlap' => ~overlap /\ \A q \in Procs: pc[q] = "idle"
  BY DEF IInv, TypeOK, Start
<1>6. /\ pc' = [pc EXCEPT ![p] = "load"]
      /\ UNCHANGED <<path, tmp, content, over, mem, fd, next, filed>>
  BY DEF Start
<1>7. ~overlap' => \A q \in Procs: pc'[q] \in {"idle", "load"} /\ (pc'[q] # "idle" => q = p)
  BY <1>5, <1>6 DEF IInv, TypeOK
<1>8. SerialInv'
  BY <1>5, <1>6, <1>7 DEF IInv, SerialInv, SerialOf
<1>9. FiledInv'
  BY <1>5, <1>6, <1>7 DEF IInv, KindInv, FiledInv, FiledOf, OnDisk, Disk
<1> QED
  BY <1>2, <1>3, <1>4, <1>8, <1>9 DEF IInv

LEMMA LoadsKeeps ==
  ASSUME IInv, NEW p \in Procs, Loads(p)
  PROVE  IInv'
<1>1. path \in Inodes /\ content[path] \in Configs
  BY DEF IInv, TypeOK, Loads
<1>2. TypeOK'
  BY <1>1 DEF IInv, TypeOK, Loads
<1>3. KnownInv'
  <2>1. \A q \in Procs: q # p => mem'[q] = mem[q]
    BY DEF IInv, TypeOK, Loads
  <2>2. mem'[p] = content[path] /\ Known(mem'[p], trust') /\ WellFormed(mem'[p])
    BY <1>1 DEF IInv, TypeOK, KnownInv, Loads
  <2> QED
    BY <2>1, <2>2, KnownKept DEF IInv, Loads
<1>4. KindInv'
  BY DEF IInv, TypeOK, KindInv, Ops, Loads
<1>5. ~overlap => /\ path' # 0 => content'[path'] # Partial
                  /\ SerialOf(p)' /\ FiledOf(p)' /\ filed' = OnDisk'
  BY DEF IInv, TypeOK, SerialInv, SerialOf, FiledInv, FiledOf, OnDisk, Disk, Loads
<1> QED
  BY <1>2, <1>3, <1>4, <1>5, Alone DEF IInv, TypeOK, Loads

LEMMA CreatesKeeps ==
  ASSUME IInv, NEW p \in Procs, Creates(p)
  PROVE  IInv'
<1>1. /\ minted + 1 \in 1..KeyBound /\ Blank(minted + 1) \in Configs /\ FramesOf(Blank(minted + 1)) = {}
      /\ WellFormed(Blank(minted + 1)) /\ Known(Blank(minted + 1), trust')
  <2>1. minted + 1 \in 1..KeyBound
    BY BoundAssumption DEF IInv, TypeOK, Creates
  <2> QED
    BY <2>1, BlankFacts
<1>2. mem' = [mem EXCEPT ![p] = Blank(minted + 1)]
  BY DEF Creates
<1> HIDE DEF Blank
<1>3. TypeOK'
  BY <1>1, <1>2 DEF IInv, TypeOK, Creates
<1>4. KnownInv'
  <2>1. \A q \in Procs: q # p => mem'[q] = mem[q]
    BY <1>2 DEF IInv, TypeOK
  <2>2. Known(mem'[p], trust') /\ WellFormed(mem'[p])
    BY <1>1, <1>2 DEF IInv, TypeOK
  <2> QED
    BY <2>1, <2>2, KnownKept DEF IInv, Creates
<1>5. KindInv'
  BY DEF IInv, TypeOK, KindInv, Creates
<1>6. ~overlap => /\ path' # 0 => content'[path'] # Partial
                  /\ SerialOf(p)' /\ FiledOf(p)' /\ filed' = OnDisk'
  BY <1>1, <1>2 DEF IInv, TypeOK, SerialInv, SerialOf, FiledInv, FiledOf, OnDisk, Disk, Creates
<1> QED
  BY <1>3, <1>4, <1>5, <1>6, Alone DEF IInv, TypeOK, Creates

LEMMA PairsKeeps ==
  ASSUME IInv, NEW p \in Procs, Pairs(p)
  PROVE  IInv'
<1> DEFINE c == mem[p]
           peer == op[p].peer
           n == IF op[p].name = 0 THEN NameFor(c, peer) ELSE op[p].name
           d == AddFrame(c, n, peer)
<1>1. op[p].kind = "pair" /\ peer \in Peers /\ op[p].name \in Names \cup {0}
  BY DEF IInv, TypeOK, KindInv, Ops, Pairs
<1>2. c \in Configs /\ WellFormed(c) /\ Known(c, trust)
  BY DEF IInv, TypeOK, KnownInv
<1>3. n \in Names
  BY <1>1, <1>2, NameForFacts
<1>4. /\ mem' = [mem EXCEPT ![p] = d] /\ over' = [over EXCEPT ![p] = c.frames[n]]
      /\ trust' = trust \cup {<<peer, c.key>>}
  BY DEF Pairs
<1> HIDE DEF n, d
<1>5. /\ d \in Configs /\ d.key = c.key /\ WellFormed(d)
      /\ FramesOf(d) = (FramesOf(c) \ {c.frames[n]}) \cup {peer}
  BY <1>1, <1>2, <1>3, AddFacts DEF d
<1>6. Known(d, trust')
  BY <1>2, <1>4, <1>5 DEF Known, FramesOf
<1>7. TypeOK'
  <2>1. c.frames[n] \in Peers \cup {NoPeer} /\ c.key \in 1..KeyBound
    BY <1>2, <1>3, ConfigFacts
  <2> QED
    BY <1>1, <1>4, <1>5, <2>1 DEF IInv, TypeOK, Pairs
<1>8. KnownInv'
  <2>1. \A q \in Procs: q # p => mem'[q] = mem[q]
    BY <1>4 DEF IInv, TypeOK
  <2>2. mem'[p] = d
    BY <1>4 DEF IInv, TypeOK
  <2> QED
    BY <1>4, <1>5, <1>6, <2>1, <2>2, KnownKept DEF IInv, Pairs
<1>9. KindInv'
  BY DEF IInv, TypeOK, KindInv, Pairs
<1>10. ~overlap => /\ path' # 0 => content'[path'] # Partial
                   /\ SerialOf(p)' /\ FiledOf(p)' /\ filed' = OnDisk'
  BY <1>1, <1>4, <1>5 DEF IInv, TypeOK, SerialInv, SerialOf, FiledInv, FiledOf, OnDisk, Disk, Added, Pairs
<1> QED
  BY <1>7, <1>8, <1>9, <1>10, Alone DEF IInv, TypeOK, Pairs

LEMMA ForgetsKeeps ==
  ASSUME IInv, NEW p \in Procs, Forgets(p)
  PROVE  IInv'
<1> DEFINE c == mem[p]
           n == op[p].name
           d == RemoveFrame(c, n)
<1>1. op[p].kind = "forget" /\ n \in Filed(c)
  BY DEF IInv, TypeOK, KindInv, Forgets
<1>2. c \in Configs /\ WellFormed(c) /\ Known(c, trust)
  BY DEF IInv, TypeOK, KnownInv
<1>3. mem' = [mem EXCEPT ![p] = d] /\ over' = [over EXCEPT ![p] = c.frames[n]]
  BY DEF Forgets
<1> HIDE DEF d
<1>4. d \in Configs /\ d.key = c.key /\ WellFormed(d) /\ FramesOf(d) = FramesOf(c) \ {c.frames[n]}
  BY <1>1, <1>2, RemoveFacts DEF d
<1>5. Known(d, trust)
  BY <1>2, <1>4 DEF Known, FramesOf
<1>6. TypeOK'
  <2>1. c.frames[n] \in Peers
    BY <1>1, <1>2, ConfigFacts
  <2> QED
    BY <1>3, <1>4, <2>1 DEF IInv, TypeOK, Forgets
<1>7. KnownInv'
  <2>1. \A q \in Procs: q # p => mem'[q] = mem[q]
    BY <1>3 DEF IInv, TypeOK
  <2>2. mem'[p] = d
    BY <1>3 DEF IInv, TypeOK
  <2> QED
    BY <1>4, <1>5, <2>1, <2>2, KnownKept DEF IInv, Forgets
<1>8. KindInv'
  BY DEF IInv, TypeOK, KindInv, Forgets
<1>9. ~overlap => /\ path' # 0 => content'[path'] # Partial
                  /\ SerialOf(p)' /\ FiledOf(p)' /\ filed' = OnDisk'
  BY <1>1, <1>3, <1>4 DEF IInv, TypeOK, SerialInv, SerialOf, FiledInv, FiledOf, OnDisk, Disk, Added, Forgets
<1> QED
  BY <1>6, <1>7, <1>8, <1>9, Alone DEF IInv, TypeOK, Forgets

LEMMA OpensKeeps ==
  ASSUME IInv, NEW p \in Procs, Opens(p)
  PROVE  IInv'
<1> DEFINE i == IF tmp # 0 THEN tmp ELSE FreeInode
<1>1. i \in Inodes /\ i # path
  BY FreeInodeFacts DEF IInv, TypeOK
<1>2. /\ tmp' = i /\ content' = [content EXCEPT ![i] = Partial] /\ fd' = [fd EXCEPT ![p] = i]
  BY DEF Opens
<1> HIDE DEF i
<1>3. 0 \notin Inodes
  BY DEF Inodes
<1>4. TypeOK'
  BY <1>1, <1>2, <1>3 DEF IInv, TypeOK, Opens
<1>5. KnownInv'
  BY <1>2, KnownKept DEF IInv, TypeOK, Opens
<1>6. KindInv'
  BY DEF IInv, TypeOK, KindInv, Opens
<1>7. ~overlap => /\ path' # 0 => content'[path'] # Partial
                  /\ SerialOf(p)' /\ FiledOf(p)' /\ filed' = OnDisk'
  <2>1. path' = path /\ (path # 0 => content'[path] = content[path])
    BY <1>1, <1>2 DEF IInv, TypeOK, Opens
  <2>2. ~overlap => SerialOf(p)'
    BY <1>1, <1>2, <1>3 DEF IInv, TypeOK, SerialOf, Opens
  <2>3. ~overlap => FiledOf(p)' /\ filed' = OnDisk'
    BY <2>1 DEF IInv, TypeOK, FiledInv, FiledOf, OnDisk, Disk, Added, Opens
  <2> QED
    BY <2>1, <2>2, <2>3 DEF IInv, SerialInv, Opens
<1> QED
  BY <1>4, <1>5, <1>6, <1>7, Alone DEF IInv, TypeOK, Opens

LEMMA WritesKeeps ==
  ASSUME IInv, NEW p \in Procs, Writes(p)
  PROVE  IInv'
<1>1. PICK d \in {mem[p], Partial}: /\ content' = [content EXCEPT ![fd[p]] = d]
                                    /\ content[fd[p]] = Partial => d = mem[p]
  BY PartialAssumption DEF Writes, IInv, TypeOK
<1>2. TypeOK'
  BY <1>1 DEF IInv, TypeOK, Writes
<1>3. KnownInv'
  BY <1>1, KnownKept DEF IInv, TypeOK, Writes
<1>4. KindInv'
  BY DEF IInv, TypeOK, KindInv, Writes
<1>5. ~overlap => /\ path' # 0 => content'[path'] # Partial
                  /\ SerialOf(p)' /\ FiledOf(p)' /\ filed' = OnDisk'
  <2>1. SUFFICES ASSUME ~overlap
                 PROVE  /\ path' # 0 => content'[path'] # Partial
                        /\ SerialOf(p)' /\ FiledOf(p)' /\ filed' = OnDisk'
    OBVIOUS
  <2>2. tmp \in Inodes /\ fd[p] = tmp /\ content[tmp] = Partial
    BY <2>1 DEF IInv, TypeOK, SerialInv, SerialOf, Writes
  <2>3. content' = [content EXCEPT ![tmp] = mem[p]]
    BY <1>1, <2>2
  <2>4. path' = path /\ (path # 0 => content'[path] = content[path])
    BY <2>3, <2>2 DEF IInv, TypeOK, Writes
  <2>5. SerialOf(p)'
    BY <2>2, <2>3 DEF IInv, TypeOK, SerialOf, Writes
  <2>6. FiledOf(p)' /\ filed' = OnDisk'
    BY <2>1, <2>4 DEF IInv, TypeOK, FiledInv, FiledOf, OnDisk, Disk, Added, Writes
  <2> QED
    BY <2>1, <2>4, <2>5, <2>6 DEF IInv, SerialInv, Writes
<1> QED
  BY <1>2, <1>3, <1>4, <1>5, Alone DEF IInv, TypeOK, Writes

LEMMA RenamesKeeps ==
  ASSUME IInv, NEW p \in Procs, Renames(p)
  PROVE  IInv'
<1>1. tmp \in Inodes /\ path' = tmp /\ tmp' = 0 /\ 0 \notin Inodes
  BY DEF IInv, TypeOK, Inodes, Renames
<1>2. op[p].kind = "pair" => op[p].peer \in Peers
  BY DEF IInv, TypeOK, Ops
<1>3. CASE next[p] = "pairing"
  <2>1. /\ pc' = [pc EXCEPT ![p] = "pairing"]
        /\ UNCHANGED <<op, over, mem, fd, next, filed, content, runs, minted, trust, overlap>>
    BY <1>3 DEF Renames
  <2>2. TypeOK'
    BY <1>1, <2>1 DEF IInv, TypeOK
  <2>3. KnownInv'
    BY <2>1, KnownKept DEF IInv
  <2>4. KindInv'
    BY <1>3, <2>1 DEF IInv, TypeOK, KindInv
  <2>5. ~overlap => /\ path' # 0 => content'[path'] # Partial
                    /\ SerialOf(p)' /\ FiledOf(p)' /\ filed' = OnDisk'
    <3>1. SUFFICES ASSUME ~overlap
                   PROVE  /\ path' # 0 => content'[path'] # Partial
                          /\ SerialOf(p)' /\ FiledOf(p)' /\ filed' = OnDisk'
      OBVIOUS
    <3>2. content[tmp] = mem[p] /\ path = 0 /\ FramesOf(mem[p]) = {} /\ filed = {}
      BY <1>1, <1>3, <3>1 DEF IInv, SerialInv, SerialOf, FiledInv, FiledOf, OnDisk, Renames
    <3>3. mem[p] \in Configs /\ mem[p] # Partial
      BY PartialAssumption DEF IInv, TypeOK
    <3> QED
      BY <1>1, <1>3, <2>1, <3>2, <3>3 DEF IInv, TypeOK, SerialOf, FiledOf, OnDisk, Disk
  <2> QED
    BY <2>1, <2>2, <2>3, <2>4, <2>5, Alone DEF IInv, TypeOK, Renames
<1>4. CASE next[p] # "pairing"
  <2>1. /\ Rest(p) /\ filed' = (filed \ {over[p]}) \cup Added(p)
        /\ UNCHANGED <<content, runs, minted, trust, overlap>>
    BY <1>4 DEF Renames, Added
  <2>2. TypeOK'
    <3>1. filed' \in SUBSET Peers
      BY <1>2, <2>1 DEF IInv, TypeOK, Added
    <3> QED
      BY <1>1, <2>1, <3>1, RestFacts DEF IInv, TypeOK
  <2>3. KnownInv'
    <3>1. Known(Blank(1), trust') /\ WellFormed(Blank(1))
      BY BlankFacts, BoundAssumption
    <3> HIDE DEF Blank
    <3>2. \A q \in Procs: mem'[q] = mem[q] \/ mem'[q] = Blank(1)
      BY <2>1, RestFacts DEF IInv
    <3> QED
      BY <2>1, <3>1, <3>2, KnownKept DEF IInv
  <2>4. KindInv'
    BY <2>1, RestFacts DEF IInv, KindInv
  <2>5. ~overlap => /\ path' # 0 => content'[path'] # Partial
                    /\ SerialOf(p)' /\ FiledOf(p)' /\ filed' = OnDisk'
    <3>1. SUFFICES ASSUME ~overlap
                   PROVE  /\ path' # 0 => content'[path'] # Partial
                          /\ SerialOf(p)' /\ FiledOf(p)' /\ filed' = OnDisk'
      OBVIOUS
    <3>2. /\ content[tmp] = mem[p] /\ filed = OnDisk
          /\ FramesOf(mem[p]) = (OnDisk \ {over[p]}) \cup Added(p)
      BY <1>1, <1>4, <3>1 DEF IInv, SerialInv, SerialOf, FiledInv, FiledOf, Renames
    <3>3. mem[p] # Partial
      BY PartialAssumption DEF IInv, TypeOK
    <3>4. path' # 0 /\ content'[path'] = mem[p]
      BY <1>1, <2>1, <3>2
    <3>5. filed' = OnDisk'
      BY <2>1, <3>2, <3>4 DEF OnDisk, Disk
    <3> QED
      BY <2>1, <3>3, <3>4, <3>5, RestFacts DEF IInv, SerialOf, FiledOf
  <2> QED
    BY <2>1, <2>2, <2>3, <2>4, <2>5, RestFacts, Alone DEF IInv, Renames
<1> QED
  BY <1>3, <1>4

LEMMA LostKeeps ==
  ASSUME IInv, Lost
  PROVE  IInv'
<1>1. TypeOK'
  BY DEF IInv, TypeOK, Lost
<1>2. KnownInv'
  BY KnownKept DEF IInv, Lost
<1> QED
  BY <1>1, <1>2 DEF IInv, KindInv, SerialInv, SerialOf, FiledInv, FiledOf, OnDisk, Lost

-------------------------------------------------------------------------------
(* The invariant and the properties *)

LEMMA InitIInv == Init => IInv
<1> SUFFICES ASSUME Init PROVE IInv
  OBVIOUS
<1> DEFINE idle == [kind |-> "forget", name |-> 1, peer |-> NoPeer]
<1>1. op \in [Procs -> {idle}] /\ mem = [p \in Procs |-> Blank(1)]
  BY DEF Init
<1>2. /\ Blank(1) \in Configs /\ WellFormed(Blank(1)) /\ Known(Blank(1), trust)
      /\ idle \in Ops
  BY BlankFacts, BoundAssumption DEF Ops, Names
<1> HIDE DEF Blank, idle
<1>3. op \in [Procs -> Ops] /\ mem \in [Procs -> Configs]
  BY <1>1, <1>2
<1>4. TypeOK
  <2>1. /\ path = 0 /\ tmp = 0 /\ minted = 0 /\ trust = {} /\ filed = {} /\ overlap = FALSE
        /\ content = [i \in Inodes |-> Partial] /\ pc = [p \in Procs |-> "idle"]
        /\ over = [p \in Procs |-> NoPeer] /\ fd = [p \in Procs |-> 0]
        /\ next = [p \in Procs |-> "idle"] /\ runs = [p \in Procs |-> 0]
    BY DEF Init
  <2>2. /\ content \in [Inodes -> Configs \cup {Partial}] /\ fd \in [Procs -> Inodes \cup {0}]
        /\ pc \in [Procs -> {"idle", "load", "pairing", "forgetting", "open", "write", "rename"}]
        /\ over \in [Procs -> Peers \cup {NoPeer}] /\ next \in [Procs -> {"pairing", "idle"}]
    BY <2>1
  <2>3. runs \in [Procs -> 0..RunBound] /\ minted \in 0..KeyBound
    BY <2>1, BoundAssumption
  <2>4. trust \in SUBSET (Peers \X (1..KeyBound)) /\ filed \in SUBSET Peers
    BY <2>1
  <2> QED
    BY <1>3, <2>1, <2>2, <2>3, <2>4 DEF TypeOK
<1>5. KnownInv /\ KindInv
  <2>1. /\ content = [i \in Inodes |-> Partial] /\ pc = [p \in Procs |-> "idle"]
        /\ next = [p \in Procs |-> "idle"]
    BY DEF Init
  <2>2. KindInv
    BY <2>1 DEF KindInv
  <2>3. \A p \in Procs: mem[p] = Blank(1)
    BY <1>1
  <2> QED
    BY <1>2, <2>1, <2>2, <2>3 DEF KnownInv
<1>6. SerialInv /\ FiledInv
  BY DEF Init, SerialInv, SerialOf, FiledInv, FiledOf, OnDisk
<1> QED
  BY <1>4, <1>5, <1>6 DEF IInv

LEMMA NextIInv == IInv /\ [Next]_vars => IInv'
<1> SUFFICES ASSUME IInv, [Next]_vars PROVE IInv'
  OBVIOUS
<1>1. ASSUME NEW p \in Procs, Command(p)
      PROVE  IInv'
  <2>1. CASE LoadFails(p) \/ Refused(p) \/ Dies(p)
    BY <2>1, RestKeeps DEF LoadFails, Refused, Dies
  <2>2. CASE RenameFails(p)
    BY <2>2, RestKeeps DEF RenameFails
  <2> QED
    BY <1>1, <2>1, <2>2, StartKeeps, LoadsKeeps, CreatesKeeps, PairsKeeps, ForgetsKeeps,
       OpensKeeps, WritesKeeps, RenamesKeeps DEF Command
<1>2. CASE UNCHANGED vars
  BY <1>2 DEF IInv, TypeOK, KnownInv, KindInv, SerialInv, SerialOf, FiledInv, FiledOf,
              OnDisk, Disk, Added
<1> QED
  BY <1>1, <1>2, LostKeeps DEF Next

\* The inductive invariant holds throughout.
THEOREM Invariant == Spec => []IInv
BY InitIInv, NextIInv, PTL DEF Spec

\* The variables keep their types, and the two names of the file (config.go's
\* path and its temporary file) never lead to the same one.
THEOREM TypeCorrect == Spec => []TypeOK
<1>1. IInv => TypeOK
  BY DEF IInv
<1> QED
  BY <1>1, Invariant, PTL

\* Whatever dies in the middle of Save, the file is absent or whole as long as
\* commands do not overlap; and whatever overlaps, a file that can be read
\* names no frame twice and has a default exactly when it has a frame.
THEOREM DiskUsableHolds == Spec => []DiskUsable
<1>1. IInv => DiskUsable
  <2> SUFFICES ASSUME IInv PROVE DiskUsable
    OBVIOUS
  <2>1. ~overlap => Usable
    BY DEF IInv, SerialInv, Usable, Readable, Disk
  <2>2. Readable => WellFormed(Disk)
    BY DEF IInv, TypeOK, KnownInv, Readable, Disk
  <2> QED
    BY <2>1, <2>2 DEF DiskUsable, WellFormed
<1> QED
  BY <1>1, Invariant, PTL

\* The frames on file are those whose pairing was saved and not undone since,
\* as long as commands do not overlap.
THEOREM PairedIsFiledHolds == Spec => []PairedIsFiled
<1>1. IInv => PairedIsFiled
  BY DEF IInv, FiledInv, OnDisk, FramesOf, PairedIsFiled
<1> QED
  BY <1>1, Invariant, PTL

\* Every frame on file is paired to the identity on file, however many
\* commands write the file over each other.
THEOREM FramesKnowUsHolds == Spec => []FramesKnowUs
<1>1. IInv => FramesKnowUs
  BY DEF IInv, TypeOK, KnownInv, Known, Readable, Disk, FramesKnowUs
<1> QED
  BY <1>1, Invariant, PTL

\* The identity on the disk changes only by way of a missing file.
THEOREM IdentityStableHolds == Spec => IdentityStable
<1>1. ASSUME IInv, [Next]_vars
      PROVE  [Readable /\ path' # 0 /\ ~overlap => content'[path'].key = Disk.key]_vars
  <2>1. SUFFICES ASSUME Next, Readable, path' # 0, ~overlap
                 PROVE  content'[path'].key = Disk.key
    BY <1>1
  <2>2. ASSUME NEW p \in Procs, Opens(p)
        PROVE  content'[path'].key = Disk.key
    BY <1>1, <2>1, <2>2, FreeInodeFacts DEF IInv, TypeOK, Opens, Disk
  <2>3. ASSUME NEW p \in Procs, Writes(p)
        PROVE  content'[path'].key = Disk.key
    <3>1. fd[p] # path /\ path' = path
      BY <1>1, <2>1, <2>3 DEF IInv, TypeOK, SerialInv, SerialOf, Writes
    <3>2. content'[path] = content[path]
      BY <3>1, <2>3 DEF Writes
    <3> QED
      BY <3>1, <3>2 DEF Disk
  <2>4. ASSUME NEW p \in Procs, Renames(p)
        PROVE  content'[path'].key = Disk.key
    <3>1. path' = tmp /\ content' = content /\ content[tmp] = mem[p]
      BY <1>1, <2>1, <2>4 DEF IInv, SerialInv, SerialOf, Renames
    <3>2. mem[p].key = Disk.key
      BY <1>1, <2>1, <2>4 DEF IInv, FiledInv, FiledOf, Readable, Renames
    <3> QED
      BY <3>1, <3>2
  <2>5. CASE UNCHANGED <<path, content>>
    BY <2>5 DEF Disk
  <2>6. ~Lost
    BY <2>1 DEF Lost
  <2> QED
    BY <2>1, <2>2, <2>3, <2>4, <2>5, <2>6
       DEF Next, Command, Start, Loads, LoadFails, Creates, Pairs, Forgets, Refused, RenameFails, Dies
<1> QED
  BY <1>1, Invariant, PTL DEF Spec, IdentityStable
===============================================================================
