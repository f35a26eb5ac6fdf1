------------------------------ MODULE FilesProof ------------------------------
(***************************************************************************)
(* The safety properties of Files.tla, for any number of processes and     *)
(* commands.  IInv is the inductive invariant: TypeOK, what get has done   *)
(* so far (GetInv), what the names on the disk say of the files            *)
(* (NamesInv), what has been reported (SavedInv), what is still to be      *)
(* fetched (WantedInv), and how far a send has come (SendInv).  On top of  *)
(* it, what is on the disk and whose it is (TempInv, BudgetInv), which     *)
(* needs what a fold adds up, for any number of files.                     *)
(***************************************************************************)
EXTENDS Files, FiniteSetTheorems, WellFoundedInduction, TLAPS

\* The state tuples, expanded wherever a step is split into its variables.
USE DEF vars, getVars, sendVars

GetStages == {"target", "dial", "fetch", "create", "write", "close", "rename", "remove"}
SendStages == {"check", "resolve", "copy", "judge", "send", "cleanup"}
InHand == {"create", "write", "close", "rename", "remove"}

Variants == {c.variant: c \in Commands}
File == [id: Photos, variant: Variants, bytes: Nat]
Source == [kept: Int, size: Nat, text: BOOLEAN]

TypeOK ==
  /\ line \in [Procs -> Commands]
  /\ pc \in [Procs -> GetStages \cup SendStages \cup Ended]
  /\ toFile \in [Procs -> BOOLEAN]
  /\ todo \in [Procs -> Seq(Photos)]
  /\ failed \in [Procs -> Nat]
  /\ wrote \in [Procs -> BOOLEAN]
  /\ disk \in [DOMAIN disk -> File]
  /\ webDir \in [Procs -> Seq(Int)]
  /\ body \in [Procs -> [size: Nat, text: BOOLEAN]]
  /\ budget \in [Procs -> Int]
  /\ sources \in [Procs -> Seq(Source)]
  /\ sent \in [Procs -> Seq(Source)]

\* The temporary file of a photo in hand is there, and is that photo's.
GetOf(p) ==
  /\ pc[p] \in GetStages => line[p].cmd = "get"
  /\ pc[p] \in SendStages => line[p].cmd # "get"
  /\ pc[p] \in InHand => todo[p] # <<>>
  /\ pc[p] \in {"write", "close", "rename"} =>
       /\ ~wrote[p] /\ Temp(p) \in DOMAIN disk
       /\ disk[Temp(p)].id = Head(todo[p]) /\ disk[Temp(p)].variant = line[p].variant
  /\ pc[p] \in {"close", "rename"} => disk[Temp(p)].bytes = Whole
  /\ pc[p] = "remove" /\ wrote[p] => Path(p) \in DOMAIN disk
GetInv == \A p \in Procs: GetOf(p)

\* A name tells the photo and the copy of it, and the file is whole.
Named(name, id, variant) == \E dir \in {".", "out"}: name = <<dir, FileName(id, variant)>>
NamesInv ==
  \A name \in DOMAIN disk: ~IsTemp(name) =>
    /\ disk[name].bytes = Whole
    /\ name # Out => Named(name, disk[name].id, disk[name].variant)

SavedInv ==
  \A s \in saved:
    /\ s.by \in Procs /\ s.id \in Photos
    /\ s.name \in DOMAIN disk /\ ~IsTemp(s.name)
    /\ s.name # Out => Named(s.name, s.id, line[s.by].variant)

Got(p, id) == \E s \in saved: s.by = p /\ s.id = id
WantedOf(p) ==
  line[p].cmd = "get" =>
    /\ pc[p] \in {"fetch"} \cup InHand /\ failed[p] = 0 =>
         \A id \in Wanted(p): id \in Range(todo[p]) \/ Got(p, id)
    /\ pc[p] = "ok" => \A id \in Wanted(p): Got(p, id)
WantedInv == \A p \in Procs: WantedOf(p)

\* Every argument is a whole file; nothing is sent before all of them are there,
\* and then in their order.
SendOf(p) ==
  /\ \A i \in DOMAIN sources[p]: /\ sources[p][i].kept = sources[p][i].size
                                 /\ sources[p][i].size > 0
                                 /\ line[p].args[i] = "url" => ~sources[p][i].text
  /\ pc[p] \in {"copy", "judge"} => webDir[p] # <<>>
  /\ pc[p] = "judge" => Kept(p) = IF body[p].size <= Limit(p) THEN body[p].size ELSE Limit(p)
  /\ pc[p] = "send" \/ sent[p] # <<>> =>
       pc[p] \in {"send", "cleanup"} \cup Ended /\ Len(sources[p]) = Len(line[p].args)
  /\ Len(sent[p]) <= Len(sources[p])
  /\ \A i \in DOMAIN sent[p]: sent[p][i] = sources[p][i]
SendInv == \A p \in Procs: SendOf(p)

IInv == TypeOK /\ GetInv /\ NamesInv /\ SavedInv /\ WantedInv /\ SendInv

-------------------------------------------------------------------------------
(* Names *)

LEMMA NameFacts ==
  ASSUME TypeOK, GetInv, NEW p \in Procs, NEW q \in Procs
  PROVE  /\ IsTemp(Temp(p)) /\ ~IsTemp(Out)
         /\ Temp(p) = Temp(q) => p = q
         /\ pc[p] \in InHand =>
              /\ ~IsTemp(Path(p))
              /\ Path(p) # Out => Named(Path(p), Head(todo[p]), line[p].variant)
              /\ Head(todo[p]) \in Photos /\ line[p].variant \in Variants
<1>1. IsTemp(Temp(p)) /\ ~IsTemp(Out) /\ (Temp(p) = Temp(q) => p = q)
  BY DEF IsTemp, Temp, Out
<1>2. ASSUME pc[p] \in InHand
      PROVE  /\ ~IsTemp(Path(p))
             /\ Path(p) # Out => Named(Path(p), Head(todo[p]), line[p].variant)
             /\ Head(todo[p]) \in Photos /\ line[p].variant \in Variants
  <2>1. line[p] \in Commands /\ line[p].out \in {".", "out"}
    BY <1>2, CommandAssumption DEF TypeOK, GetInv, GetOf, InHand, GetStages
  <2>2. line[p].variant \in Variants
    BY <2>1 DEF Variants
  <2>3. todo[p] \in Seq(Photos) /\ todo[p] # <<>>
    BY <1>2 DEF TypeOK, GetInv, GetOf
  <2>4. Head(todo[p]) \in Photos
    BY <2>3
  <2> QED
    BY <1>1, <2>1, <2>2, <2>4 DEF IsTemp, Path, Out, Named
<1> QED
  BY <1>1, <1>2

\* Photos whose ids differ, in their sign too, have different names.
LEMMA NamesDiffer ==
  ASSUME NEW i \in Photos, NEW j \in Photos, NEW u, NEW v, NEW d, NEW e,
         <<d, FileName(i, u)>> = <<e, FileName(j, v)>>
  PROVE  i = j /\ u = v
<1>1. FileName(i, u) = FileName(j, v)
  OBVIOUS
<1>2. /\ FileName(i, u)[2] = FileName(j, v)[2] /\ FileName(i, u)[3] = FileName(j, v)[3]
      /\ FileName(i, u)[4] = FileName(j, v)[4]
  BY <1>1
<1>3. ASSUME NEW k, NEW w
      PROVE  /\ FileName(k, w)[2] = IF k < 0 THEN "n" ELSE ""
             /\ FileName(k, w)[3] = IF k < 0 THEN -k ELSE k
             /\ FileName(k, w)[4] = w
  BY DEF FileName
<1>4. i \in Int /\ j \in Int
  BY PhotosAssumption
<1>5. u = v /\ (i < 0 <=> j < 0) /\ (IF i < 0 THEN -i ELSE i) = (IF j < 0 THEN -j ELSE j)
  <2>1. FileName(i, u)[2] = (IF i < 0 THEN "n" ELSE "") /\ FileName(j, v)[2] = (IF j < 0 THEN "n" ELSE "")
    BY <1>3
  <2>2. FileName(i, u)[3] = (IF i < 0 THEN -i ELSE i) /\ FileName(j, v)[3] = (IF j < 0 THEN -j ELSE j)
    BY <1>3
  <2>3. FileName(i, u)[4] = u /\ FileName(j, v)[4] = v
    BY <1>3
  <2>4. i < 0 <=> j < 0
    BY <1>2, <2>1
  <2> QED
    BY <1>2, <2>2, <2>3, <2>4
<1> QED
  BY <1>4, <1>5

LEMMA AllPhotos == SetToSeq(Photos) \in Seq(Photos) /\ Range(SetToSeq(Photos)) = Photos
<1> DEFINE n == Cardinality(Photos)
<1>1. n \in Nat /\ IsFiniteSet(1..n) /\ Cardinality(1..n) = n
  BY PhotosAssumption, FS_CardinalityType, FS_Interval
<1>2. ExistsBijection(1..n, Photos)
  BY <1>1, PhotosAssumption, FS_SameCardinalityBij
<1>3. \E f \in [1..n -> Photos]: IsInjective(f)
  BY <1>2 DEF ExistsBijection, Bijection, Injection, IsInjective
<1>4. SetToSeq(Photos) \in [1..n -> Photos] /\ IsInjective(SetToSeq(Photos))
  BY <1>3 DEF SetToSeq
<1>5. SetToSeq(Photos) \in Surjection(1..n, Photos)
  BY <1>1, <1>4, PhotosAssumption, FS_Injection DEF Injection
<1> QED
  BY <1>1, <1>4, <1>5 DEF Surjection, Range

-------------------------------------------------------------------------------
(* Steps that are no business of the other command *)

LEMMA SendQuiet ==
  ASSUME TypeOK, SendInv, NEW p \in Procs, pc[p] \in GetStages,
         NEW to \in GetStages \cup Ended, Goes(p, to), UNCHANGED <<line, sendVars>>
  PROVE  SendInv'
<1>1. sent[p] = <<>> /\ pc' = [pc EXCEPT ![p] = to]
  BY DEF SendInv, SendOf, GetStages, Ended, Goes
<1>2. /\ pc'[p] = to /\ to \notin {"copy", "judge", "send"}
      /\ \A q \in Procs: q # p => pc'[q] = pc[q]
  BY <1>1 DEF TypeOK, GetStages, Ended
<1> QED
  BY <1>1, <1>2 DEF SendInv, SendOf, Kept, Limit

LEMMA GetQuiet ==
  ASSUME TypeOK, GetInv, NamesInv, SavedInv, WantedInv, NEW p \in Procs, pc[p] \in SendStages,
         NEW to \in SendStages \cup Ended, Goes(p, to), UNCHANGED <<line, getVars>>
  PROVE  GetInv' /\ NamesInv' /\ SavedInv' /\ WantedInv'
<1>1. /\ pc'[p] = to /\ to \notin GetStages /\ to \notin InHand
      /\ \A q \in Procs: q # p => pc'[q] = pc[q]
      /\ line[p].cmd # "get"
  BY DEF TypeOK, GetInv, GetOf, Goes, GetStages, SendStages, Ended, InHand
<1>2. GetInv'
  <2>1. ASSUME NEW q \in Procs
        PROVE  GetOf(q)'
    <3>1. CASE q = p
      BY <1>1, <3>1 DEF GetOf, GetStages, InHand
    <3>2. CASE q # p
      BY <1>1, <3>2 DEF GetInv, GetOf, Temp, Path
    <3> QED
      BY <3>1, <3>2
  <2> QED
    BY <2>1 DEF GetInv
<1>3. NamesInv'
  BY DEF NamesInv
<1>4. SavedInv'
  BY DEF SavedInv
<1>5. WantedInv'
  BY <1>1 DEF WantedInv, WantedOf, Wanted, Got
<1> QED
  BY <1>2, <1>3, <1>4, <1>5

\* Who is killed leaves everything as it is.
LEMMA Killed ==
  ASSUME IInv, NEW p \in Procs, Dies(p)
  PROVE  IInv'
<1> USE DEF Dies, Goes
<1>1. /\ pc'[p] = "killed" /\ \A q \in Procs: q # p => pc'[q] = pc[q]
      /\ UNCHANGED <<line, getVars, sendVars>>
  BY DEF IInv, TypeOK
<1>2. TypeOK'
  BY DEF IInv, TypeOK, Ended
<1>3. GetInv'
  <2>1. GetInv
    BY DEF IInv
  <2>2. \A q \in Procs: q # p => Temp(q)' = Temp(q) /\ Path(q)' = Path(q)
    BY <1>1 DEF Temp, Path
  <2> HIDE DEF Dies, Goes
  <2> QED
    BY <1>1, <2>1, <2>2 DEF GetInv, GetOf, GetStages, SendStages, InHand
<1>4. NamesInv' /\ SavedInv'
  BY DEF IInv, NamesInv, SavedInv
<1>5. WantedInv'
  BY <1>1 DEF IInv, WantedInv, WantedOf, Wanted, Got, InHand
<1>6. SendInv'
  BY <1>1 DEF IInv, SendInv, SendOf, Kept, Limit, Ended
<1> QED
  BY <1>2, <1>3, <1>4, <1>5, <1>6 DEF IInv

-------------------------------------------------------------------------------
(* The steps of a get *)

\* What p does with its own file, and with a name that looks finished, leaves
\* the others where they are.
LEMMA Others ==
  ASSUME TypeOK, GetInv, WantedInv, NEW p \in Procs, NEW q \in Procs, p # q,
         UNCHANGED line, saved \subseteq saved',
         pc'[q] = pc[q], todo'[q] = todo[q], toFile'[q] = toFile[q],
         wrote'[q] = wrote[q], failed'[q] = failed[q],
         Temp(q) \in DOMAIN disk => Temp(q) \in DOMAIN disk' /\ disk'[Temp(q)] = disk[Temp(q)],
         \A name \in DOMAIN disk: ~IsTemp(name) => name \in DOMAIN disk'
  PROVE  GetOf(q)' /\ WantedOf(q)'
<1>1. Temp(q)' = Temp(q) /\ Path(q)' = Path(q)
  BY DEF Temp, Path
<1>2. pc[q] = "remove" => ~IsTemp(Path(q))
  BY NameFacts DEF InHand
<1>3. GetOf(q) /\ WantedOf(q)
  BY DEF GetInv, WantedInv
<1>4. GetOf(q)'
  BY <1>1, <1>2, <1>3 DEF GetOf
<1>5. WantedOf(q)'
  BY <1>3 DEF WantedOf, Wanted, Got
<1> QED
  BY <1>4, <1>5

LEMMA HeadTail ==
  ASSUME NEW S, NEW q \in Seq(S), q # <<>>
  PROVE  /\ Head(q) \in S /\ Tail(q) \in Seq(S)
         /\ Range(q) = {Head(q)} \cup Range(Tail(q))
<1>1. /\ Head(q) \in S /\ Tail(q) \in Seq(S) /\ Head(q) = q[1]
      /\ Len(q) \in Nat \ {0} /\ DOMAIN q = 1..Len(q) /\ DOMAIN Tail(q) = 1..(Len(q) - 1)
      /\ \A i \in 1..(Len(q) - 1): Tail(q)[i] = q[i + 1]
  OBVIOUS
<1>2. ASSUME NEW i \in 1..Len(q), i # 1
      PROVE  i - 1 \in 1..(Len(q) - 1) /\ Tail(q)[i - 1] = q[i]
  <2>1. i - 1 \in 1..(Len(q) - 1) /\ (i - 1) + 1 = i
    BY <1>1, <1>2
  <2> QED
    BY <1>1, <2>1
<1>3. \A i \in 1..(Len(q) - 1): i + 1 \in 1..Len(q)
  BY <1>1
<1>4. 1 \in 1..Len(q)
  BY <1>1
<1>5. ASSUME NEW x \in Range(q) PROVE x = Head(q) \/ x \in Range(Tail(q))
  <2>1. PICK i \in 1..Len(q): x = q[i]
    BY <1>1 DEF Range
  <2> QED
    BY <1>1, <1>2, <2>1 DEF Range
<1>6. Head(q) \in Range(q) /\ \A i \in 1..(Len(q) - 1): Tail(q)[i] \in Range(q)
  BY <1>1, <1>3, <1>4 DEF Range
<1>7. \A x \in Range(Tail(q)): x \in Range(q)
  BY <1>1, <1>6 DEF Range
<1> QED
  BY <1>1, <1>5, <1>6, <1>7

\* Choosing a target, reaching the frame, fetching, and the end: the disk is as
\* it was.
LEMMA ControlStep ==
  ASSUME IInv, NEW p \in Procs, SettlesTarget(p) \/ Begins(p) \/ FinishesGet(p) \/ ClosesTemp(p)
  PROVE  IInv'
<1> USE DEF IInv
<1>1. PICK to \in GetStages \cup Ended:
        /\ pc[p] \in GetStages /\ Goes(p, to) /\ UNCHANGED <<line, failed, wrote, saved, disk, sendVars>>
  BY DEF SettlesTarget, Begins, FinishesGet, ClosesTemp, GetStages, Ended
<1>2. /\ pc'[p] = to /\ pc' \in [Procs -> GetStages \cup SendStages \cup Ended]
      /\ \A q \in Procs: q # p => pc'[q] = pc[q]
  BY <1>1 DEF TypeOK, Goes
<1>3. line[p].cmd = "get" /\ line[p] \in Commands
  BY <1>1 DEF TypeOK, GetInv, GetOf
<1>4. /\ toFile' \in [Procs -> BOOLEAN] /\ todo' \in [Procs -> Seq(Photos)]
      /\ \A q \in Procs: q # p => toFile'[q] = toFile[q] /\ todo'[q] = todo[q]
  <2>1. line[p].ids \in Seq(Photos)
    BY <1>3, CommandAssumption
  <2>2. UNCHANGED toFile \/ \E b \in BOOLEAN: toFile' = [toFile EXCEPT ![p] = b]
    BY DEF SettlesTarget, Begins, FinishesGet, ClosesTemp
  <2>3. UNCHANGED todo \/ \E t \in Seq(Photos): todo' = [todo EXCEPT ![p] = t]
    BY <2>1, AllPhotos DEF SettlesTarget, Begins, FinishesGet, ClosesTemp
  <2> QED
    BY <2>2, <2>3 DEF TypeOK
<1>5. TypeOK'
  BY <1>1, <1>2, <1>4 DEF TypeOK
<1>6. SendInv'
  BY <1>1, SendQuiet
<1>7. NamesInv' /\ SavedInv'
  BY <1>1 DEF NamesInv, SavedInv
<1>8. \A q \in Procs: q # p => GetOf(q)' /\ WantedOf(q)'
  BY <1>1, <1>2, <1>4, Others DEF Temp
<1>9. GetOf(p)'
  <2>1. CASE ClosesTemp(p)
    <3>1. /\ pc[p] = "close" /\ to \in {"rename", "remove"} /\ UNCHANGED todo
      BY <1>1, <1>2, <2>1 DEF ClosesTemp, Goes, TypeOK
    <3>2. Temp(p)' = Temp(p)
      BY DEF Temp
    <3> QED
      BY <1>1, <1>2, <1>3, <3>1, <3>2 DEF GetInv, GetOf, GetStages, SendStages, InHand
  <2>2. CASE ~ClosesTemp(p)
    <3>1. to \notin InHand /\ to \notin SendStages
      BY <1>2, <2>2 DEF SettlesTarget, Begins, FinishesGet, Goes, TypeOK, InHand, SendStages
    <3> QED
      BY <1>1, <1>2, <1>3, <3>1 DEF GetOf, InHand
  <2> QED
    BY <2>1, <2>2
<1>10. WantedOf(p)'
  <2> USE <1>1, <1>2, <1>3 DEF WantedOf, Got
  <2>1. Wanted(p)' = Wanted(p)
    BY DEF Wanted
  <2>2. CASE SettlesTarget(p)
    BY <2>2 DEF SettlesTarget, Goes, TypeOK, InHand
  <2>3. CASE Begins(p)
    <3>1. CASE to = "fetch"
      <4>1. todo'[p] = IF line[p].ids # <<>> THEN line[p].ids ELSE SetToSeq(Photos)
        BY <2>3, <3>1 DEF Begins, Goes, TypeOK
      <4>2. Range(todo'[p]) = Wanted(p)
        BY <4>1, AllPhotos DEF Wanted
      <4> QED
        BY <2>1, <3>1, <4>2
    <3>2. CASE to = "ok"
      <4>1. line[p].ids = <<>> /\ Photos = {}
        BY <2>3, <3>2 DEF Begins, Goes, TypeOK
      <4> QED
        BY <2>1, <3>2, <4>1 DEF Wanted, InHand
    <3>3. to \in {"fetch", "ok", "failed"}
      BY <2>3 DEF Begins, Goes, TypeOK
    <3> QED
      BY <3>1, <3>2, <3>3 DEF InHand
  <2>4. CASE FinishesGet(p)
    <3>1. todo[p] = <<>> /\ pc[p] = "fetch" /\ (to = "ok" => failed[p] = 0) /\ to \in {"ok", "failed"}
      BY <2>4 DEF FinishesGet, Goes, TypeOK
    <3>2. Range(todo[p]) = {}
      BY <3>1 DEF Range
    <3> QED
      BY <2>1, <3>1, <3>2 DEF WantedInv, InHand
  <2>5. CASE ClosesTemp(p)
    <3>1. UNCHANGED todo /\ pc[p] \in InHand /\ to \in InHand /\ to # "ok"
      BY <2>5 DEF ClosesTemp, Goes, TypeOK, InHand
    <3> QED
      BY <2>1, <3>1 DEF WantedInv
  <2> QED
    BY <2>2, <2>3, <2>4, <2>5
<1> QED
  BY <1>5, <1>6, <1>7, <1>8, <1>9, <1>10 DEF GetInv, WantedInv

\* A photo that is given up is counted, and the exit status with it.
LEMMA CountsStep ==
  ASSUME IInv, NEW p \in Procs, NEW good \in BOOLEAN, pc[p] \in InHand \/ pc[p] = "fetch",
         todo[p] # <<>>, Counts(p, good), UNCHANGED <<line, toFile>>,
         saved \subseteq saved', good => \E s \in saved': s.by = p /\ s.id = Head(todo[p])
  PROVE  /\ todo' \in [Procs -> Seq(Photos)] /\ failed' \in [Procs -> Nat]
         /\ pc' \in [Procs -> GetStages \cup SendStages \cup Ended] /\ pc'[p] = "fetch"
         /\ \A q \in Procs: q # p => /\ pc'[q] = pc[q] /\ todo'[q] = todo[q]
                                     /\ failed'[q] = failed[q]
         /\ GetOf(p)' /\ WantedOf(p)'
<1> USE DEF IInv, Counts, Goes
<1>1. /\ todo[p] \in Seq(Photos) /\ Tail(todo[p]) \in Seq(Photos)
      /\ Range(todo[p]) = {Head(todo[p])} \cup Range(Tail(todo[p]))
  BY HeadTail DEF TypeOK
<1>2. /\ todo' \in [Procs -> Seq(Photos)] /\ todo'[p] = Tail(todo[p])
      /\ \A q \in Procs: q # p => todo'[q] = todo[q]
  BY <1>1 DEF TypeOK
<1>3. /\ failed' \in [Procs -> Nat] /\ failed'[p] = (IF good THEN failed[p] ELSE failed[p] + 1)
      /\ failed[p] \in Nat /\ \A q \in Procs: q # p => failed'[q] = failed[q]
  BY DEF TypeOK
<1>4. /\ pc' \in [Procs -> GetStages \cup SendStages \cup Ended] /\ pc'[p] = "fetch"
      /\ \A q \in Procs: q # p => pc'[q] = pc[q]
  BY DEF TypeOK, GetStages
<1>5. line[p].cmd = "get"
  BY DEF GetInv, GetOf, GetStages, InHand
<1>6. GetOf(p)'
  BY <1>4, <1>5 DEF GetOf, GetStages, SendStages, InHand
<1>7. WantedOf(p)'
  <2>1. failed'[p] = 0 => good /\ failed[p] = 0
    BY <1>3
  <2>2. failed[p] = 0 => \A id \in Wanted(p): id \in Range(todo[p]) \/ Got(p, id)
    BY <1>5 DEF WantedInv, WantedOf
  <2>3. Wanted(p)' = Wanted(p) /\ \A id: Got(p, id) => Got(p, id)'
    BY DEF Wanted, Got
  <2>4. failed'[p] = 0 => \A id \in Wanted(p): id \in Range(todo'[p]) \/ Got(p, id)'
    <3> SUFFICES ASSUME failed'[p] = 0, NEW id \in Wanted(p)
                 PROVE  id \in Range(todo'[p]) \/ Got(p, id)'
      OBVIOUS
    <3>1. id \in Range(todo[p]) \/ Got(p, id)
      BY <2>1, <2>2
    <3>2. CASE id = Head(todo[p])
      BY <2>1, <3>2 DEF Got
    <3>3. CASE id \in Range(Tail(todo[p])) \/ Got(p, id)
      BY <1>2, <2>3, <3>3
    <3> QED
      BY <1>1, <3>1, <3>2, <3>3
  <2> QED
    BY <1>4, <1>5, <2>3, <2>4 DEF WantedOf
<1> QED
  BY <1>2, <1>3, <1>4, <1>6, <1>7

LEMMA FetchStep ==
  ASSUME IInv, NEW p \in Procs, Fetches(p)
  PROVE  IInv'
<1> USE DEF IInv
<1>1. /\ pc[p] = "fetch" /\ todo[p] # <<>> /\ UNCHANGED <<line, toFile, wrote, saved, disk, sendVars>>
      /\ line[p].cmd = "get"
  BY DEF Fetches, GetInv, GetOf, GetStages
<1>2. NamesInv' /\ SavedInv'
  BY <1>1 DEF NamesInv, SavedInv
<1>3. CASE Goes(p, "create") /\ UNCHANGED <<todo, failed>>
  <2>1. /\ pc' \in [Procs -> GetStages \cup SendStages \cup Ended] /\ pc'[p] = "create"
        /\ \A q \in Procs: q # p => pc'[q] = pc[q]
    BY <1>3 DEF Goes, TypeOK, GetStages
  <2>2. TypeOK'
    BY <1>1, <1>3, <2>1 DEF TypeOK
  <2>3. SendInv'
    BY <1>1, <1>3, SendQuiet DEF GetStages
  <2>4. GetOf(p)'
    BY <1>1, <1>3, <2>1 DEF GetOf, GetStages, SendStages
  <2>5. WantedOf(p)'
    BY <1>1, <1>3, <2>1 DEF WantedInv, WantedOf, Wanted, Got, InHand
  <2>6. \A q \in Procs: q # p => GetOf(q)' /\ WantedOf(q)'
    BY <1>1, <1>3, <2>1, Others DEF Temp
  <2> QED
    BY <1>2, <2>2, <2>3, <2>4, <2>5, <2>6 DEF GetInv, WantedInv
<1>4. CASE Counts(p, FALSE)
  <2>1. SendInv'
    BY <1>1, <1>4, SendQuiet DEF GetStages, Counts
  <2>2. /\ todo' \in [Procs -> Seq(Photos)] /\ failed' \in [Procs -> Nat]
        /\ pc' \in [Procs -> GetStages \cup SendStages \cup Ended]
        /\ \A q \in Procs: q # p => /\ pc'[q] = pc[q] /\ todo'[q] = todo[q]
                                    /\ failed'[q] = failed[q]
        /\ GetOf(p)' /\ WantedOf(p)'
    BY <1>1, <1>4, CountsStep
  <2>3. TypeOK'
    BY <1>1, <2>2 DEF TypeOK
  <2>4. \A q \in Procs: q # p => GetOf(q)' /\ WantedOf(q)'
    BY <1>1, <2>2, Others DEF Temp
  <2> QED
    BY <1>2, <2>1, <2>2, <2>3, <2>4 DEF GetInv, WantedInv
<1> QED
  BY <1>3, <1>4 DEF Fetches

LEMMA CreateStep ==
  ASSUME IInv, NEW p \in Procs, CreatesTemp(p)
  PROVE  IInv'
<1> USE DEF IInv
<1>1. /\ pc[p] = "create" /\ todo[p] # <<>> /\ UNCHANGED <<line, toFile, saved, sendVars>>
      /\ line[p].cmd = "get" /\ wrote' = [wrote EXCEPT ![p] = FALSE]
  BY DEF CreatesTemp, GetInv, GetOf, GetStages, InHand
<1>2. /\ wrote' \in [Procs -> BOOLEAN] /\ ~wrote'[p]
      /\ \A q \in Procs: q # p => wrote'[q] = wrote[q]
  BY <1>1, Zenon DEF TypeOK
<1>3. CASE /\ Goes(p, "write") /\ UNCHANGED <<todo, failed>>
           /\ disk' = [name \in DOMAIN disk \cup {Temp(p)} |->
                         IF name = Temp(p) THEN Holding(p, 0) ELSE disk[name]]
  <2>1. /\ pc' \in [Procs -> GetStages \cup SendStages \cup Ended] /\ pc'[p] = "write"
        /\ \A q \in Procs: q # p => pc'[q] = pc[q]
    BY <1>3 DEF Goes, TypeOK, GetStages
  <2>2. Holding(p, 0) \in File /\ Holding(p, 0).id = Head(todo[p])
        /\ Holding(p, 0).variant = line[p].variant
    BY <1>1, NameFacts DEF Holding, File, InHand
  <2>4. /\ DOMAIN disk' = DOMAIN disk \cup {Temp(p)}
        /\ disk'[Temp(p)] = Holding(p, 0)
        /\ \A name \in DOMAIN disk: name # Temp(p) => disk'[name] = disk[name]
    BY <1>3
  <2>5. disk' \in [DOMAIN disk' -> File]
    BY <1>3, <2>2 DEF TypeOK
  <2>6. TypeOK'
    BY <1>1, <1>2, <1>3, <2>1, <2>5 DEF TypeOK
  <2>7. SendInv'
    BY <1>1, <1>3, SendQuiet DEF GetStages
  <2>8. GetOf(p)'
    <3>1. Temp(p)' = Temp(p)
      BY DEF Temp
    <3> QED
      BY <1>1, <1>2, <1>3, <2>1, <2>2, <2>4, <3>1 DEF GetOf, GetStages, SendStages, InHand
  <2>9. WantedOf(p)'
    BY <1>1, <1>3, <2>1 DEF WantedInv, WantedOf, Wanted, Got, InHand
  <2>10. \A q \in Procs: q # p => GetOf(q)' /\ WantedOf(q)'
    BY <1>1, <1>2, <1>3, <2>1, <2>4, NameFacts, Others
  <2>11. NamesInv' /\ SavedInv'
    <3>1. \A name \in DOMAIN disk': ~IsTemp(name) => name \in DOMAIN disk /\ disk'[name] = disk[name]
      BY <2>4, NameFacts
    <3> QED
      BY <1>1, <2>4, <3>1 DEF NamesInv, SavedInv, Named
  <2> QED
    BY <2>6, <2>7, <2>8, <2>9, <2>10, <2>11 DEF GetInv, WantedInv
<1>4. CASE Counts(p, FALSE) /\ UNCHANGED disk
  <2>1. SendInv'
    BY <1>1, <1>4, SendQuiet DEF GetStages, Counts
  <2>2. /\ todo' \in [Procs -> Seq(Photos)] /\ failed' \in [Procs -> Nat]
        /\ pc' \in [Procs -> GetStages \cup SendStages \cup Ended]
        /\ \A q \in Procs: q # p => /\ pc'[q] = pc[q] /\ todo'[q] = todo[q]
                                    /\ failed'[q] = failed[q]
        /\ GetOf(p)' /\ WantedOf(p)'
    BY <1>1, <1>4, CountsStep DEF InHand
  <2>3. TypeOK'
    BY <1>1, <1>2, <1>4, <2>2 DEF TypeOK
  <2>4. \A q \in Procs: q # p => GetOf(q)' /\ WantedOf(q)'
    BY <1>1, <1>2, <1>4, <2>2, Others DEF Temp
  <2>5. NamesInv' /\ SavedInv'
    BY <1>1, <1>4 DEF NamesInv, SavedInv
  <2> QED
    BY <2>1, <2>2, <2>3, <2>4, <2>5 DEF GetInv, WantedInv
<1> QED
  BY <1>3, <1>4 DEF CreatesTemp

LEMMA WriteStep ==
  ASSUME IInv, NEW p \in Procs, Writes(p)
  PROVE  IInv'
<1> USE DEF IInv
<1>1. /\ pc[p] = "write" /\ todo[p] # <<>> /\ Temp(p) \in DOMAIN disk /\ ~wrote[p]
      /\ disk[Temp(p)].id = Head(todo[p]) /\ disk[Temp(p)].variant = line[p].variant
      /\ line[p].cmd = "get" /\ UNCHANGED <<line, toFile, todo, failed, wrote, saved, sendVars>>
  BY DEF Writes, GetInv, GetOf, GetStages, InHand
<1>2. disk[Temp(p)] \in File /\ Whole \in Nat
  BY <1>1, PhotosAssumption DEF TypeOK
<1>3. PICK bytes \in disk[Temp(p)].bytes..Whole:
        /\ disk' = [disk EXCEPT ![Temp(p)].bytes = bytes]
        /\ Goes(p, IF bytes = Whole THEN "close" ELSE "remove")
  BY DEF Writes
<1>4. bytes \in Nat
  BY <1>2, <1>3 DEF File
<1>5. /\ DOMAIN disk' = DOMAIN disk
      /\ disk'[Temp(p)].id = disk[Temp(p)].id /\ disk'[Temp(p)].variant = disk[Temp(p)].variant
      /\ disk'[Temp(p)].bytes = bytes /\ disk'[Temp(p)] \in File
      /\ \A name \in DOMAIN disk: name # Temp(p) => disk'[name] = disk[name]
  BY <1>1, <1>2, <1>3, <1>4 DEF File, TypeOK
<1>6. disk' \in [DOMAIN disk' -> File]
  <2>1. disk' = [name \in DOMAIN disk |-> disk'[name]]
    BY <1>3 DEF TypeOK
  <2>2. \A name \in DOMAIN disk: disk'[name] \in File
    BY <1>5 DEF TypeOK
  <2> QED
    BY <1>5, <2>1, <2>2
<1>7. /\ pc' \in [Procs -> GetStages \cup SendStages \cup Ended]
      /\ pc'[p] \in {"close", "remove"} /\ (pc'[p] = "close" => bytes = Whole)
      /\ \A q \in Procs: q # p => pc'[q] = pc[q]
  BY <1>3 DEF Goes, TypeOK, GetStages
<1>8. TypeOK'
  BY <1>1, <1>6, <1>7 DEF TypeOK
<1>9. SendInv'
  BY <1>1, <1>3, SendQuiet DEF GetStages
<1>10. GetOf(p)'
  <2>1. Temp(p)' = Temp(p)
    BY DEF Temp
  <2> QED
    BY <1>1, <1>5, <1>7, <2>1 DEF GetOf, GetStages, SendStages, InHand
<1>11. WantedOf(p)'
  BY <1>1, <1>7 DEF WantedInv, WantedOf, Wanted, Got, InHand
<1>12. \A q \in Procs: q # p => GetOf(q)' /\ WantedOf(q)'
  BY <1>1, <1>5, <1>7, NameFacts, Others
<1>13. NamesInv' /\ SavedInv'
  <2>1. \A name \in DOMAIN disk': ~IsTemp(name) => name \in DOMAIN disk /\ disk'[name] = disk[name]
    BY <1>5, NameFacts
  <2> QED
    BY <1>1, <1>5, <2>1 DEF NamesInv, SavedInv, Named
<1> QED
  BY <1>8, <1>9, <1>10, <1>11, <1>12, <1>13 DEF GetInv, WantedInv

\* The rename gives the finished name to a whole photo, the one it names.
LEMMA RenameStep ==
  ASSUME IInv, NEW p \in Procs, Renames(p)
  PROVE  IInv'
<1> USE DEF IInv
<1>1. /\ pc[p] = "rename" /\ todo[p] # <<>> /\ Temp(p) \in DOMAIN disk /\ ~wrote[p]
      /\ disk[Temp(p)].id = Head(todo[p]) /\ disk[Temp(p)].variant = line[p].variant
      /\ disk[Temp(p)].bytes = Whole /\ disk[Temp(p)] \in File
      /\ line[p].cmd = "get" /\ UNCHANGED <<line, toFile, todo, failed, saved, sendVars>>
  BY DEF Renames, GetInv, GetOf, GetStages, InHand, TypeOK
<1>2. /\ pc' \in [Procs -> GetStages \cup SendStages \cup Ended] /\ pc'[p] = "remove"
      /\ \A q \in Procs: q # p => pc'[q] = pc[q]
  BY DEF Renames, Goes, TypeOK, GetStages
<1>3. SendInv'
  BY <1>1, SendQuiet DEF Renames, GetStages
<1>4. WantedOf(p)'
  BY <1>1, <1>2 DEF WantedInv, WantedOf, Wanted, Got, InHand
<1>5. Temp(p)' = Temp(p) /\ Path(p)' = Path(p)
  BY <1>1 DEF Temp, Path
<1>6. /\ ~IsTemp(Path(p)) /\ Path(p) # Temp(p)
      /\ Path(p) # Out => Named(Path(p), disk[Temp(p)].id, disk[Temp(p)].variant)
  BY <1>1, NameFacts DEF InHand
<1>7. CASE /\ disk' = [name \in (DOMAIN disk \cup {Path(p)}) \ {Temp(p)} |->
                         IF name = Path(p) THEN disk[Temp(p)] ELSE disk[name]]
           /\ wrote' = [wrote EXCEPT ![p] = TRUE]
  <2>1. /\ DOMAIN disk' = (DOMAIN disk \cup {Path(p)}) \ {Temp(p)}
        /\ disk'[Path(p)] = disk[Temp(p)] /\ Path(p) \in DOMAIN disk'
        /\ \A name \in DOMAIN disk': name # Path(p) => name \in DOMAIN disk /\ disk'[name] = disk[name]
    BY <1>6, <1>7
  <2>2. wrote' \in [Procs -> BOOLEAN] /\ \A q \in Procs: q # p => wrote'[q] = wrote[q]
    BY <1>7, Zenon DEF TypeOK
  <2>3. disk' \in [DOMAIN disk' -> File]
    <3>1. \A name \in DOMAIN disk': disk'[name] \in File
      BY <1>1, <2>1 DEF TypeOK
    <3>2. disk' = [name \in DOMAIN disk' |-> disk'[name]]
      BY <1>7
    <3> QED
      BY <3>1, <3>2
  <2>4. TypeOK'
    BY <1>1, <1>2, <2>2, <2>3 DEF TypeOK
  <2>5. GetOf(p)'
    BY <1>1, <1>2, <1>5, <2>1 DEF GetOf, GetStages, SendStages, InHand
  <2>6. \A name \in DOMAIN disk: ~IsTemp(name) => name \in DOMAIN disk'
    BY <2>1, NameFacts
  <2>7. ASSUME NEW q \in Procs, q # p PROVE GetOf(q)' /\ WantedOf(q)'
    <3>1. Temp(q) \in DOMAIN disk => Temp(q) \in DOMAIN disk' /\ disk'[Temp(q)] = disk[Temp(q)]
      BY <1>6, <2>1, <2>7, NameFacts
    <3> QED
      BY <1>1, <1>2, <2>2, <2>6, <2>7, <3>1, Others
  <2>8. NamesInv'
    BY <1>1, <1>6, <2>1 DEF NamesInv, Named
  <2>9. SavedInv'
    BY <1>1, <2>6 DEF SavedInv, Named
  <2> QED
    BY <1>3, <1>4, <2>4, <2>5, <2>7, <2>8, <2>9 DEF GetInv, WantedInv
<1>8. CASE UNCHANGED <<disk, wrote>>
  <2>1. TypeOK'
    BY <1>1, <1>2, <1>8 DEF TypeOK
  <2>2. GetOf(p)'
    BY <1>1, <1>2, <1>8 DEF GetOf, GetStages, SendStages, InHand
  <2>3. \A q \in Procs: q # p => GetOf(q)' /\ WantedOf(q)'
    BY <1>1, <1>2, <1>8, Others
  <2>4. NamesInv' /\ SavedInv'
    BY <1>1, <1>8 DEF NamesInv, SavedInv
  <2> QED
    BY <1>3, <1>4, <2>1, <2>2, <2>3, <2>4 DEF GetInv, WantedInv
<1> QED
  BY <1>7, <1>8 DEF Renames

LEMMA RemoveStep ==
  ASSUME IInv, NEW p \in Procs, RemovesTemp(p)
  PROVE  IInv'
<1> USE DEF IInv
<1>1. /\ pc[p] = "remove" /\ todo[p] # <<>> /\ line[p].cmd = "get"
      /\ wrote[p] => Path(p) \in DOMAIN disk
      /\ UNCHANGED <<line, toFile, wrote, sendVars>>
  BY DEF RemovesTemp, GetInv, GetOf, GetStages, InHand
<1>2. /\ Head(todo[p]) \in Photos /\ ~IsTemp(Path(p))
      /\ Path(p) # Out => Named(Path(p), Head(todo[p]), line[p].variant)
  BY <1>1, NameFacts DEF InHand
<1>3. disk' = [name \in DOMAIN disk \ {Temp(p)} |-> disk[name]]
  BY DEF RemovesTemp, Restrict
<1>4. /\ DOMAIN disk' = DOMAIN disk \ {Temp(p)} /\ disk' \in [DOMAIN disk' -> File]
      /\ \A name \in DOMAIN disk': disk'[name] = disk[name]
      /\ \A name \in DOMAIN disk: ~IsTemp(name) => name \in DOMAIN disk'
  <2>1. /\ DOMAIN disk' = DOMAIN disk \ {Temp(p)} /\ disk' = [name \in DOMAIN disk' |-> disk'[name]]
        /\ \A name \in DOMAIN disk': disk'[name] = disk[name]
    BY <1>3
  <2>2. disk' \in [DOMAIN disk' -> File]
    <3>1. \A name \in DOMAIN disk': disk'[name] \in File
      BY <2>1 DEF TypeOK
    <3> QED
      BY <2>1, <3>1
  <2>3. \A name \in DOMAIN disk: ~IsTemp(name) => name \in DOMAIN disk'
    BY <2>1, NameFacts
  <2> QED
    BY <2>1, <2>2, <2>3
<1> DEFINE new == [by |-> p, id |-> Head(todo[p]), name |-> Path(p)]
<1>5. saved' = IF wrote[p] THEN saved \cup {new} ELSE saved
  BY DEF RemovesTemp
<1>6. saved \subseteq saved' /\ (wrote[p] => \E s \in saved': s.by = p /\ s.id = Head(todo[p]))
  <2>1. new.by = p /\ new.id = Head(todo[p])
    OBVIOUS
  <2> HIDE DEF new
  <2> QED
    BY <1>5, <2>1
<1>7. wrote[p] \in BOOLEAN /\ Counts(p, wrote[p])
  BY DEF TypeOK, RemovesTemp
<1>8. /\ todo' \in [Procs -> Seq(Photos)] /\ failed' \in [Procs -> Nat]
      /\ pc' \in [Procs -> GetStages \cup SendStages \cup Ended]
      /\ \A q \in Procs: q # p => /\ pc'[q] = pc[q] /\ todo'[q] = todo[q]
                                  /\ failed'[q] = failed[q]
      /\ GetOf(p)' /\ WantedOf(p)'
  BY <1>1, <1>6, <1>7, CountsStep DEF InHand
<1>9. TypeOK'
  BY <1>1, <1>4, <1>8 DEF TypeOK
<1>10. SendInv'
  BY <1>1, <1>7, SendQuiet DEF GetStages, Counts
<1>11. ASSUME NEW q \in Procs, q # p PROVE GetOf(q)' /\ WantedOf(q)'
  <2>1. Temp(q) \in DOMAIN disk => Temp(q) \in DOMAIN disk' /\ disk'[Temp(q)] = disk[Temp(q)]
    BY <1>4, <1>11, NameFacts
  <2> QED
    BY <1>1, <1>4, <1>6, <1>8, <1>11, <2>1, Others
<1>12. NamesInv'
  BY <1>4 DEF NamesInv, Named
<1>13. SavedInv'
  <2>1. ASSUME wrote[p]
        PROVE  /\ new.by \in Procs /\ new.id \in Photos
               /\ new.name \in DOMAIN disk' /\ ~IsTemp(new.name)
               /\ new.name # Out => Named(new.name, new.id, line'[new.by].variant)
    BY <1>1, <1>2, <1>4, <2>1
  <2>2. ASSUME NEW s \in saved
        PROVE  /\ s.by \in Procs /\ s.id \in Photos /\ s.name \in DOMAIN disk' /\ ~IsTemp(s.name)
               /\ s.name # Out => Named(s.name, s.id, line'[s.by].variant)
    BY <1>1, <1>4 DEF SavedInv
  <2> HIDE DEF new
  <2> QED
    BY <1>5, <2>1, <2>2 DEF SavedInv, Named
<1> QED
  BY <1>8, <1>9, <1>10, <1>11, <1>12, <1>13 DEF GetInv, WantedInv

-------------------------------------------------------------------------------
(* The steps of a send *)

LEMMA Lasts ==
  ASSUME NEW S, NEW q \in Seq(S), NEW e \in S
  PROVE  /\ Append(q, e) \in Seq(S) /\ Append(q, e) # <<>> /\ Last(Append(q, e)) = e
         /\ Len(Append(q, e)) = Len(q) + 1
         /\ \A i \in DOMAIN Append(q, e): \/ i \in DOMAIN q /\ Append(q, e)[i] = q[i]
                                          \/ i = Len(q) + 1 /\ Append(q, e)[i] = e
<1>1. /\ Append(q, e) \in Seq(S) /\ Append(q, e) # <<>> /\ Len(Append(q, e)) = Len(q) + 1
      /\ Append(q, e)[Len(q) + 1] = e /\ Len(q) \in Nat /\ DOMAIN q = 1..Len(q)
      /\ DOMAIN Append(q, e) = 1..(Len(q) + 1)
      /\ \A i \in 1..Len(q): Append(q, e)[i] = q[i]
  OBVIOUS
<1>2. \A i \in 1..(Len(q) + 1): i \in 1..Len(q) \/ i = Len(q) + 1
  BY <1>1
<1>3. Last(Append(q, e)) = e
  BY <1>1 DEF Last
<1> QED
  BY <1>1, <1>2, <1>3

LEMMA Fronts ==
  ASSUME NEW S, NEW q \in Seq(S), q # <<>>
  PROVE  Front(q) \in Seq(S) /\ Last(q) \in S
BY DEF Front, Last

\* A send touches nothing but what is its own.
LEMMA SendFrame ==
  ASSUME IInv, NEW p \in Procs, pc[p] \in SendStages,
         NEW to \in SendStages \cup Ended, Goes(p, to), UNCHANGED <<line, getVars>>,
         webDir' \in [Procs -> Seq(Int)], body' \in [Procs -> [size: Nat, text: BOOLEAN]],
         budget' \in [Procs -> Int], sources' \in [Procs -> Seq(Source)],
         sent' \in [Procs -> Seq(Source)],
         \A q \in Procs: q # p =>
           /\ webDir'[q] = webDir[q] /\ body'[q] = body[q] /\ budget'[q] = budget[q]
           /\ sources'[q] = sources[q] /\ sent'[q] = sent[q],
         SendOf(p)'
  PROVE  IInv'
<1> USE DEF IInv
<1>1. GetInv' /\ NamesInv' /\ SavedInv' /\ WantedInv'
  BY GetQuiet
<1>2. TypeOK'
  BY DEF TypeOK, Goes
<1>3. \A q \in Procs: q # p => pc'[q] = pc[q]
  BY DEF TypeOK, Goes
<1>4. ASSUME NEW q \in Procs, q # p PROVE SendOf(q)'
  <2>1. SendOf(q) /\ Kept(q)' = Kept(q) /\ Limit(q)' = Limit(q)
    BY <1>4 DEF SendInv, Kept, Limit
  <2> QED
    BY <1>3, <1>4, <2>1 DEF SendOf
<1> QED
  BY <1>1, <1>2, <1>4 DEF SendInv

\* Looking at the local files, reaching the frame, and the end: the files and
\* what has been sent are as they were.
LEMMA SendControlStep ==
  ASSUME IInv, NEW p \in Procs,
         ChecksFiles(p) \/ Dials(p) \/ FinishesSend(p) \/ CleansUp(p)
  PROVE  IInv'
<1> USE DEF IInv
<1>1. PICK to \in {"resolve", "send", "cleanup"} \cup Ended:
        /\ Goes(p, to) /\ pc[p] \in {"check", "resolve", "send", "cleanup"}
        /\ UNCHANGED <<line, getVars, body, budget, sources, sent>>
        /\ to = "send" => Len(sources[p]) = Len(line[p].args)
        /\ to = "resolve" => pc[p] = "check"
        /\ UNCHANGED webDir \/ webDir' = [webDir EXCEPT ![p] = NoDir]
  BY DEF ChecksFiles, Dials, FinishesSend, CleansUp, Ready, Ended
<1>2. NoDir \in Seq(Int)
  BY DEF NoDir
<1>3. /\ webDir' \in [Procs -> Seq(Int)] /\ pc'[p] = to
      /\ \A q \in Procs: q # p => webDir'[q] = webDir[q]
  BY <1>1, <1>2 DEF TypeOK, Goes
<1>4. pc[p] = "cleanup" => to \in Ended
  BY <1>3 DEF TypeOK, ChecksFiles, Dials, FinishesSend, CleansUp, Goes, Ended
<1>5. pc[p] = "send" => to = "cleanup"
  BY <1>3 DEF TypeOK, ChecksFiles, Dials, FinishesSend, CleansUp, Goes, Ended
<1>6. SendOf(p)'
  BY <1>1, <1>3, <1>4, <1>5 DEF SendInv, SendOf, Ended
<1> QED
  BY <1>1, <1>3, <1>6, SendFrame DEF TypeOK, SendStages, Ended

\* A local file, or the head of an answer.
LEMMA ResolveStep ==
  ASSUME IInv, NEW p \in Procs, PassesFile(p) \/ Requests(p)
  PROVE  IInv'
<1> USE DEF IInv
<1>1. pc[p] = "resolve" /\ sent[p] = <<>> /\ UNCHANGED <<line, getVars, budget, sent>>
  BY DEF PassesFile, Requests, SendInv, SendOf, Ended
<1>2. CASE PassesFile(p)
  <2>1. Goes(p, "resolve")
    BY <1>1, <1>2 DEF PassesFile, Goes, TypeOK
  <2>9. PICK text \in BOOLEAN: sources' = [sources EXCEPT ![p] = Append(@, LocalFile(text))]
    BY <1>2 DEF PassesFile
  <2> PICK file: file = LocalFile(text)
    OBVIOUS
  <2>2. file \in Source /\ file.kept = file.size /\ file.size > 0
    BY PhotosAssumption DEF LocalFile, Source
  <2>3. /\ sources' \in [Procs -> Seq(Source)] /\ sources'[p] = Append(sources[p], file)
        /\ sources[p] \in Seq(Source) /\ \A q \in Procs: q # p => sources'[q] = sources[q]
    BY <2>2, <2>9, Lasts DEF TypeOK
  <2>4. pc'[p] = "resolve" /\ UNCHANGED <<webDir, body>>
    BY <1>2, <2>1 DEF PassesFile, Goes, TypeOK
  <2>8. line[p].args[Len(sources[p]) + 1] # "url"
    BY <1>2 DEF PassesFile, Resolving, Urls
  <2>5. \A i \in DOMAIN sources'[p]: /\ sources'[p][i].kept = sources'[p][i].size /\ sources'[p][i].size > 0
                                     /\ line[p].args[i] = "url" => ~sources'[p][i].text
    BY <2>2, <2>3, <2>8, Lasts DEF SendInv, SendOf
  <2>6. SendOf(p)'
    BY <1>1, <2>3, <2>4, <2>5 DEF SendInv, SendOf
  <2> QED
    BY <1>1, <2>1, <2>3, <2>4, <2>6, SendFrame DEF TypeOK, SendStages
<1>3. CASE Requests(p)
  <2>1. PICK to \in {"copy", "cleanup"}: Goes(p, to)
    BY <1>3 DEF Requests
  <2>2. pc'[p] = to
    BY <2>1 DEF Goes, TypeOK
  <2>3. /\ webDir' \in [Procs -> Seq(Int)] /\ (to = "copy" => webDir'[p] # <<>>)
        /\ \A q \in Procs: q # p => webDir'[q] = webDir[q]
    <3>1. webDir[p] \in Seq(Int) /\ <<0>> \in Seq(Int) /\ <<0>> # <<>> /\ <<>> \in Seq(Int)
      BY DEF TypeOK
    <3>2. Append(webDir[p], 0) \in Seq(Int) /\ Append(webDir[p], 0) # <<>>
      BY <3>1, Lasts
    <3>3. CASE webDir' = [webDir EXCEPT ![p] = IF @ = NoDir THEN <<0>> ELSE Append(@, 0)]
      BY <3>1, <3>2, <3>3 DEF TypeOK
    <3>4. CASE webDir' \in {webDir, [webDir EXCEPT ![p] = IF @ = NoDir THEN <<>> ELSE @]} /\ to = "cleanup"
      BY <3>1, <3>4 DEF TypeOK
    <3> QED
      BY <1>3, <2>1, <2>2, <3>3, <3>4 DEF Requests, Goes, TypeOK
  <2>4. /\ body' \in [Procs -> [size: Nat, text: BOOLEAN]] /\ UNCHANGED sources
        /\ \A q \in Procs: q # p => body'[q] = body[q]
    <3>1. /\ UNCHANGED sources
          /\ \/ UNCHANGED body
             \/ \E b \in Bodies: body' = [body EXCEPT ![p] = b]
      BY <1>3 DEF Requests
    <3>2. Bodies \subseteq [size: Nat, text: BOOLEAN] /\ body \in [Procs -> [size: Nat, text: BOOLEAN]]
      BY BudgetAssumption DEF TypeOK
    <3>3. CASE UNCHANGED body
      BY <3>1, <3>2, <3>3
    <3>4. ASSUME NEW b \in Bodies, body' = [body EXCEPT ![p] = b]
          PROVE  /\ body' \in [Procs -> [size: Nat, text: BOOLEAN]]
                 /\ \A q \in Procs: q # p => body'[q] = body[q]
      <4>1. b \in [size: Nat, text: BOOLEAN]
        BY <3>2, <3>4
      <4> QED
        BY <3>2, <3>4, <4>1, Zenon
    <3> QED
      BY <3>1, <3>2, <3>3, <3>4
  <2>5. SendOf(p)'
    BY <1>1, <2>1, <2>2, <2>3, <2>4 DEF SendInv, SendOf
  <2> QED
    BY <1>1, <2>1, <2>3, <2>4, <2>5, SendFrame DEF TypeOK, SendStages
<1> QED
  BY <1>2, <1>3

LEMMA CopyStep ==
  ASSUME IInv, NEW p \in Procs, Copies(p)
  PROVE  IInv'
<1> USE DEF IInv
<1> DEFINE all == IF body[p].size <= Limit(p) THEN body[p].size ELSE Limit(p)
<1>1. /\ pc[p] = "copy" /\ sent[p] = <<>> /\ webDir[p] # <<>> /\ webDir[p] \in Seq(Int)
      /\ UNCHANGED <<line, getVars, body, budget, sources, sent>>
  BY DEF Copies, SendInv, SendOf, Ended, TypeOK
<1>2. all \in Int
  BY DEF TypeOK, Limit
<1> HIDE DEF all
<1>3. PICK n \in Int, to \in {"judge", "cleanup"}:
        Keeps(p, n) /\ Goes(p, to) /\ (to = "judge" => n = all)
  BY <1>2 DEF Copies, all
<1>4. pc'[p] = to
  BY <1>3 DEF Goes, TypeOK
<1>5. /\ webDir' \in [Procs -> Seq(Int)] /\ webDir'[p] # <<>> /\ Last(webDir'[p]) = n
      /\ \A q \in Procs: q # p => webDir'[q] = webDir[q]
  <2>1. Front(webDir[p]) \in Seq(Int)
    BY <1>1, Fronts
  <2>2. /\ Append(Front(webDir[p]), n) \in Seq(Int) /\ Append(Front(webDir[p]), n) # <<>>
        /\ Last(Append(Front(webDir[p]), n)) = n
    BY <2>1, Lasts
  <2>3. webDir' = [webDir EXCEPT ![p] = Append(Front(webDir[p]), n)]
    BY <1>3 DEF Keeps
  <2> QED
    BY <2>2, <2>3 DEF TypeOK
<1>6. SendOf(p)'
  BY <1>1, <1>3, <1>4, <1>5 DEF SendInv, SendOf, Kept, Limit, all
<1> QED
  BY <1>1, <1>3, <1>5, <1>6, SendFrame DEF TypeOK, SendStages

\* What fits the budget was not cut at the limit.
LEMMA JudgeStep ==
  ASSUME IInv, NEW p \in Procs, Judges(p)
  PROVE  IInv'
<1> USE DEF IInv
<1> PICK file: file = Fetched(p)
  OBVIOUS
<1>1. /\ pc[p] = "judge" /\ sent[p] = <<>> /\ webDir[p] # <<>> /\ webDir[p] \in Seq(Int)
      /\ Kept(p) = (IF body[p].size <= Limit(p) THEN body[p].size ELSE Limit(p))
      /\ UNCHANGED <<line, getVars, webDir, body, sent>>
  BY DEF Judges, SendInv, SendOf, Ended, TypeOK
<1>2. Kept(p) \in Int /\ budget[p] \in Int /\ body[p].size \in Nat
  BY <1>1, Fronts DEF Kept, TypeOK
<1>3. CASE /\ Kept(p) > 0 /\ Kept(p) <= budget[p] /\ ~body[p].text /\ Goes(p, "resolve")
           /\ sources' = [sources EXCEPT ![p] = Append(@, file)]
           /\ budget' = [budget EXCEPT ![p] = Drawn(p)]
  <2>1. Kept(p) = body[p].size
    BY <1>1, <1>2, <1>3 DEF Limit
  <2>2. file \in Source /\ file.kept = file.size /\ file.size > 0 /\ ~file.text
    BY <1>2, <1>3, <2>1 DEF Source, Fetched, TypeOK
  <2>3. /\ sources' \in [Procs -> Seq(Source)] /\ sources'[p] = Append(sources[p], file)
        /\ sources[p] \in Seq(Source) /\ \A q \in Procs: q # p => sources'[q] = sources[q]
    BY <1>3, <2>2, Lasts DEF TypeOK
  <2>4. /\ budget' \in [Procs -> Int] /\ \A q \in Procs: q # p => budget'[q] = budget[q]
    BY <1>2, <1>3 DEF TypeOK, Drawn
  <2>5. pc'[p] = "resolve"
    BY <1>3 DEF Goes, TypeOK
  <2>6. \A i \in DOMAIN sources'[p]: /\ sources'[p][i].kept = sources'[p][i].size /\ sources'[p][i].size > 0
                                     /\ line[p].args[i] = "url" => ~sources'[p][i].text
    BY <2>2, <2>3, Lasts DEF SendInv, SendOf
  <2>7. SendOf(p)'
    BY <1>1, <2>3, <2>5, <2>6 DEF SendInv, SendOf
  <2> QED
    BY <1>1, <1>3, <2>3, <2>4, <2>7, SendFrame DEF TypeOK, SendStages
<1>4. CASE Goes(p, "cleanup") /\ UNCHANGED <<budget, sources>>
  <2>1. pc'[p] = "cleanup"
    BY <1>4 DEF Goes, TypeOK
  <2>2. SendOf(p)'
    BY <1>1, <1>4, <2>1 DEF SendInv, SendOf
  <2> QED
    BY <1>1, <1>4, <2>2, SendFrame DEF TypeOK, SendStages
<1> QED
  BY <1>3, <1>4 DEF Judges

LEMMA SendsStep ==
  ASSUME IInv, NEW p \in Procs, Sends(p)
  PROVE  IInv'
<1> USE DEF IInv
<1>1. /\ pc[p] = "send" /\ Len(sent[p]) < Len(sources[p]) /\ sent[p] \in Seq(Source)
      /\ sources[p] \in Seq(Source) /\ Len(sources[p]) = Len(line[p].args)
      /\ UNCHANGED <<line, getVars, webDir, body, budget, sources>>
  BY DEF Sends, SendInv, SendOf, TypeOK
<1> DEFINE next == sources[p][Len(sent[p]) + 1]
<1>2. CASE sent' = [sent EXCEPT ![p] = Append(sent[p], next)] /\ UNCHANGED pc
  <2>1. Goes(p, "send") /\ pc'[p] = "send"
    BY <1>1, <1>2 DEF Goes, TypeOK
  <2>2. next \in Source
    BY <1>1
  <2>3. /\ sent' \in [Procs -> Seq(Source)] /\ sent'[p] = Append(sent[p], next)
        /\ \A q \in Procs: q # p => sent'[q] = sent[q]
    BY <1>1, <1>2, <2>2, Lasts DEF TypeOK
  <2>4. Len(sent'[p]) <= Len(sources[p]) /\ \A i \in DOMAIN sent'[p]: sent'[p][i] = sources[p][i]
    <3>1. Len(sent'[p]) = Len(sent[p]) + 1 /\ Len(sent[p]) \in Nat /\ Len(sources[p]) \in Nat
      BY <1>1, <2>2, <2>3, Lasts
    <3>2. \A i \in DOMAIN sent'[p]: \/ i \in DOMAIN sent[p] /\ sent'[p][i] = sent[p][i]
                                    \/ i = Len(sent[p]) + 1 /\ sent'[p][i] = next
      BY <1>1, <2>2, <2>3, Lasts
    <3>3. \A i \in DOMAIN sent[p]: sent[p][i] = sources[p][i]
      BY DEF SendInv, SendOf
    <3>4. Len(sent'[p]) <= Len(sources[p])
      BY <1>1, <3>1
    <3> QED
      BY <3>2, <3>3, <3>4
  <2>5. SendOf(p)'
    BY <1>1, <2>1, <2>4 DEF SendInv, SendOf
  <2> QED
    BY <1>1, <2>1, <2>3, <2>5, SendFrame DEF TypeOK, SendStages
<1>3. CASE Goes(p, "cleanup") /\ UNCHANGED sent
  <2>1. pc'[p] = "cleanup"
    BY <1>3 DEF Goes, TypeOK
  <2>2. SendOf(p)'
    BY <1>1, <1>3, <2>1 DEF SendInv, SendOf
  <2> QED
    BY <1>1, <1>3, <2>2, SendFrame DEF TypeOK, SendStages
<1> QED
  BY <1>2, <1>3 DEF Sends

-------------------------------------------------------------------------------
(* The invariant *)

LEMMA InitIInv == Init => IInv
<1> SUFFICES ASSUME Init PROVE IInv
  OBVIOUS
<1>1. disk = <<>> /\ DOMAIN disk = {} /\ disk \in [DOMAIN disk -> File]
  <2>1. disk = [name \in {} |-> 0] /\ DOMAIN disk = {}
    BY DEF Init
  <2> QED
    BY <2>1 DEF Init
<1>2. /\ line \in [Procs -> Commands] /\ saved = {}
      /\ pc = [p \in Procs |-> IF line[p].cmd = "get" THEN "target" ELSE "check"]
      /\ toFile = [p \in Procs |-> FALSE] /\ todo = [p \in Procs |-> <<>>]
      /\ failed = [p \in Procs |-> 0] /\ wrote = [p \in Procs |-> FALSE]
  BY DEF Init
<1>3. /\ webDir = [p \in Procs |-> NoDir] /\ body = [p \in Procs |-> NoBody]
      /\ budget = [p \in Procs |-> MaxBytes]
      /\ sources = [p \in Procs |-> <<>>] /\ sent = [p \in Procs |-> <<>>]
  BY DEF Init
<1>4. /\ NoDir \in Seq(Int) /\ NoBody \in [size: Nat, text: BOOLEAN] /\ MaxBytes \in Int
      /\ <<>> \in Seq(Photos) /\ <<>> \in Seq(Source)
  BY BudgetAssumption DEF NoDir, NoBody
<1>5. TypeOK
  <2>1. pc \in [Procs -> GetStages \cup SendStages \cup Ended]
    BY <1>2 DEF GetStages, SendStages
  <2>2. toFile \in [Procs -> BOOLEAN] /\ wrote \in [Procs -> BOOLEAN]
    BY <1>2
  <2> QED
    BY <1>1, <1>2, <1>3, <1>4, <2>1, <2>2 DEF TypeOK
<1>6. GetInv
  BY <1>2 DEF GetInv, GetOf, GetStages, SendStages, InHand
<1>7. NamesInv /\ SavedInv
  BY <1>1, <1>2 DEF NamesInv, SavedInv
<1>8. WantedInv
  BY <1>2 DEF WantedInv, WantedOf, InHand
<1>9. SendInv
  BY <1>2, <1>3 DEF SendInv, SendOf
<1> QED
  BY <1>5, <1>6, <1>7, <1>8, <1>9 DEF IInv

LEMMA NextIInv == IInv /\ [Next]_vars => IInv'
<1> SUFFICES ASSUME IInv, [Next]_vars PROVE IInv'
  OBVIOUS
<1>1. ASSUME NEW p \in Procs, Get(p) PROVE IInv'
  BY <1>1, ControlStep, FetchStep, CreateStep, WriteStep, RenameStep, RemoveStep DEF Get
<1>2. ASSUME NEW p \in Procs, Send(p) PROVE IInv'
  BY <1>2, SendControlStep, ResolveStep, CopyStep, JudgeStep, SendsStep DEF Send
<1>3. ASSUME NEW p \in Procs, Dies(p) PROVE IInv'
  BY <1>3, Killed
<1>4. CASE UNCHANGED vars
  BY <1>4 DEF IInv, TypeOK, GetInv, GetOf, Temp, Path, NamesInv, SavedInv, WantedInv, WantedOf,
              Wanted, Got, SendInv, SendOf, Kept, Limit
<1> QED
  BY <1>1, <1>2, <1>3, <1>4 DEF Next

\* Every reachable state is of the kind described above.
THEOREM Invariant == Spec => []IInv
  BY InitIInv, NextIInv, PTL DEF Spec

\* Whatever fails and whoever is killed when, with any number of runs on the
\* same directory, a name that looks finished names a whole photo (writeWhole).
THEOREM FinishedIsWholeHolds == Spec => []FinishedIsWhole
<1>1. IInv => FinishedIsWhole
  BY DEF IInv, NamesInv, FinishedIsWhole
<1> QED
  BY <1>1, Invariant, PTL

\* What get reports as saved is there under that name, the photo and the copy
\* that were asked for, and a good exit status means every one of them
\* (cmdGet, photoFileName).
THEOREM SavedIsThereHolds == Spec => []SavedIsThere
<1>1. ASSUME IInv, NEW s \in saved
      PROVE  /\ s.name \in DOMAIN disk
             /\ s.name # Out => disk[s.name].id = s.id /\ disk[s.name].variant = line[s.by].variant
  <2>1. /\ s.name \in DOMAIN disk /\ ~IsTemp(s.name) /\ s.id \in Photos
        /\ s.name # Out => Named(s.name, s.id, line[s.by].variant)
    BY <1>1 DEF IInv, SavedInv
  <2>2. s.name # Out => Named(s.name, disk[s.name].id, disk[s.name].variant)
    BY <1>1, <2>1 DEF IInv, NamesInv
  <2>3. disk[s.name].id \in Photos
    BY <1>1, <2>1 DEF IInv, TypeOK, File
  <2> QED
    BY <2>1, <2>2, <2>3, NamesDiffer DEF Named
<1>2. ASSUME IInv, NEW p \in Procs, pc[p] = "ok", line[p].cmd = "get", NEW id \in Wanted(p)
      PROVE  \E s \in saved: s.by = p /\ s.id = id
  BY <1>2 DEF IInv, WantedInv, WantedOf, Got
<1>3. IInv => SavedIsThere
  BY <1>1, <1>2 DEF SavedIsThere
<1> QED
  BY <1>3, Invariant, PTL

\* A frame is sent nothing before every argument is a file, no file that is empty
\* or cut at the budget, and no web page from a server, whatever the servers answer
\* and however large the budget is (cmdSend, resolveSources, download).
THEOREM SentIsWholeHolds == Spec => []SentIsWhole
<1>1. ASSUME IInv, NEW p \in Procs, sent[p] # <<>>
      PROVE  /\ Len(sources[p]) = Len(line[p].args)
             /\ \A i \in DOMAIN sent[p]:
                  /\ sent[p][i].kept = sent[p][i].size /\ sent[p][i].size > 0
                  /\ i \in Urls(p) => ~sent[p][i].text
  <2>1. SendOf(p) /\ sent[p] \in Seq(Source) /\ sources[p] \in Seq(Source)
    BY <1>1 DEF IInv, SendInv, TypeOK
  <2>2. \A i \in DOMAIN sent[p]: i \in DOMAIN sources[p]
    BY <2>1 DEF SendOf
  <2> QED
    BY <1>1, <2>1, <2>2 DEF SendOf, Urls
<1>2. IInv => SentIsWhole
  BY <1>1 DEF SentIsWhole
<1> QED
  BY <1>2, Invariant, PTL

-------------------------------------------------------------------------------
(* What the files of a send take: a fold, and so what holds of it needs        *)
(* induction over the length                                                   *)

LEMMA NatSetInduction ==
  ASSUME NEW S, 0 \in S, \A n \in Nat: n \in S => n + 1 \in S
  PROVE  Nat \subseteq S
<1> DEFINE R == OpToRel(<, Nat)
           T == Nat \ S
<1> SUFFICES ASSUME T # {} PROVE FALSE
  OBVIOUS
<1>1. IsWellFoundedOn(R, Nat)
  BY NatLessThanWellFounded
<1>2. T \subseteq Nat
  OBVIOUS
<1>3. \A x, y \in Nat: x < y => <<x, y>> \in R
  BY DEF OpToRel
<1> HIDE DEF R, T
<1>4. PICK x \in T: \A y \in T: ~(<<y, x>> \in R)
  BY <1>1, <1>2, WFMin
<1>5. x \in Nat /\ x \notin S
  BY <1>2 DEF T
<1>6. x # 0
  BY <1>5
<1>7. x - 1 \in Nat /\ x - 1 < x /\ x = (x - 1) + 1
  BY <1>5, <1>6
<1>8. x - 1 \notin T
  BY <1>2, <1>3, <1>4, <1>7
<1>9. x - 1 \in S
  BY <1>7, <1>8 DEF T
<1> QED
  BY <1>5, <1>7, <1>9

\* What a fold from the left adds up of w, for every set of positions to n: the
\* function the fold is defined by.
Sums(n, w, f) ==
  f = [t \in SUBSET (1..n) |-> IF t = {} THEN 0 ELSE f[t \ {Max(t)}] + w[Max(t)]]

LEMMA TakenIs ==
  ASSUME NEW w, NEW n \in Nat, DOMAIN w = 1..n
  PROVE  Taken(w) = (CHOOSE f: Sums(n, w, f))[1..n]
<1>1. Taken(w) = (CHOOSE f: f = [t \in SUBSET (DOMAIN w) |->
                                   IF t = {} THEN 0 ELSE f[t \ {Max(t)}] + w[Max(t)]])[DOMAIN w]
  BY Zenon DEF Taken, FoldLeft, MapThenFoldSet
<1> QED
  BY <1>1, Zenon DEF Sums

\* The last position is the greatest.
LEMMA LastOf ==
  ASSUME NEW n \in Nat, NEW t \in SUBSET (1..(n + 1))
  PROVE  /\ n + 1 \in t => Max(t) = n + 1
         /\ \A x: n + 1 \notin t => t \ {x} \in SUBSET (1..n)
         /\ t \ {n + 1} \in SUBSET (1..n)
<1>1. \A i \in 1..(n + 1): i <= n + 1 /\ (i = n + 1 \/ i \in 1..n)
  OBVIOUS
<1>2. ASSUME n + 1 \in t
      PROVE  Max(t) = n + 1
  <2>1. \A y \in t: n + 1 >= y
    BY <1>1
  <2>2. \A x \in t: (\A y \in t: x >= y) => x = n + 1
    BY <1>1, <1>2
  <2> QED
    BY <1>2, <2>1, <2>2 DEF Max
<1> QED
  BY <1>1, <1>2

LEMMA SumsBelow ==
  ASSUME NEW n \in Nat, NEW w, NEW f, Sums(n + 1, w, f)
  PROVE  /\ Sums(n, w, [t \in SUBSET (1..n) |-> f[t]])
         /\ \A t \in SUBSET (1..(n + 1)): n + 1 \in t => f[t] = f[t \ {n + 1}] + w[n + 1]
<1>1. f = [t \in SUBSET (1..(n + 1)) |-> IF t = {} THEN 0 ELSE f[t \ {Max(t)}] + w[Max(t)]]
  BY DEF Sums
<1> PICK g: g = [t \in SUBSET (1..n) |-> f[t]]
  OBVIOUS
<1>2. \A t \in SUBSET (1..n): t \in SUBSET (1..(n + 1))
  BY SMT
<1>3. ASSUME NEW t \in SUBSET (1..n)
      PROVE  g[t] = IF t = {} THEN 0 ELSE g[t \ {Max(t)}] + w[Max(t)]
  <2>1. g[t] = f[t] /\ t \ {Max(t)} \in SUBSET (1..n)
    OBVIOUS
  <2>2. g[t \ {Max(t)}] = f[t \ {Max(t)}]
    BY <2>1
  <2>3. f[t] = IF t = {} THEN 0 ELSE f[t \ {Max(t)}] + w[Max(t)]
    BY <1>1, <1>2, Zenon
  <2> QED
    BY <2>1, <2>2, <2>3, Zenon
<1>4. Sums(n, w, g)
  <2>1. g = [t \in SUBSET (1..n) |-> g[t]]
    OBVIOUS
  <2> QED
    BY <1>3, <2>1, Zenon DEF Sums
<1>5. ASSUME NEW t \in SUBSET (1..(n + 1)), n + 1 \in t
      PROVE  f[t] = f[t \ {n + 1}] + w[n + 1]
  <2>1. Max(t) = n + 1 /\ t # {}
    BY <1>5, LastOf
  <2>2. f[t] = IF t = {} THEN 0 ELSE f[t \ {Max(t)}] + w[Max(t)]
    BY <1>1, Zenon
  <2> QED
    BY <2>1, <2>2, Zenon
<1> QED
  BY <1>4, <1>5

LEMMA SumsExist ==
  ASSUME NEW w, NEW n \in Nat
  PROVE  \E f: Sums(n, w, f)
<1> DEFINE S == {k \in Nat: \E f: Sums(k, w, f)}
<1>1. 0 \in S
  <2>1. PICK f: f = [t \in SUBSET (1..0) |-> 0]
    OBVIOUS
  <2>2. \A t \in SUBSET (1..0): t = {}
    BY SMT
  <2>3. f = [t \in SUBSET (1..0) |-> IF t = {} THEN 0 ELSE f[t \ {Max(t)}] + w[Max(t)]]
    BY <2>1, <2>2, Zenon
  <2> QED
    BY <2>3, Zenon DEF Sums
<1>2. ASSUME NEW k \in Nat, k \in S
      PROVE  k + 1 \in S
  <2>1. PICK f: Sums(k, w, f)
    BY <1>2
  <2>2. f = [t \in SUBSET (1..k) |-> IF t = {} THEN 0 ELSE f[t \ {Max(t)}] + w[Max(t)]]
    BY <2>1 DEF Sums
  <2> PICK T: T = SUBSET (1..(k + 1))
    OBVIOUS
  <2> PICK g: g = [t \in T |-> IF k + 1 \in t THEN f[t \ {k + 1}] + w[k + 1] ELSE f[t]]
    OBVIOUS
  <2>3. \A t \in SUBSET (1..k): t \in T /\ k + 1 \notin t
    BY SMT
  <2>4. \A t \in SUBSET (1..k): g[t] = f[t]
    BY <2>3
  <2>5. ASSUME NEW t \in T
        PROVE  g[t] = IF t = {} THEN 0 ELSE g[t \ {Max(t)}] + w[Max(t)]
    <3>1. CASE k + 1 \in t
      <4>1. Max(t) = k + 1 /\ t \ {k + 1} \in SUBSET (1..k) /\ t # {}
        BY <3>1, LastOf
      <4>2. g[t] = f[t \ {k + 1}] + w[k + 1] /\ g[t \ {k + 1}] = f[t \ {k + 1}]
        BY <2>4, <3>1, <4>1
      <4> QED
        BY <4>1, <4>2
    <3>2. CASE k + 1 \notin t
      <4>1. t \in SUBSET (1..k) /\ t \ {Max(t)} \in SUBSET (1..k)
        <5>1. t \ {k + 1} = t
          BY <3>2
        <5> QED
          BY <3>2, <5>1, LastOf
      <4>2. g[t] = f[t] /\ g[t \ {Max(t)}] = f[t \ {Max(t)}]
        BY <2>4, <4>1
      <4>3. f[t] = IF t = {} THEN 0 ELSE f[t \ {Max(t)}] + w[Max(t)]
        BY <2>2, <4>1, Zenon
      <4> QED
        BY <4>2, <4>3, Zenon
    <3> QED
      BY <3>1, <3>2
  <2>6. g = [t \in T |-> g[t]]
    OBVIOUS
  <2>7. Sums(k + 1, w, g)
    BY <2>5, <2>6, Zenon DEF Sums
  <2> QED
    BY <2>7
<1> HIDE DEF S
<1>3. n \in S
  BY <1>1, <1>2, NatSetInduction
<1> QED
  BY <1>3 DEF S

\* The sum does not depend on what comes behind.
LEMMA SumsAgree ==
  ASSUME NEW n \in Nat, NEW w, NEW v, \A i \in 1..n: w[i] = v[i],
         NEW f, NEW g, Sums(n, w, f), Sums(n, v, g)
  PROVE  f[1..n] = g[1..n]
<1> DEFINE Agree(k) == \A a, b: Sums(k, w, a) /\ Sums(k, v, b) => a[1..k] = b[1..k]
           S == {k \in Nat: k <= n => Agree(k)}
<1>1. 0 \in S
  <2>1. ASSUME NEW a, NEW u, Sums(0, u, a)
        PROVE  a[1..0] = 0
    <3>1. 1..0 \in SUBSET (1..0) /\ 1..0 = {}
      BY SMT
    <3>2. a = [t \in SUBSET (1..0) |-> IF t = {} THEN 0 ELSE a[t \ {Max(t)}] + u[Max(t)]]
      BY <2>1 DEF Sums
    <3> QED
      BY <3>1, <3>2, Zenon
  <2>2. Agree(0)
    BY <2>1
  <2> QED
    BY <2>2
<1>2. ASSUME NEW k \in Nat, k \in S
      PROVE  k + 1 \in S
  <2>1. ASSUME k + 1 <= n, NEW a, NEW b, Sums(k + 1, w, a), Sums(k + 1, v, b)
        PROVE  a[1..(k + 1)] = b[1..(k + 1)]
    <3>1. k <= n /\ k + 1 \in 1..n
      BY <2>1
    <3>2. Agree(k)
      BY <1>2, <3>1
    <3> PICK c, d: c = [t \in SUBSET (1..k) |-> a[t]] /\ d = [t \in SUBSET (1..k) |-> b[t]]
      OBVIOUS
    <3>3. Sums(k, w, c) /\ Sums(k, v, d)
      BY <2>1, SumsBelow
    <3>4. c[1..k] = d[1..k]
      BY <3>2, <3>3
    <3>5. a[1..k] = b[1..k]
      BY <3>4
    <3>6. /\ 1..(k + 1) \in SUBSET (1..(k + 1)) /\ k + 1 \in 1..(k + 1)
          /\ (1..(k + 1)) \ {k + 1} = 1..k
      BY SMT
    <3>7. /\ \A t \in SUBSET (1..(k + 1)): k + 1 \in t => a[t] = a[t \ {k + 1}] + w[k + 1]
          /\ \A t \in SUBSET (1..(k + 1)): k + 1 \in t => b[t] = b[t \ {k + 1}] + v[k + 1]
      BY <2>1, SumsBelow
    <3>8. a[1..(k + 1)] = a[1..k] + w[k + 1] /\ b[1..(k + 1)] = b[1..k] + v[k + 1]
      BY <3>6, <3>7, Zenon
    <3> QED
      BY <3>1, <3>5, <3>8
  <2> QED
    BY <2>1
<1> HIDE DEF S
<1>3. n \in S
  BY <1>1, <1>2, NatSetInduction
<1>4. Agree(n)
  BY <1>3 DEF S
<1> QED
  BY <1>4

\* The sum of integers is one.
LEMMA SumsInt ==
  ASSUME NEW n \in Nat, NEW w, \A i \in 1..n: w[i] \in Int, NEW f, Sums(n, w, f)
  PROVE  f[1..n] \in Int
<1> DEFINE Ints(k) == \A a: Sums(k, w, a) => a[1..k] \in Int
           S == {k \in Nat: k <= n => Ints(k)}
<1>1. 0 \in S
  <2>1. ASSUME NEW a, Sums(0, w, a)
        PROVE  a[1..0] \in Int
    <3>1. 1..0 \in SUBSET (1..0) /\ 1..0 = {}
      BY SMT
    <3>2. a = [t \in SUBSET (1..0) |-> IF t = {} THEN 0 ELSE a[t \ {Max(t)}] + w[Max(t)]]
      BY <2>1 DEF Sums
    <3>3. a[1..0] = 0
      BY <3>1, <3>2, Zenon
    <3> QED
      BY <3>3
  <2> QED
    BY <2>1
<1>2. ASSUME NEW k \in Nat, k \in S
      PROVE  k + 1 \in S
  <2>1. ASSUME k + 1 <= n, NEW a, Sums(k + 1, w, a)
        PROVE  a[1..(k + 1)] \in Int
    <3>1. k <= n /\ k + 1 \in 1..n
      BY <2>1
    <3>2. Ints(k)
      BY <1>2, <3>1
    <3> PICK c: c = [t \in SUBSET (1..k) |-> a[t]]
      OBVIOUS
    <3>3. Sums(k, w, c)
      BY <2>1, SumsBelow
    <3>4. c[1..k] \in Int
      BY <3>2, <3>3
    <3>5. a[1..k] \in Int
      BY <3>4
    <3>6. /\ 1..(k + 1) \in SUBSET (1..(k + 1)) /\ k + 1 \in 1..(k + 1)
          /\ (1..(k + 1)) \ {k + 1} = 1..k
      BY SMT
    <3>7. \A t \in SUBSET (1..(k + 1)): k + 1 \in t => a[t] = a[t \ {k + 1}] + w[k + 1]
      BY <2>1, SumsBelow
    <3>8. a[1..(k + 1)] = a[1..k] + w[k + 1]
      BY <3>6, <3>7, Zenon
    <3> QED
      BY <3>1, <3>5, <3>8
  <2> QED
    BY <2>1
<1> HIDE DEF S
<1>3. n \in S
  BY <1>1, <1>2, NatSetInduction
<1>4. Ints(n)
  BY <1>3 DEF S
<1> QED
  BY <1>4

LEMMA TakenInt ==
  ASSUME NEW w \in Seq(Int)
  PROVE  Taken(w) \in Int
<1>1. PICK n \in Nat: DOMAIN w = 1..n /\ \A i \in 1..n: w[i] \in Int
  OBVIOUS
<1>2. PICK f: f = CHOOSE a: Sums(n, w, a)
  OBVIOUS
<1>3. Sums(n, w, f)
  BY <1>2, SumsExist
<1>4. Taken(w) = f[1..n]
  BY <1>1, <1>2, TakenIs
<1> QED
  BY <1>1, <1>3, <1>4, SumsInt

\* What is taken grows by what comes behind.
LEMMA TakenMore ==
  ASSUME NEW w \in Seq(Int), NEW x \in Int
  PROVE  Taken(Append(w, x)) = Taken(w) + x
<1>0. PICK v, n: v = Append(w, x) /\ n = Len(w)
  OBVIOUS
<1>1. /\ n \in Nat /\ DOMAIN w = 1..n /\ DOMAIN v = 1..(n + 1) /\ v[n + 1] = x
      /\ \A i \in 1..n: w[i] = v[i]
  BY <1>0
<1>2. PICK f: f = CHOOSE a: Sums(n, w, a)
  OBVIOUS
<1>3. Sums(n, w, f) /\ Taken(w) = f[1..n]
  BY <1>1, <1>2, SumsExist, TakenIs
<1>4. PICK g: g = CHOOSE a: Sums(n + 1, v, a)
  OBVIOUS
<1>5. Sums(n + 1, v, g) /\ Taken(v) = g[1..(n + 1)]
  <2>1. PICK m \in Nat: m = n + 1
    BY <1>1
  <2>2. DOMAIN v = 1..m
    BY <1>1, <2>1
  <2>3. \E a: Sums(m, v, a)
    BY SumsExist
  <2>4. Taken(v) = (CHOOSE a: Sums(m, v, a))[1..m]
    BY <2>2, TakenIs
  <2> QED
    BY <1>4, <2>1, <2>3, <2>4
<1>6. PICK h: h = [t \in SUBSET (1..n) |-> g[t]]
  OBVIOUS
<1>7. Sums(n, v, h)
  <2>1. Sums(n, v, [t \in SUBSET (1..n) |-> g[t]])
    BY <1>1, <1>5, SumsBelow
  <2> QED
    BY <1>6, <2>1
<1>8. f[1..n] = h[1..n]
  <2>1. n \in Nat /\ \A i \in 1..n: w[i] = v[i]
    BY <1>1
  <2>2. Sums(n, w, f)
    BY <1>3
  <2> QED
    BY <1>7, <2>1, <2>2, SumsAgree
<1>9. h[1..n] = g[1..n]
  BY <1>6
<1>10. /\ 1..(n + 1) \in SUBSET (1..(n + 1)) /\ n + 1 \in 1..(n + 1)
       /\ (1..(n + 1)) \ {n + 1} = 1..n
  BY <1>1, SMT
<1>11. \A t \in SUBSET (1..(n + 1)): n + 1 \in t => g[t] = g[t \ {n + 1}] + v[n + 1]
  <2>1. n \in Nat /\ Sums(n + 1, v, g)
    BY <1>1, <1>5
  <2> QED
    BY <2>1, SumsBelow
<1>12. g[1..(n + 1)] = g[1..n] + v[n + 1]
  BY <1>10, <1>11, Zenon
<1> QED
  BY <1>0, <1>1, <1>3, <1>5, <1>8, <1>9, <1>12

LEMMA TakenNothing == Taken(<<>>) = 0
<1>1. PICK w: w = <<>> /\ DOMAIN w = 1..0
  OBVIOUS
<1>2. PICK f: f = CHOOSE a: Sums(0, w, a)
  OBVIOUS
<1>3. Sums(0, w, f) /\ Taken(w) = f[1..0]
  BY <1>1, <1>2, SumsExist, TakenIs
<1>4. 1..0 \in SUBSET (1..0) /\ 1..0 = {}
  BY SMT
<1>5. f = [t \in SUBSET (1..0) |-> IF t = {} THEN 0 ELSE f[t \ {Max(t)}] + w[Max(t)]]
  BY <1>3 DEF Sums
<1>6. f[1..0] = 0
  BY <1>4, <1>5, Zenon
<1> QED
  BY <1>1, <1>3, <1>6

-------------------------------------------------------------------------------
(* The disk is given back *)

\* A temporary file is there only while its process is about it, or was killed.
OnDisk == {"write", "close", "rename", "remove", "killed"}
TempInv == \A p \in Procs: Temp(p) \in DOMAIN disk => pc[p] \in OnDisk

\* There is a directory only from the first URL to the cleanup.  Between two
\* arguments what is in it and what is left of the budget make up the budget; an
\* answer being judged is one byte over what is left at most.
BudgetOf(p) ==
  /\ pc[p] \in GetStages \cup {"check", "ok", "failed"} => webDir[p] = NoDir
  /\ webDir[p] # NoDir => Taken(webDir[p]) <= MaxBytes + 1
  /\ pc[p] \in {"check", "resolve", "copy"} =>
       /\ budget[p] >= 0
       /\ webDir[p] = NoDir => budget[p] = MaxBytes
       /\ webDir[p] # NoDir => Taken(webDir[p]) + budget[p] = MaxBytes
  /\ pc[p] = "copy" => webDir[p] # NoDir /\ Kept(p) = 0
  /\ pc[p] = "judge" =>
       /\ webDir[p] # NoDir /\ budget[p] >= 0 /\ Kept(p) >= 0
       /\ Kept(p) <= budget[p] + 1 /\ Taken(Front(webDir[p])) + budget[p] = MaxBytes
BudgetInv == \A p \in Procs: BudgetOf(p)

LEMMA TempFrame ==
  ASSUME TypeOK, TempInv, NEW p \in Procs, NEW to, Goes(p, to),
         \A q \in Procs: q # p /\ Temp(q) \in DOMAIN disk' => Temp(q) \in DOMAIN disk,
         Temp(p) \in DOMAIN disk' => to \in OnDisk
  PROVE  TempInv'
<1>1. pc'[p] = to /\ \A q \in Procs: q # p => pc'[q] = pc[q]
  BY DEF TypeOK, Goes
<1>2. \A q \in Procs: Temp(q)' = Temp(q)
  BY DEF Temp
<1> QED
  BY <1>1, <1>2 DEF TempInv

LEMMA TempStep ==
  ASSUME IInv, TempInv, NEW p \in Procs, Get(p) \/ Send(p) \/ Dies(p)
  PROVE  TempInv'
<1> USE DEF IInv
<1>1. CASE UNCHANGED disk /\ ~Renames(p) /\ ~RemovesTemp(p)
  <2>1. CASE UNCHANGED pc
    BY <1>1, <2>1 DEF TempInv, Temp
  <2>2. ASSUME NEW to, Goes(p, to), Temp(p) \in DOMAIN disk => to \in OnDisk
        PROVE  TempInv'
    BY <1>1, <2>2, TempFrame
  <2>3. ASSUME pc[p] \notin OnDisk PROVE Temp(p) \notin DOMAIN disk
    BY <2>3 DEF TempInv
  <2>4. CASE SettlesTarget(p) \/ Begins(p) \/ Fetches(p) \/ FinishesGet(p) \/ CreatesTemp(p)
    <3>1. PICK to: Goes(p, to)
      BY <2>4 DEF SettlesTarget, Begins, Fetches, FinishesGet, CreatesTemp, Counts
    <3>2. pc[p] \notin OnDisk
      BY <2>4 DEF SettlesTarget, Begins, Fetches, FinishesGet, CreatesTemp, OnDisk
    <3> QED
      BY <2>2, <2>3, <3>1, <3>2
  <2>5. CASE Writes(p) \/ ClosesTemp(p) \/ Dies(p)
    <3>1. PICK to: Goes(p, to) /\ to \in OnDisk
      BY <2>5 DEF Writes, ClosesTemp, Dies, OnDisk
    <3> QED
      BY <2>2, <3>1
  <2>6. CASE Send(p)
    <3>1. pc[p] \notin OnDisk
      BY <2>6 DEF Send, ChecksFiles, PassesFile, Requests, Copies, Judges, Dials, Sends,
                  FinishesSend, CleansUp, OnDisk
    <3>2. UNCHANGED pc \/ \E to: Goes(p, to)
      BY <2>6 DEF Send, ChecksFiles, PassesFile, Requests, Copies, Judges, Dials, Sends,
                  FinishesSend, CleansUp
    <3> QED
      BY <2>1, <2>2, <2>3, <3>1, <3>2
  <2> QED
    BY <1>1, <2>4, <2>5, <2>6 DEF Get
<1>2. \A q \in Procs: IsTemp(Temp(q)) /\ (Temp(q) = Temp(p) => q = p)
  BY NameFacts
<1>3. CASE CreatesTemp(p) /\ Goes(p, "write")
  <2>1. DOMAIN disk' = DOMAIN disk \cup {Temp(p)}
    BY <1>3 DEF CreatesTemp, Counts, Goes, TypeOK
  <2> QED
    BY <1>2, <1>3, <2>1, TempFrame DEF OnDisk
<1>4. CASE Writes(p)
  <2>1. DOMAIN disk' = DOMAIN disk /\ \E to \in OnDisk: Goes(p, to)
    BY <1>4 DEF Writes, OnDisk
  <2> QED
    BY <2>1, TempFrame
<1>5. CASE Renames(p)
  <2>1. DOMAIN disk' \subseteq DOMAIN disk \cup {Path(p)} /\ Goes(p, "remove")
    BY <1>5 DEF Renames
  <2>2. ~IsTemp(Path(p))
    BY <1>5, NameFacts DEF Renames, InHand
  <2> QED
    BY <1>2, <2>1, <2>2, TempFrame DEF OnDisk
<1>6. CASE RemovesTemp(p)
  <2>1. DOMAIN disk' = DOMAIN disk \ {Temp(p)} /\ Goes(p, "fetch")
    BY <1>6 DEF RemovesTemp, Restrict, Counts
  <2> QED
    BY <2>1, TempFrame
<1>7. CreatesTemp(p) => Goes(p, "write") \/ UNCHANGED disk
  BY DEF CreatesTemp
<1>8. SettlesTarget(p) \/ Begins(p) \/ Fetches(p) \/ FinishesGet(p) \/ ClosesTemp(p) \/ Send(p) \/ Dies(p)
        => UNCHANGED disk
  BY DEF SettlesTarget, Begins, Fetches, FinishesGet, ClosesTemp, Send, Dies, ChecksFiles, PassesFile,
         Requests, Copies, Judges, Dials, Sends, FinishesSend, CleansUp
<1> QED
  BY <1>1, <1>3, <1>4, <1>5, <1>6, <1>7, <1>8 DEF Get

\* A step of p leaves the budgets and directories of the others as they are.
LEMMA BudgetFrame ==
  ASSUME TypeOK, BudgetInv, NEW p \in Procs, NEW to, Goes(p, to),
         \A q \in Procs: q # p => webDir'[q] = webDir[q] /\ budget'[q] = budget[q],
         BudgetOf(p)'
  PROVE  BudgetInv'
<1>1. \A q \in Procs: q # p => pc'[q] = pc[q]
  BY DEF TypeOK, Goes
<1>2. ASSUME NEW q \in Procs, q # p PROVE BudgetOf(q)'
  <2>1. BudgetOf(q) /\ webDir'[q] = webDir[q] /\ budget'[q] = budget[q] /\ pc'[q] = pc[q]
    BY <1>1, <1>2 DEF BudgetInv
  <2> QED
    BY <2>1 DEF BudgetOf, Kept
<1> QED
  BY <1>2 DEF BudgetInv

LEMMA Splits ==
  ASSUME NEW w \in Seq(Int), NEW x \in Int
  PROVE  /\ Front(Append(w, x)) = w
         /\ w # <<>> => w = Append(Front(w), Last(w))
<1>1. Front(Append(w, x)) = w
  BY DEF Front
<1>2. ASSUME w # <<>> PROVE w = Append(Front(w), Last(w))
  BY <1>2 DEF Front, Last
<1> QED
  BY <1>1, <1>2

\* A directory into which something is put is not mistaken for none.
LEMMA PutIs ==
  ASSUME NEW w \in Seq(Int), NEW n \in Nat
  PROVE  /\ Append(w, n) # NoDir /\ Taken(Append(w, n)) = Taken(w) + n
         /\ Last(Append(w, n)) = n /\ Front(Append(w, n)) = w /\ Taken(w) \in Int
<1>1. n \in Int /\ n # -1
  OBVIOUS
<1>2. Last(Append(w, n)) = n
  BY <1>1, Lasts
<1>3. Last(NoDir) = -1
  BY DEF NoDir, Last
<1>4. Append(w, n) # NoDir
  BY <1>1, <1>2, <1>3
<1>5. Taken(Append(w, n)) = Taken(w) + n
  BY <1>1, TakenMore
<1>6. Taken(w) \in Int
  BY TakenInt
<1>7. Front(Append(w, n)) = w
  BY <1>1, Splits
<1> QED
  BY <1>2, <1>4, <1>5, <1>6, <1>7

LEMMA BudgetRequests ==
  ASSUME IInv, BudgetInv, NEW p \in Procs, Requests(p)
  PROVE  BudgetInv'
<1> USE DEF IInv
<1>1. /\ pc[p] = "resolve" /\ BudgetOf(p) /\ webDir[p] \in Seq(Int) /\ budget[p] \in Int
      /\ UNCHANGED budget
  BY DEF Requests, BudgetInv, TypeOK
<1>2. MaxBytes \in Nat
  BY BudgetAssumption
<1>3. CASE Goes(p, "copy") /\ webDir' = [webDir EXCEPT ![p] = IF @ = NoDir THEN <<0>> ELSE Append(@, 0)]
  <2>1. PICK w: w = IF webDir[p] = NoDir THEN <<>> ELSE webDir[p]
    OBVIOUS
  <2> w \in Seq(Int)
    BY <1>1, <2>1
  <2>2. Append(<<>>, 0) = <<0>>
    OBVIOUS
  <2>3. webDir'[p] = Append(w, 0) /\ \A q \in Procs: q # p => webDir'[q] = webDir[q]
    BY <1>3, <2>1, <2>2 DEF TypeOK
  <2>4. pc'[p] = "copy"
    BY <1>3 DEF Goes, TypeOK
  <2>5. Taken(w) + budget[p] = MaxBytes /\ budget[p] >= 0
    BY <1>1, <1>2, <2>1, TakenNothing DEF BudgetOf
  <2>6. Append(w, 0) # NoDir /\ Taken(Append(w, 0)) = Taken(w) + 0 /\ Last(Append(w, 0)) = 0 /\ Taken(w) \in Int
    BY PutIs
  <2>7. Taken(webDir'[p]) = Taken(w)
    BY <2>3, <2>6
  <2>8. /\ webDir'[p] # NoDir /\ Last(webDir'[p]) = 0 /\ budget'[p] = budget[p]
        /\ Taken(webDir'[p]) + budget[p] = MaxBytes /\ Taken(webDir'[p]) \in Int
    BY <1>1, <2>3, <2>5, <2>6, <2>7
  <2>9. Taken(webDir'[p]) <= MaxBytes + 1
    BY <1>1, <1>2, <2>5, <2>8
  <2>10. BudgetOf(p)'
    BY <2>4, <2>5, <2>8, <2>9 DEF BudgetOf, GetStages, Kept
  <2> QED
    BY <1>1, <1>3, <2>3, <2>10, BudgetFrame
<1>4. CASE Goes(p, "cleanup") /\ webDir' \in {webDir, [webDir EXCEPT ![p] = IF @ = NoDir THEN <<>> ELSE @]}
  <2>1. /\ webDir'[p] = webDir[p] \/ webDir'[p] = <<>>
        /\ \A q \in Procs: q # p => webDir'[q] = webDir[q]
    BY <1>4 DEF TypeOK
  <2>2. pc'[p] = "cleanup"
    BY <1>4 DEF Goes, TypeOK
  <2>3. BudgetOf(p)'
    BY <1>1, <1>2, <2>1, <2>2, TakenNothing DEF BudgetOf, GetStages
  <2> QED
    BY <1>1, <1>4, <2>1, <2>3, BudgetFrame
<1> QED
  BY <1>3, <1>4 DEF Requests

LEMMA BudgetCopies ==
  ASSUME IInv, BudgetInv, NEW p \in Procs, Copies(p)
  PROVE  BudgetInv'
<1> USE DEF IInv
<1>1. /\ pc[p] = "copy" /\ BudgetOf(p) /\ webDir[p] \in Seq(Int) /\ webDir[p] # <<>>
      /\ budget[p] \in Int /\ body[p].size \in Nat /\ UNCHANGED budget
  BY DEF Copies, BudgetInv, TypeOK, SendInv, SendOf
<1>2. MaxBytes \in Nat
  BY BudgetAssumption
<1>3. /\ Taken(webDir[p]) + budget[p] = MaxBytes /\ budget[p] >= 0 /\ Last(webDir[p]) = 0
  BY <1>1 DEF BudgetOf, Kept
<1>4. PICK w: w = Front(webDir[p])
  OBVIOUS
<1>5. w \in Seq(Int) /\ webDir[p] = Append(w, 0)
  BY <1>1, <1>3, <1>4, Fronts, Splits
<1>6. Taken(w) + budget[p] = MaxBytes /\ Taken(w) \in Int
  BY <1>1, <1>3, <1>5, PutIs
<1>7. PICK n \in Nat, to \in {"judge", "cleanup"}: Keeps(p, n) /\ Goes(p, to) /\ n <= budget[p] + 1
  BY <1>1, <1>3 DEF Copies, Limit
<1>8. webDir'[p] = Append(w, n) /\ \A q \in Procs: q # p => webDir'[q] = webDir[q]
  BY <1>4, <1>7 DEF Keeps, TypeOK
<1>9. pc'[p] = to
  BY <1>7 DEF Goes, TypeOK
<1>10. /\ Append(w, n) # NoDir /\ Taken(Append(w, n)) = Taken(w) + n
       /\ Last(Append(w, n)) = n /\ Front(Append(w, n)) = w
  BY <1>5, PutIs
<1>11. Taken(webDir'[p]) <= MaxBytes + 1
  BY <1>1, <1>2, <1>6, <1>7, <1>8, <1>10
<1>12. BudgetOf(p)'
  <2>1. /\ webDir'[p] # NoDir /\ Last(webDir'[p]) = n /\ budget'[p] = budget[p]
        /\ Taken(Front(webDir'[p])) + budget[p] = MaxBytes
    BY <1>1, <1>6, <1>8, <1>10
  <2> QED
    BY <1>3, <1>7, <1>9, <1>11, <2>1 DEF BudgetOf, GetStages, Kept
<1> QED
  BY <1>1, <1>7, <1>8, <1>12, BudgetFrame

LEMMA BudgetJudges ==
  ASSUME IInv, BudgetInv, NEW p \in Procs, Judges(p)
  PROVE  BudgetInv'
<1> USE DEF IInv
<1>1. /\ pc[p] = "judge" /\ BudgetOf(p) /\ webDir[p] \in Seq(Int) /\ webDir[p] # <<>>
      /\ budget[p] \in Int /\ UNCHANGED webDir
  BY DEF Judges, BudgetInv, TypeOK, SendInv, SendOf
<1>2. MaxBytes \in Nat
  BY BudgetAssumption
<1>3. PICK w, k: w = Front(webDir[p]) /\ k = Kept(p)
  OBVIOUS
<1>4. w \in Seq(Int) /\ k \in Nat /\ webDir[p] = Append(w, k)
  <2>1. w \in Seq(Int) /\ Last(webDir[p]) \in Int /\ webDir[p] = Append(w, Last(webDir[p]))
    BY <1>1, <1>3, Fronts, Splits
  <2>2. Last(webDir[p]) = k /\ k >= 0
    BY <1>1, <1>3 DEF BudgetOf, Kept
  <2> QED
    BY <2>1, <2>2
<1>5. Taken(webDir[p]) = Taken(w) + k /\ Taken(w) \in Int /\ webDir[p] # NoDir
  BY <1>4, PutIs
<1>6. Taken(w) + budget[p] = MaxBytes
  BY <1>1, <1>3 DEF BudgetOf
<1>7. CASE Goes(p, "resolve") /\ Kept(p) <= budget[p] /\ budget' = [budget EXCEPT ![p] = Drawn(p)]
  <2>1. budget'[p] = budget[p] - k /\ \A q \in Procs: q # p => budget'[q] = budget[q]
    BY <1>3, <1>7 DEF TypeOK, Drawn
  <2>2. pc'[p] = "resolve"
    BY <1>7 DEF Goes, TypeOK
  <2>3. k <= budget[p] /\ k \in Nat /\ budget[p] \in Int /\ MaxBytes \in Nat
    BY <1>1, <1>2, <1>3, <1>4, <1>7
  <2>4. budget'[p] >= 0 /\ Taken(webDir[p]) + budget'[p] = MaxBytes
    BY <1>5, <1>6, <2>1, <2>3
  <2>5. BudgetOf(p)'
    BY <1>1, <1>5, <2>2, <2>4 DEF BudgetOf, GetStages
  <2> QED
    BY <1>1, <1>7, <2>1, <2>5, BudgetFrame
<1>8. CASE Goes(p, "cleanup") /\ UNCHANGED budget
  <2>1. pc'[p] = "cleanup"
    BY <1>8 DEF Goes, TypeOK
  <2>2. BudgetOf(p)'
    BY <1>1, <1>8, <2>1 DEF BudgetOf, GetStages
  <2> QED
    BY <1>1, <1>8, <2>2, BudgetFrame
<1> QED
  BY <1>7, <1>8 DEF Judges

\* The other steps leave the budget alone, and the directory but for the cleanup.
LEMMA BudgetControl ==
  ASSUME IInv, BudgetInv, NEW p \in Procs,
         \/ Get(p) \/ Dies(p) \/ ChecksFiles(p) \/ PassesFile(p) \/ Dials(p)
         \/ Sends(p) \/ FinishesSend(p) \/ CleansUp(p)
  PROVE  BudgetInv'
<1> USE DEF IInv
<1>1. UNCHANGED budget /\ BudgetOf(p)
  BY DEF Get, SettlesTarget, Begins, Fetches, FinishesGet, CreatesTemp, Writes, ClosesTemp, Renames,
         RemovesTemp, Dies, ChecksFiles, PassesFile, Dials, Sends, FinishesSend, CleansUp, BudgetInv
<1>2. CASE UNCHANGED <<pc, webDir>>
  BY <1>1, <1>2 DEF BudgetInv, BudgetOf, Kept
<1>3. CASE Get(p)
  <2>1. pc[p] \in GetStages /\ UNCHANGED webDir
    BY <1>3 DEF Get, SettlesTarget, Begins, Fetches, FinishesGet, CreatesTemp, Writes, ClosesTemp,
                Renames, RemovesTemp, GetStages
  <2>2. PICK to \in GetStages \cup Ended: Goes(p, to)
    BY <1>3 DEF Get, SettlesTarget, Begins, Fetches, FinishesGet, CreatesTemp, Writes, ClosesTemp,
                Renames, RemovesTemp, Counts, GetStages, Ended
  <2>3. pc'[p] = to
    BY <2>2 DEF Goes, TypeOK
  <2>4. BudgetOf(p)'
    BY <1>1, <2>1, <2>2, <2>3 DEF BudgetOf, GetStages, Ended
  <2> QED
    BY <1>1, <2>1, <2>2, <2>4, BudgetFrame
<1>4. CASE Dies(p)
  <2>1. pc'[p] = "killed" /\ UNCHANGED webDir /\ Goes(p, "killed")
    BY <1>4 DEF Dies, Goes, TypeOK
  <2>2. BudgetOf(p)'
    BY <1>1, <2>1 DEF BudgetOf, GetStages
  <2> QED
    BY <1>1, <2>1, <2>2, BudgetFrame
<1>5. CASE CleansUp(p)
  <2>1. webDir'[p] = NoDir /\ \A q \in Procs: q # p => webDir'[q] = webDir[q]
    BY <1>5 DEF CleansUp, TypeOK
  <2>2. PICK to \in {"ok", "failed"}: Goes(p, to)
    BY <1>5 DEF CleansUp
  <2>3. pc'[p] = to
    BY <2>2 DEF Goes, TypeOK
  <2>4. BudgetOf(p)'
    BY <1>1, <2>1, <2>2, <2>3 DEF BudgetOf
  <2> QED
    BY <1>1, <2>1, <2>2, <2>4, BudgetFrame
<1>6. CASE ChecksFiles(p) \/ Dials(p) \/ FinishesSend(p) \/ (Sends(p) /\ Goes(p, "cleanup"))
  <2>1. PICK to: /\ Goes(p, to) /\ UNCHANGED webDir
                 /\ \/ pc[p] = "check" /\ to \in {"resolve", "failed"}
                    \/ pc[p] \in {"resolve", "send"} /\ to \in {"send", "cleanup"}
    BY <1>6 DEF ChecksFiles, Dials, FinishesSend, Sends
  <2>2. pc'[p] = to
    BY <2>1 DEF Goes, TypeOK
  <2>3. BudgetOf(p)'
    BY <1>1, <2>1, <2>2 DEF BudgetOf, GetStages
  <2> QED
    BY <1>1, <2>1, <2>3, BudgetFrame
<1>7. PassesFile(p) => UNCHANGED <<pc, webDir>>
  BY DEF PassesFile
<1>8. Sends(p) => UNCHANGED <<pc, webDir>> \/ Goes(p, "cleanup")
  BY DEF Sends
<1> QED
  BY <1>2, <1>3, <1>4, <1>5, <1>6, <1>7, <1>8

LEMMA InitBudget == Init => TempInv /\ BudgetInv
<1> SUFFICES ASSUME Init PROVE TempInv /\ BudgetInv
  OBVIOUS
<1>1. DOMAIN disk = {}
  <2>1. disk = [name \in {} |-> 0]
    BY DEF Init
  <2> QED
    BY <2>1
<1>2. \A p \in Procs: webDir[p] = NoDir /\ budget[p] = MaxBytes /\ pc[p] \in {"target", "check"}
  BY DEF Init
<1>3. MaxBytes \in Nat
  BY BudgetAssumption
<1> QED
  BY <1>1, <1>2, <1>3 DEF TempInv, BudgetInv, BudgetOf

LEMMA NextBudget == IInv /\ TempInv /\ BudgetInv /\ [Next]_vars => TempInv' /\ BudgetInv'
<1> SUFFICES ASSUME IInv, TempInv, BudgetInv, [Next]_vars PROVE TempInv' /\ BudgetInv'
  OBVIOUS
<1>1. ASSUME NEW p \in Procs, Get(p) \/ Send(p) \/ Dies(p) PROVE TempInv' /\ BudgetInv'
  <2>1. TempInv'
    BY <1>1, TempStep
  <2>2. BudgetInv'
    BY <1>1, BudgetRequests, BudgetCopies, BudgetJudges, BudgetControl DEF Send
  <2> QED
    BY <2>1, <2>2
<1>2. CASE UNCHANGED vars
  BY <1>2 DEF TempInv, Temp, BudgetInv, BudgetOf, Kept
<1> QED
  BY <1>1, <1>2 DEF Next

\* A send takes at most maxDownloadBytes and one byte of the disk over all its
\* URLs, and a run that is not killed leaves neither a downloaded file nor a
\* temporary one behind (resolveSources, download, writeWhole), whatever the
\* servers answer and however many arguments there are.
THEOREM DiskGivenBackHolds == Spec => []DiskGivenBack
<1>1. ASSUME TempInv, BudgetInv, NEW p \in Procs
      PROVE  /\ webDir[p] # NoDir => Taken(webDir[p]) <= MaxBytes + 1
             /\ pc[p] \in {"ok", "failed"} => webDir[p] = NoDir /\ Temp(p) \notin DOMAIN disk
  BY <1>1 DEF TempInv, OnDisk, BudgetInv, BudgetOf
<1>2. TempInv /\ BudgetInv => DiskGivenBack
  BY <1>1 DEF DiskGivenBack
<1>3. Spec => [](TempInv /\ BudgetInv)
  BY Invariant, InitBudget, NextBudget, PTL DEF Spec
<1> QED
  BY <1>2, <1>3, PTL
===============================================================================
