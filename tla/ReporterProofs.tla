--------------------------- MODULE ReporterProofs ----------------------------
(***************************************************************************)
(* Proofs about Reporter: report_task acts on the lines in order, on each  *)
(* once unless it meets it in two parts, and its list and reports are what *)
(* the lines leave outstanding, for any file, any number of outputs and    *)
(* any interleaving with Hadoop's writes.                                  *)
(***************************************************************************)
EXTENDS Reporter, FiniteSetTheorems, SequenceTheorems, TLAPS

-----------------------------------------------------------------------------
(* What the first n lines of a file leave outstanding.                     *)

Left(f, n) ==
  {o \in Output : \E a \in 1 .. n :
     /\ f[a] = [type |-> "announced", id |-> o]
     /\ \A k \in a + 1 .. n : f[k] \notin [type : {"fetched", "cleared"}, id : {o}]}

Known(f, n) ==
  \E a \in 1 .. n : f[a].type = "reducer" /\ \A k \in a + 1 .. n : f[k].type # "job done"

LEMMA LeftOfFile ==
  /\ \A n : Outstanding(n) = Left(file, n) /\ (ReducerKnown(n) <=> Known(file, n))
  BY DEF Outstanding, Left, ReducerKnown, Known

LEMMA LeftOfFileNext ==
  /\ Outstanding(Len(handled))' = Left(file', Len(handled'))
  /\ ReducerKnown(Len(handled))' <=> Known(file', Len(handled'))
  BY DEF Outstanding, Left, ReducerKnown, Known

\* Lines appended later change nothing.
LEMMA PrefixDecides ==
  ASSUME NEW f \in Seq(Line), NEW l \in Line, NEW n \in 0 .. Len(f)
  PROVE  Left(Append(f, l), n) = Left(f, n) /\ (Known(Append(f, l), n) <=> Known(f, n))
<1>1. \A k \in 1 .. n : Append(f, l)[k] = f[k]
  OBVIOUS
<1>2. \A a \in 1 .. n : \A k \in a + 1 .. n : k \in 1 .. n
  OBVIOUS
<1> QED BY <1>1, <1>2 DEF Left, Known

LEMMA LineShape ==
  ASSUME NEW l \in Line
  PROVE  /\ l.type \in {"announced", "fetched", "cleared", "reducer", "job done"}
         /\ l.type \in {"announced", "fetched", "cleared"} =>
              l.id \in Output /\ l = [type |-> l.type, id |-> l.id]
         /\ l.type \in {"reducer", "job done"} => l = [type |-> l.type]
  BY DEF Line

\* The lines behind a line among the first n + 1, and the last of them.
LEMMA OneMoreLine ==
  ASSUME NEW n \in Nat
  PROVE  /\ \A a : a \in 1 .. n + 1 <=> a \in 1 .. n \/ a = n + 1
         /\ \A a \in 1 .. n : \A k : k \in a + 1 .. n + 1 <=> k \in a + 1 .. n \/ k = n + 1
         /\ \A k : k \notin (n + 1) + 1 .. n + 1
  OBVIOUS

LEMMA AfterAnnounced ==
  ASSUME NEW f, NEW n \in Nat, NEW o \in Output, f[n + 1] = [type |-> "announced", id |-> o]
  PROVE  Left(f, n + 1) = Left(f, n) \cup {o}
<1>1. \A x : f[n + 1] \notin [type : {"fetched", "cleared"}, id : {x}]
  OBVIOUS
<1>2. \A x : f[n + 1] = [type |-> "announced", id |-> x] => x = o
  OBVIOUS
<1> QED BY <1>1, <1>2, OneMoreLine DEF Left

LEMMA AfterGone ==
  ASSUME NEW f, NEW n \in Nat, NEW o \in Output,
         f[n + 1] \in [type : {"fetched", "cleared"}, id : {o}]
  PROVE  Left(f, n + 1) = Left(f, n) \ {o}
<1>1. \A x : f[n + 1] # [type |-> "announced", id |-> x]
  OBVIOUS
<1>2. \A x : f[n + 1] \in [type : {"fetched", "cleared"}, id : {x}] <=> x = o
  OBVIOUS
<1> QED BY <1>1, <1>2, OneMoreLine DEF Left

LEMMA AfterOther ==
  ASSUME NEW f, NEW n \in Nat, f[n + 1].type \in {"reducer", "job done"}
  PROVE  Left(f, n + 1) = Left(f, n)
<1>1. \A x : [type |-> "announced", id |-> x].type = "announced"
  OBVIOUS
<1>2. \A x : \A y \in [type : {"fetched", "cleared"}, id : {x}] : y.type \in {"fetched", "cleared"}
  OBVIOUS
<1>3. \A x : f[n + 1] # [type |-> "announced", id |-> x]
  BY <1>1
<1>4. \A x : f[n + 1] \notin [type : {"fetched", "cleared"}, id : {x}]
  BY <1>2
<1> DEFINE Fits(x, a, m) ==
      /\ f[a] = [type |-> "announced", id |-> x]
      /\ \A k \in a + 1 .. m : f[k] \notin [type : {"fetched", "cleared"}, id : {x}]
<1>5. \A x : \A a \in 1 .. n : Fits(x, a, n + 1) <=> Fits(x, a, n)
  BY <1>4, OneMoreLine
<1>6. \A x : ~Fits(x, n + 1, n + 1)
  BY <1>3
<1>7. \A m : Left(f, m) = {x \in Output : \E a \in 1 .. m : Fits(x, a, m)}
  BY DEF Left
<1> HIDE DEF Fits
<1>8. \A x : (\E a \in 1 .. n + 1 : Fits(x, a, n + 1)) <=> \E a \in 1 .. n : Fits(x, a, n)
  <2>1. \A a : a \in 1 .. n + 1 <=> a \in 1 .. n \/ a = n + 1
    BY OneMoreLine
  <2> SUFFICES ASSUME NEW x
               PROVE  (\E a \in 1 .. n + 1 : Fits(x, a, n + 1)) <=> \E a \in 1 .. n : Fits(x, a, n)
    OBVIOUS
  <2>2. ~Fits(x, n + 1, n + 1) /\ \A a \in 1 .. n : Fits(x, a, n + 1) <=> Fits(x, a, n)
    BY <1>5, <1>6
  <2> QED BY <2>1, <2>2, Zenon
<1> QED BY <1>7, <1>8

LEMMA ReducerAfter ==
  ASSUME NEW f, NEW n \in Nat
  PROVE  /\ f[n + 1].type = "reducer" => Known(f, n + 1)
         /\ f[n + 1].type = "job done" => ~Known(f, n + 1)
         /\ f[n + 1].type \notin {"reducer", "job done"} => (Known(f, n + 1) <=> Known(f, n))
<1> DEFINE Fits(a, m) == f[a].type = "reducer" /\ \A k \in a + 1 .. m : f[k].type # "job done"
<1>1. \A a \in 1 .. n : Fits(a, n + 1) <=> Fits(a, n) /\ f[n + 1].type # "job done"
  BY OneMoreLine
<1>2. Fits(n + 1, n + 1) <=> f[n + 1].type = "reducer"
  BY OneMoreLine
<1>3. \A m : Known(f, m) <=> \E a \in 1 .. m : Fits(a, m)
  BY DEF Known
<1> HIDE DEF Fits
<1>4. (\E a \in 1 .. n + 1 : Fits(a, n + 1)) <=> (\E a \in 1 .. n : Fits(a, n + 1)) \/ Fits(n + 1, n + 1)
  BY OneMoreLine
<1>5. /\ Known(f, n + 1) <=> \E a \in 1 .. n + 1 : Fits(a, n + 1)
      /\ Known(f, n) <=> \E a \in 1 .. n : Fits(a, n)
  BY <1>3
<1> HIDE <1>3
<1>6. /\ f[n + 1].type = "reducer" => Known(f, n + 1)
      /\ f[n + 1].type = "job done" => ~Known(f, n + 1)
  BY <1>1, <1>2, <1>4, <1>5
<1>7. f[n + 1].type \notin {"reducer", "job done"} => (Known(f, n + 1) <=> Known(f, n))
  BY <1>1, <1>2, <1>4, <1>5
<1> QED BY <1>6, <1>7

-----------------------------------------------------------------------------
(* The list.                                                               *)

LEMMA SizeBound ==
  ASSUME NEW l, IsFiniteSet(l)
  PROVE  Size(l) \in Nat
  BY FS_Subset, FS_CardinalityType DEF Size

\* When all entries have been read whole their sizes add up to their number.
LEMMA SizeCounts ==
  ASSUME NEW l, IsFiniteSet(l), \A e \in l : e.size = 1, \A d, e \in l : d.id = e.id => d = e
  PROVE  Size(l) = Cardinality(Ids(l))
<1>1. {e \in l : e.size = 1} = l
  OBVIOUS
<1> DEFINE name == [e \in l |-> e.id]
<1>2. name \in Bijection(l, Ids(l))
  BY DEF Bijection, Injection, IsInjective, Surjection, Ids
<1>3. ExistsBijection(l, Ids(l))
  BY <1>2 DEF ExistsBijection
<1>4. Cardinality(l) = Cardinality(Ids(l))
  BY <1>3, FS_Bijection
<1> QED BY <1>1, <1>4 DEF Size

\* What ReadAnnounced makes of the list, and what ReadGone does.
LEMMA ListAdds ==
  ASSUME IInv, NEW e \in Entry, list' = IF Listed(e.id) = {} THEN list \cup {e} ELSE list
  PROVE  /\ list' \subseteq Entry /\ \A c, d \in list' : c.id = d.id => c = d
         /\ IsFiniteSet(list')
         /\ Ids(list') = Ids(list) \cup {e.id}
         /\ e.size = 1 /\ (\A d \in list : d.size = 1) => \A d \in list' : d.size = 1
<1>1. list \subseteq Entry /\ (\A c, d \in list : c.id = d.id => c = d) /\ IsFiniteSet(list)
  BY DEF IInv, TypeOK
<1>2. CASE Listed(e.id) = {}
  <2>1. list' = list \cup {e} /\ \A d \in list : d.id # e.id
    BY <1>2 DEF Listed
  <2>2. IsFiniteSet(list')
    BY <1>1, <2>1, FS_AddElement
  <2>3. Ids(list') = Ids(list) \cup {e.id}
    BY <2>1 DEF Ids
  <2> QED BY <1>1, <2>1, <2>2, <2>3
<1>3. CASE Listed(e.id) # {}
  <2>1. list' = list /\ e.id \in Ids(list)
    BY <1>3 DEF Listed, Ids
  <2> QED BY <1>1, <2>1
<1> QED BY <1>2, <1>3

LEMMA ListLoses ==
  ASSUME IInv, NEW o, list' = list \ Listed(o)
  PROVE  /\ list' \subseteq Entry /\ \A c, d \in list' : c.id = d.id => c = d
         /\ IsFiniteSet(list')
         /\ Ids(list') = Ids(list) \ {o}
         /\ list' # list => o \in Ids(list)
         /\ (\A d \in list : d.size = 1) => \A d \in list' : d.size = 1
<1>1. list \subseteq Entry /\ (\A c, d \in list : c.id = d.id => c = d) /\ IsFiniteSet(list)
  BY DEF IInv, TypeOK
<1>2. IsFiniteSet(list')
  <2>1. list' \in SUBSET list
    OBVIOUS
  <2> QED BY <1>1, <2>1, FS_Subset
<1>3. Ids(list') = Ids(list) \ {o} /\ (list' # list => o \in Ids(list))
  BY DEF Listed, Ids
<1> QED BY <1>1, <1>2, <1>3

-----------------------------------------------------------------------------
(* A line that is acted on.                                                *)

\* It lies behind all lines acted on before, and is the next one of them when
\* no half of a line has been met.
LEMMA ActFacts ==
  ASSUME IInv, NEW type, Act(type)
  PROVE  /\ pc = "Read" /\ ~midline /\ pos \in Nat /\ pos + 1 \in 1 .. Len(file)
         /\ i \in pos .. 2 * pos /\ read \in 0 .. 2 * Len(file) /\ read <= i
         /\ UNCHANGED <<file, partial, speeds, opened, fast>> /\ torn' \in BOOLEAN
         /\ file[pos + 1] \in Line /\ file[pos + 1].type = type
         /\ handled' \in Seq(1 .. Len(file)) /\ Len(handled) \in Nat
         /\ Len(handled') = Len(handled) + 1 /\ handled'[Len(handled) + 1] = pos + 1
         /\ \A k \in 1 .. Len(handled) : handled'[k] = handled[k] /\ handled[k] \in 1 .. pos
         /\ ~torn' => /\ ~torn /\ ~Cut /\ i = pos /\ Len(handled) = pos
                      /\ partial => pos + 1 < Len(file)
<1> USE DEF IInv
<1>1. /\ pc = "Read" /\ ~midline /\ pos < Len(file) /\ i + 1 > read
      /\ file[pos + 1].type = type /\ handled' = Append(handled, pos + 1)
      /\ torn' = (torn \/ Cut) /\ UNCHANGED <<file, partial, speeds, opened, fast>>
  BY DEF Act, Fgets, fileVars
<1>2. /\ file \in Seq(Line) /\ Len(file) \in Nat /\ pos \in Nat /\ pos + 1 \in 1 .. Len(file)
      /\ i \in pos .. 2 * pos /\ read \in 0 .. 2 * Len(file) /\ read <= i
      /\ handled \in Seq(1 .. Len(file)) /\ Len(handled) \in Nat
  BY <1>1 DEF TypeOK
<1>3. \A k \in 1 .. Len(handled) : handled[k] \in 1 .. Len(file)
  BY <1>2
<1>4. \A k \in 1 .. Len(handled) : handled[k] \in 1 .. pos
  <2> SUFFICES ASSUME NEW k \in 1 .. Len(handled) PROVE handled[k] \in 1 .. pos
    OBVIOUS
  <2>1. (handled[k] <= read \/ handled[k] <= pos) /\ (i > pos => handled[k] <= pos)
    BY <1>2 DEF BehindUs
  <2> QED BY <1>2, <1>3, <2>1
<1>6. /\ handled' \in Seq(1 .. Len(file)) /\ Len(handled') = Len(handled) + 1
      /\ \A k \in 1 .. Len(handled) : handled'[k] = handled[k]
      /\ handled'[Len(handled) + 1] = pos + 1
  BY <1>1, <1>2, AppendProperties
<1>8. ASSUME ~torn'
      PROVE  /\ ~torn /\ ~Cut /\ i = pos /\ Len(handled) = pos
             /\ partial => pos + 1 < Len(file)
  <2>1. ~torn /\ ~Cut
    BY <1>1, <1>8
  <2>2. i = pos /\ Len(handled) = pos
    BY <1>2, <2>1 DEF WholeLines
  <2> QED BY <1>2, <2>1, <2>2 DEF Cut
<1>9. torn' \in BOOLEAN /\ file[pos + 1] \in Line
  BY <1>1, <1>2 DEF TypeOK, Cut
<1> QED BY <1>1, <1>2, <1>4, <1>6, <1>8, <1>9

LEMMA ActInOrder ==
  ASSUME IInv, NEW type, Act(type)
  PROVE  LinesInOrder'
<1>1. /\ Len(handled) \in Nat /\ Len(handled') = Len(handled) + 1 /\ pos \in Nat
      /\ \A k \in 1 .. Len(handled) : handled'[k] = handled[k] /\ handled[k] \in 1 .. pos
      /\ handled'[Len(handled) + 1] = pos + 1
  BY ActFacts
<1>2. \A k \in 2 .. Len(handled') : handled'[k - 1] <= handled'[k]
  <2> SUFFICES ASSUME NEW k \in 2 .. Len(handled) + 1 PROVE handled'[k - 1] <= handled'[k]
    BY <1>1
  <2>1. \A m \in 2 .. Len(handled) : handled[m - 1] <= handled[m]
    BY DEF IInv, LinesInOrder
  <2>2. CASE k = Len(handled) + 1
    BY <1>1, <2>2
  <2>3. CASE k \in 2 .. Len(handled)
    BY <1>1, <2>1, <2>3
  <2> QED BY <1>1, <2>2, <2>3
<1>3. \A k \in 3 .. Len(handled') : handled'[k - 2] < handled'[k]
  <2> SUFFICES ASSUME NEW k \in 3 .. Len(handled) + 1 PROVE handled'[k - 2] < handled'[k]
    BY <1>1
  <2>1. \A m \in 3 .. Len(handled) : handled[m - 2] < handled[m]
    BY DEF IInv, LinesInOrder
  <2>2. CASE k = Len(handled) + 1
    BY <1>1, <2>2
  <2>3. CASE k \in 3 .. Len(handled)
    BY <1>1, <2>1, <2>3
  <2> QED BY <1>1, <2>2, <2>3
<1>4. ASSUME ~torn' PROVE \A k \in DOMAIN handled' : handled'[k] = k
  <2>1. ~torn /\ Len(handled) = pos
    BY <1>4, ActFacts
  <2>2. \A k \in 1 .. Len(handled) : handled[k] = k
    <3>1. DOMAIN handled = 1 .. Len(handled)
      BY DEF IInv, TypeOK
    <3>2. \A k \in DOMAIN handled : handled[k] = k
      BY <2>1 DEF IInv, LinesInOrder
    <3> QED BY <3>1, <3>2
  <2>3. DOMAIN handled' = 1 .. Len(handled) + 1
    BY <1>1, ActFacts
  <2> QED BY <1>1, <2>1, <2>2, <2>3
<1> QED BY <1>2, <1>3, <1>4 DEF LinesInOrder

\* Reading goes on behind the line, or the pass ends there.
LEMMA ActPasses ==
  ASSUME IInv, NEW type, Act(type),
         (Go /\ pc' \in {"Read", "Dead"}) \/ Leave(i + 1)
  PROVE  /\ BehindUs'
         /\ pc' \in {"Open", "Read", "Test", "Report", "Reset", "Dead"}
         /\ pos' \in 0 .. Len(file') /\ i' \in pos' .. 2 * pos' /\ read' \in 0 .. 2 * Len(file')
         /\ midline' \in BOOLEAN
         /\ ~torn' => /\ ~midline' /\ i' = pos' /\ (partial' => Len(handled') < Len(file'))
                      /\ Len(handled') = IF read' >= pos' THEN read' ELSE pos'
<1>1. /\ pos \in Nat /\ pos + 1 \in 1 .. Len(file) /\ Len(file) \in Nat
      /\ i \in pos .. 2 * pos /\ read \in 0 .. 2 * Len(file) /\ read <= i
      /\ file' = file /\ partial' = partial
      /\ Len(handled') = Len(handled) + 1 /\ Len(handled) \in Nat
      /\ \A k \in DOMAIN handled' : handled'[k] \in 1 .. pos + 1
  <2>1. handled' \in Seq(1 .. Len(file)) /\ file \in Seq(Line)
    BY ActFacts DEF IInv, TypeOK
  <2>2. \A k \in 1 .. Len(handled') : handled'[k] \in 1 .. pos + 1
    <3>1. /\ \A k \in 1 .. Len(handled) : handled'[k] = handled[k] /\ handled[k] \in 1 .. pos
          /\ handled'[Len(handled) + 1] = pos + 1 /\ pos \in Nat
          /\ Len(handled) \in Nat /\ Len(handled') = Len(handled) + 1
      BY ActFacts
    <3> QED BY <3>1
  <2>3. Len(file) \in Nat /\ DOMAIN handled' = 1 .. Len(handled')
    BY <2>1
  <2>4. /\ pos \in Nat /\ pos + 1 \in 1 .. Len(file)
        /\ i \in pos .. 2 * pos /\ read \in 0 .. 2 * Len(file) /\ read <= i
        /\ file' = file /\ partial' = partial
        /\ Len(handled') = Len(handled) + 1 /\ Len(handled) \in Nat
    BY ActFacts
  <2> QED BY <2>2, <2>3, <2>4
<1>2. ~torn' => /\ ~Cut /\ i = pos /\ Len(handled') = pos + 1
                /\ partial => pos + 1 < Len(file)
  BY <1>1, ActFacts
<1>5. \A k \in 2 .. Len(handled') : handled'[k - 1] = handled'[k] =>
        ~(partial /\ handled'[k] = Len(file)) /\ handled'[k] <= pos
  <2> SUFFICES ASSUME NEW k \in 2 .. Len(handled) + 1, handled'[k - 1] = handled'[k]
               PROVE  ~(partial /\ handled'[k] = Len(file)) /\ handled'[k] <= pos
    BY <1>1
  <2>1. /\ \A m \in 1 .. Len(handled) : handled'[m] = handled[m] /\ handled[m] \in 1 .. pos
        /\ handled'[Len(handled) + 1] = pos + 1
    BY ActFacts
  <2>2. k \in 2 .. Len(handled)
    BY <1>1, <2>1
  <2>3. handled[k - 1] = handled[k] => ~(partial /\ handled[k] = Len(file))
    BY <2>2 DEF IInv, BehindUs
  <2> QED BY <1>1, <2>1, <2>2, <2>3
<1>3. CASE Go /\ pc' \in {"Read", "Dead"}
  <2>1. pos' = pos + 1 /\ i' = i + 1 /\ midline' = Cut /\ read' = read
    BY <1>3 DEF Go
  <2>2. BehindUs'
    <3>1. \A k \in 2 .. Len(handled') : handled'[k - 1] = handled'[k] =>
            ~(partial' /\ handled'[k] = Len(file')) /\ ~(midline' /\ handled'[k] = pos')
      BY <1>1, <1>5, <2>1
    <3>2. midline' => i' + 1 <= 2 * pos'
      <4>1. ~midline => i <= 2 * pos
        BY <1>1
      <4> QED BY <1>1, <2>1
    <3> QED BY <1>1, <1>3, <2>1, <3>1, <3>2 DEF BehindUs
  <2>3. Cut \in BOOLEAN
    BY DEF Cut, IInv, TypeOK
  <2>4. pos' \in 0 .. Len(file') /\ i' \in pos' .. 2 * pos' /\ read' \in 0 .. 2 * Len(file')
    BY <1>1, <1>3, <2>1, <2>2, <2>3
  <2>5. ~torn' => /\ ~midline' /\ i' = pos' /\ (partial' => Len(handled') < Len(file'))
                  /\ Len(handled') = IF read' >= pos' THEN read' ELSE pos'
    BY <1>1, <1>2, <1>3, <2>1, <2>2, <2>3
  <2> QED BY <1>3, <2>1, <2>2, <2>3, <2>4, <2>5
<1>4. CASE Leave(i + 1)
  <2>1. read' = i + 1 /\ i' = 0 /\ pos' = 0 /\ midline' = FALSE /\ pc' = "Test"
    BY <1>4 DEF Leave
  <2>2. BehindUs'
    <3>1. \A k \in 2 .. Len(handled') : handled'[k - 1] = handled'[k] =>
            ~(partial' /\ handled'[k] = Len(file')) /\ ~(midline' /\ handled'[k] = pos')
      BY <1>1, <1>5, <2>1
    <3> QED BY <1>1, <2>1, <3>1 DEF BehindUs
  <2>4. pos' \in 0 .. Len(file') /\ i' \in pos' .. 2 * pos' /\ read' \in 0 .. 2 * Len(file')
    BY <1>1, <2>1, <2>2
  <2>5. ~torn' => /\ ~midline' /\ i' = pos' /\ (partial' => Len(handled') < Len(file'))
                  /\ Len(handled') = IF read' >= pos' THEN read' ELSE pos'
    BY <1>1, <1>2, <2>1, <2>2
  <2> QED BY <2>1, <2>2, <2>4, <2>5
<1> QED BY <1>3, <1>4

\* The list, the reducer and the report after it decide the rest.
LEMMA ActKeeps ==
  ASSUME IInv, NEW type, Act(type),
         (Go /\ pc' \in {"Read", "Dead"}) \/ Leave(i + 1),
         \/ Quiet /\ pc' # "Dead"
         \/ HasSpeeds(1) /\ SendReport(list', reduce') /\ pc' # "Dead"
         \/ Die /\ (HasSpeeds(1) => torn'),
         list' \subseteq Entry, \A c, d \in list' : c.id = d.id => c = d,
         IsFiniteSet(list'), reduce' \in {0, 1},
         ~torn' => /\ \A e \in list' : e.size = 1
                   /\ Ids(list') = Left(file, pos + 1)
                   /\ reduce' = IF Known(file, pos + 1) THEN 1 ELSE 0
  PROVE  IInv'
<1>1. /\ UNCHANGED <<file, partial, speeds, opened, fast>> /\ torn' \in BOOLEAN
      /\ handled' \in Seq(1 .. Len(file)) /\ Len(handled) \in Nat /\ pos + 1 <= Len(file)
      /\ Len(handled') = Len(handled) + 1
      /\ ~torn' => ~torn /\ Len(handled') = pos + 1
      /\ pos \in Nat /\ Len(file) \in Nat
  <2>1. file \in Seq(Line)
    BY DEF IInv, TypeOK
  <2> QED BY <2>1, ActFacts
<1>2. Size(list') \in Nat
  BY SizeBound
<1>3. /\ fds \in 0 .. MaxFds /\ sent \in 0 .. MaxFds /\ fds = Leaks
      /\ speeds' = speeds /\ opened' = opened /\ opened \in BOOLEAN /\ MaxFds \in Nat \ {0}
  BY <1>1, BoundsAssumption DEF IInv, TypeOK
<1>4. fds' \in 0 .. MaxFds /\ sent' \in 0 .. MaxFds /\ fds' = Leaks' /\ LivesLong'
  <2>1. CASE Quiet /\ pc' # "Dead"
    BY <1>3, <2>1 DEF Quiet, LivesLong, Leaks
  <2>2. CASE HasSpeeds(1) /\ SendReport(list', reduce') /\ pc' # "Dead"
    BY <1>3, <2>2 DEF HasSpeeds, CanOpen, SendReport, LivesLong, Leaks
  <2>3. CASE Die /\ (HasSpeeds(1) => torn')
    BY <1>3, <2>3 DEF Die, Quiet, HasSpeeds, CanOpen, LivesLong, Leaks
  <2> QED BY <2>1, <2>2, <2>3
<1>5. /\ told' \in [size : Nat, reduce : {0, 1}] \cup {NoReport}
      /\ told' # NoReport => told' = [size |-> Size(list'), reduce |-> reduce']
  <2>1. CASE told' = NoReport
    BY <2>1
  <2>2. CASE told' = [size |-> Size(list'), reduce |-> reduce']
    BY <1>2, <2>2
  <2> QED BY <2>1, <2>2 DEF Quiet, Die, SendReport
<1>6. /\ BehindUs'
      /\ pc' \in {"Open", "Read", "Test", "Report", "Reset", "Dead"}
      /\ pos' \in 0 .. Len(file') /\ i' \in pos' .. 2 * pos' /\ read' \in 0 .. 2 * Len(file')
      /\ midline' \in BOOLEAN
      /\ ~torn' => /\ ~midline' /\ i' = pos' /\ (partial' => Len(handled') < Len(file'))
                   /\ Len(handled') = IF read' >= pos' THEN read' ELSE pos'
  BY ActPasses
<1>7. ~torn' => /\ Ids(list') = Outstanding(Len(handled))'
                /\ reduce' = IF ReducerKnown(Len(handled))' THEN 1 ELSE 0
  BY <1>1, LeftOfFileNext
<1>8. TypeOK'
  <2>2. /\ file' \in Seq(Line) /\ Len(file') <= MaxLines /\ Orderly(file)'
        /\ partial' \in BOOLEAN /\ (partial' => file' # <<>>) /\ fast' \in BOOLEAN
        /\ speeds' \in BOOLEAN /\ opened' \in BOOLEAN
    BY <1>1 DEF IInv, TypeOK, Orderly, Named
  <2>3. handled' \in Seq(1 .. Len(file'))
    BY <1>1
  <2> QED BY <1>1, <1>4, <1>5, <1>6, <2>2, <2>3 DEF TypeOK
<1>9. WholeLines'
  BY <1>6, <1>7 DEF WholeLines, Ids
<1>10. KnowsOutstanding'
  <2> SUFFICES ASSUME ~torn'
               PROVE  /\ Ids(list') = Outstanding(Len(handled))'
                      /\ told' # NoReport =>
                           /\ told'.size = Cardinality(Outstanding(Len(handled))')
                           /\ told'.reduce = IF ReducerKnown(Len(handled))' THEN 1 ELSE 0
    BY DEF KnowsOutstanding, Ids, NoReport
  <2>1. Size(list') = Cardinality(Ids(list'))
    BY SizeCounts
  <2>2. told' # NoReport => told'.size = Size(list') /\ told'.reduce = reduce'
    BY <1>5
  <2> QED BY <1>7, <2>1, <2>2
<1>11. IsFiniteSet(list)' /\ (fds = Leaks)'
  BY <1>4
<1> QED BY <1>4, <1>6, <1>8, <1>9, <1>10, <1>11, ActInOrder DEF IInv

\* What is parsed is an entry, and the line's own while no half is met.
LEMMA ParsedEntry ==
  ASSUME IInv, NEW type \in {"announced", "fetched", "cleared"}, Act(type), NEW e \in Parsed
  PROVE  /\ e \in Entry
         /\ file[pos + 1].id \in Output /\ file[pos + 1] = [type |-> type, id |-> file[pos + 1].id]
         /\ ~torn' => e.id = file[pos + 1].id /\ e.size = 1
<1>1. file[pos + 1].id \in Output /\ file[pos + 1] = [type |-> type, id |-> file[pos + 1].id]
  BY ActFacts, LineShape
<1>2. ~torn' => ~Cut
  BY ActFacts
<1> QED BY <1>1, <1>2 DEF Parsed, Entry

\* Before a line that is acted on the list is what the lines before it leave.
LEMMA BeforeLine ==
  ASSUME IInv, NEW type, Act(type), ~torn'
  PROVE  /\ \A e \in list : e.size = 1
         /\ Ids(list) = Left(file, pos) /\ pos \in Nat
         /\ reduce = IF Known(file, pos) THEN 1 ELSE 0
<1>1. ~torn /\ Len(handled) = pos /\ pos \in Nat
  BY ActFacts
<1> QED BY <1>1, LeftOfFile DEF IInv, WholeLines

LEMMA AnnouncedKeeps ==
  ASSUME IInv, ReadAnnounced
  PROVE  IInv'
<1>1. Act("announced") /\ Go /\ Quiet /\ UNCHANGED <<pc, reduce>> /\ pc = "Read"
  BY ActFacts DEF ReadAnnounced, Announced
<1> PICK e \in Parsed : list' = IF Listed(e.id) = {} THEN list \cup {e} ELSE list
  BY DEF ReadAnnounced, Announced
<1>2. /\ e \in Entry /\ file[pos + 1].id \in Output
      /\ file[pos + 1] = [type |-> "announced", id |-> file[pos + 1].id]
      /\ ~torn' => e.id = file[pos + 1].id /\ e.size = 1
  BY <1>1, ParsedEntry
<1>3. ASSUME ~torn'
      PROVE  /\ \A d \in list' : d.size = 1
             /\ Ids(list') = Left(file, pos + 1)
             /\ reduce' = IF Known(file, pos + 1) THEN 1 ELSE 0
  <2>1. /\ \A d \in list : d.size = 1
        /\ Ids(list) = Left(file, pos) /\ pos \in Nat
        /\ reduce = IF Known(file, pos) THEN 1 ELSE 0
    BY <1>1, <1>3, BeforeLine
  <2>2. Left(file, pos + 1) = Left(file, pos) \cup {e.id}
    BY <1>2, <1>3, <2>1, AfterAnnounced
  <2>3. Known(file, pos + 1) <=> Known(file, pos)
    <3>1. file[pos + 1].type = "announced"
      BY <1>1, ActFacts
    <3> QED BY <2>1, <3>1, ReducerAfter
  <2> QED BY <1>1, <1>2, <1>3, <2>1, <2>2, <2>3, ListAdds
<1>4. reduce' \in {0, 1}
  BY <1>1 DEF IInv, TypeOK
<1>5. /\ list' \subseteq Entry /\ \A c, d \in list' : c.id = d.id => c = d
      /\ IsFiniteSet(list')
  BY <1>2, ListAdds
<1> QED BY <1>1, <1>3, <1>4, <1>5, ActKeeps

\* An output that has gone is taken off, and what is reported is the rest.
LEMMA GoneList ==
  ASSUME IInv, NEW type \in {"fetched", "cleared"}, Act(type), NEW e \in Parsed,
         list' = list \ Listed(e.id), UNCHANGED reduce
  PROVE  /\ list' \subseteq Entry /\ \A c, d \in list' : c.id = d.id => c = d
         /\ IsFiniteSet(list')
         /\ reduce' \in {0, 1}
         /\ ~torn' => /\ \A d \in list' : d.size = 1
                      /\ Ids(list') = Left(file, pos + 1)
                      /\ reduce' = IF Known(file, pos + 1) THEN 1 ELSE 0
<1>1. /\ file[pos + 1].id \in Output
      /\ file[pos + 1] = [type |-> type, id |-> file[pos + 1].id]
      /\ ~torn' => e.id = file[pos + 1].id
  BY ParsedEntry
<1>2. ASSUME ~torn'
      PROVE  /\ \A d \in list' : d.size = 1
             /\ Ids(list') = Left(file, pos + 1)
             /\ reduce' = IF Known(file, pos + 1) THEN 1 ELSE 0
  <2>1. /\ \A d \in list : d.size = 1
        /\ Ids(list) = Left(file, pos) /\ pos \in Nat
        /\ reduce = IF Known(file, pos) THEN 1 ELSE 0
    BY <1>2, BeforeLine
  <2>2. Left(file, pos + 1) = Left(file, pos) \ {e.id}
    <3>1. e.id \in Output /\ file[pos + 1] \in [type : {"fetched", "cleared"}, id : {e.id}]
      BY <1>1, <1>2
    <3> QED BY <2>1, <3>1, AfterGone
  <2>3. Known(file, pos + 1) <=> Known(file, pos)
    <3>1. file[pos + 1].type = type
      BY ActFacts
    <3> QED BY <2>1, <3>1, ReducerAfter
  <2> QED BY <2>1, <2>2, <2>3, ListLoses
<1>3. reduce' \in {0, 1}
  BY DEF IInv, TypeOK
<1> QED BY <1>2, <1>3, ListLoses

LEMMA GoneKeeps ==
  ASSUME IInv, NEW type \in {"fetched", "cleared"}, ReadGone(type)
  PROVE  IInv'
<1>1. Act(type) /\ Go /\ UNCHANGED reduce /\ pc = "Read"
  BY ActFacts DEF ReadGone, Gone
<1> PICK e \in Parsed :
      LET rest == list \ Listed(e.id)
      IN  /\ list' = rest
          /\ IF rest # list /\ Due(type, rest)
             THEN IF HasSpeeds(1) THEN SendReport(rest, reduce) /\ UNCHANGED pc ELSE Die
             ELSE Quiet /\ UNCHANGED pc
  BY DEF ReadGone, Gone
<1>2. list' = list \ Listed(e.id)
  OBVIOUS
<1>3. /\ \/ Quiet /\ pc' # "Dead"
         \/ HasSpeeds(1) /\ SendReport(list', reduce') /\ pc' # "Dead"
         \/ Die /\ (HasSpeeds(1) => torn')
      /\ pc' \in {"Read", "Dead"}
  BY <1>1 DEF Die
<1>4. /\ list' \subseteq Entry /\ \A c, d \in list' : c.id = d.id => c = d
      /\ IsFiniteSet(list')
      /\ reduce' \in {0, 1}
      /\ ~torn' => /\ \A d \in list' : d.size = 1
                   /\ Ids(list') = Left(file, pos + 1)
                   /\ reduce' = IF Known(file, pos + 1) THEN 1 ELSE 0
  BY <1>1, <1>2, GoneList
<1> QED BY <1>1, <1>3, <1>4, ActKeeps

LEMMA OtherKeeps ==
  ASSUME IInv, ReadReducer \/ ReadJobDone
  PROVE  IInv'
<1>1. list' = list /\ Quiet
  BY DEF ReadReducer, ReadJobDone
<1>2. /\ list' \subseteq Entry /\ \A c, d \in list' : c.id = d.id => c = d
      /\ IsFiniteSet(list')
  BY <1>1, FS_CardinalityType DEF IInv, TypeOK
<1>3. CASE ReadReducer
  <2>1. Act("reducer") /\ Go /\ pc = "Read"
    BY <1>3, ActFacts DEF ReadReducer
  <2>2. Cut => torn'
    BY <2>1 DEF Act
  <2>3. pc' \in {"Read", "Dead"} /\ (pc' = "Dead" => torn')
    BY <1>3, <2>1, <2>2 DEF ReadReducer, AnyReducer
  <2>4. reduce' \in {0, 1}
    BY <1>3 DEF ReadReducer, AnyReducer, IInv, TypeOK
  <2>5. ASSUME ~torn'
        PROVE  /\ \A d \in list' : d.size = 1
               /\ Ids(list') = Left(file, pos + 1)
               /\ reduce' = IF Known(file, pos + 1) THEN 1 ELSE 0
    <3>1. (\A d \in list : d.size = 1) /\ Ids(list) = Left(file, pos) /\ pos \in Nat
      BY <2>1, <2>5, BeforeLine
    <3>2. file[pos + 1].type = "reducer"
      BY <2>1, ActFacts
    <3>3. Left(file, pos + 1) = Left(file, pos) /\ Known(file, pos + 1)
      BY <3>1, <3>2, AfterOther, ReducerAfter
    <3> QED BY <1>1, <1>3, <2>2, <2>5, <3>1, <3>3 DEF ReadReducer
  <2> QED BY <1>1, <1>2, <2>1, <2>3, <2>4, <2>5, ActKeeps DEF Die
<1>4. CASE ReadJobDone
  <2>1. Act("job done") /\ Leave(i + 1) /\ reduce' = 0 /\ pc' # "Dead"
    BY <1>4 DEF ReadJobDone, Leave
  <2>2. ASSUME ~torn'
        PROVE  /\ \A d \in list' : d.size = 1
               /\ Ids(list') = Left(file, pos + 1)
               /\ reduce' = IF Known(file, pos + 1) THEN 1 ELSE 0
    <3>1. (\A d \in list : d.size = 1) /\ Ids(list) = Left(file, pos) /\ pos \in Nat
      BY <2>1, <2>2, BeforeLine
    <3>2. file[pos + 1].type = "job done"
      BY <2>1, ActFacts
    <3>3. Left(file, pos + 1) = Left(file, pos) /\ ~Known(file, pos + 1)
      BY <3>1, <3>2, AfterOther, ReducerAfter
    <3> QED BY <1>1, <2>1, <3>1, <3>3
  <2> QED BY <1>1, <1>2, <2>1, <2>2, ActKeeps
<1> QED BY <1>3, <1>4

-----------------------------------------------------------------------------
(* Steps that act on no line.                                              *)

LEMMA StillKeeps ==
  ASSUME IInv, UNCHANGED <<file, partial, speeds, opened, list, reduce, handled, torn>>,
         \/ Quiet /\ (pc' = "Dead" => ~HasSpeeds(1))
         \/ UNCHANGED <<reportVars, pc>>
         \/ CanOpen(0) /\ SendReport(list, reduce) /\ pc' # "Dead" /\ pc # "Dead",
         BehindUs', fast' \in BOOLEAN, midline' \in BOOLEAN,
         pc' \in {"Open", "Read", "Test", "Report", "Reset", "Dead"},
         pos' \in 0 .. Len(file) /\ i' \in pos' .. 2 * pos' /\ read' \in 0 .. 2 * Len(file),
         ~torn => ~midline' /\ i' = pos' /\ Len(handled) = IF read' >= pos' THEN read' ELSE pos'
  PROVE  IInv'
<1>1. /\ Outstanding(Len(handled))' = Outstanding(Len(handled))
      /\ ReducerKnown(Len(handled))' <=> ReducerKnown(Len(handled))
  BY LeftOfFile, LeftOfFileNext
<1>2. Size(list) \in Nat
  BY SizeBound DEF IInv
<1>3. /\ fds \in 0 .. MaxFds /\ sent \in 0 .. MaxFds /\ fds = Leaks
      /\ speeds' = speeds /\ opened' = opened /\ opened \in BOOLEAN /\ MaxFds \in Nat \ {0}
  BY BoundsAssumption DEF IInv, TypeOK
<1>4. fds' \in 0 .. MaxFds /\ sent' \in 0 .. MaxFds /\ fds' = Leaks' /\ LivesLong'
  <2>1. CASE Quiet /\ (pc' = "Dead" => ~HasSpeeds(1))
    BY <1>3, <2>1 DEF Quiet, HasSpeeds, CanOpen, LivesLong, Leaks
  <2>2. CASE UNCHANGED <<reportVars, pc>>
    BY <1>3, <2>2 DEF reportVars, IInv, LivesLong, Leaks
  <2>3. CASE CanOpen(0) /\ SendReport(list, reduce) /\ pc' # "Dead"
    BY <1>3, <2>3 DEF CanOpen, SendReport, LivesLong, Leaks
  <2> QED BY <2>1, <2>2, <2>3
<1>5. told' \in [size : Nat, reduce : {0, 1}] \cup {NoReport}
  <2>1. CASE told' = NoReport
    BY <2>1
  <2>2. CASE told' = told
    BY <2>2 DEF IInv, TypeOK
  <2>3. CASE told' = [size |-> Size(list), reduce |-> reduce]
    BY <1>2, <2>3 DEF IInv, TypeOK
  <2> QED BY <2>1, <2>2, <2>3 DEF Quiet, reportVars, SendReport
<1>6. TypeOK'
  <2>1. handled' \in Seq(1 .. Len(file')) /\ Orderly(file)'
    BY DEF IInv, TypeOK, Orderly, Named
  <2> QED BY <1>4, <1>5, <2>1 DEF IInv, TypeOK
<1>7. WholeLines' /\ LinesInOrder'
  BY <1>1 DEF IInv, WholeLines, LinesInOrder, Ids
<1>8. KnowsOutstanding'
  <2>1. ~torn => Ids(list)' = Outstanding(Len(handled))'
    BY <1>7 DEF WholeLines
  <2>2. CASE told' = NoReport
    BY <2>1, <2>2 DEF KnowsOutstanding
  <2>3. CASE UNCHANGED <<reportVars, pc>>
    BY <1>1, <2>1, <2>3 DEF IInv, KnowsOutstanding, reportVars
  <2>4. CASE SendReport(list, reduce) /\ ~torn
    <3>1. (\A e \in list : e.size = 1) /\ Ids(list) = Outstanding(Len(handled))
          /\ reduce = IF ReducerKnown(Len(handled)) THEN 1 ELSE 0
      BY <2>4 DEF IInv, WholeLines
    <3>2. Size(list) = Cardinality(Ids(list))
      BY <3>1, SizeCounts DEF IInv, TypeOK
    <3>3. told'.size = Size(list) /\ told'.reduce = reduce
      BY <2>4 DEF SendReport
    <3> QED BY <1>1, <2>1, <3>1, <3>2, <3>3 DEF KnowsOutstanding
  <2>5. CASE torn
    BY <2>5 DEF KnowsOutstanding
  <2> QED BY <2>2, <2>3, <2>4, <2>5 DEF Quiet
<1>9. IsFiniteSet(list)'
  BY DEF IInv
<1> QED BY <1>4, <1>6, <1>7, <1>8, <1>9 DEF IInv

\* What is known of the pass between any two steps.
LEMMA PassFacts ==
  ASSUME IInv
  PROVE  /\ pos \in 0 .. Len(file) /\ i \in pos .. 2 * pos /\ read \in 0 .. 2 * Len(file)
         /\ Len(file) \in Nat /\ Len(handled) \in Nat
         /\ \A k \in DOMAIN handled : handled[k] \in 1 .. Len(file)
         /\ DOMAIN handled = 1 .. Len(handled)
         /\ ~torn => Len(handled) <= Len(file)
<1>1. /\ pos \in 0 .. Len(file) /\ i \in pos .. 2 * pos /\ read \in 0 .. 2 * Len(file)
      /\ Len(file) \in Nat /\ Len(handled) \in Nat
      /\ \A k \in DOMAIN handled : handled[k] \in 1 .. Len(file)
      /\ DOMAIN handled = 1 .. Len(handled)
  BY DEF IInv, TypeOK
<1>2. ASSUME ~torn, Len(handled) # 0 PROVE Len(handled) <= Len(file)
  <2>1. Len(handled) \in DOMAIN handled /\ handled[Len(handled)] = Len(handled)
    BY <1>1, <1>2 DEF IInv, LinesInOrder
  <2> QED BY <1>1, <2>1
<1> QED BY <1>1, <1>2

LEMMA SkipKeeps ==
  ASSUME IInv, SkipLine
  PROVE  IInv'
<1>1. /\ pc = "Read" /\ ~midline /\ pos < Len(file) /\ i + 1 <= read
      /\ pos' = pos + 1 /\ i' = i + 1 /\ midline' = Cut /\ read' = read /\ Quiet
      /\ UNCHANGED <<file, partial, speeds, opened, pc, list, reduce, fast, handled, torn>>
  BY DEF SkipLine, Fgets, Go, fileVars, listVars, histVars
<1>2. /\ \A k \in DOMAIN handled : handled[k] <= read \/ handled[k] <= pos
      /\ i > pos => \A k \in DOMAIN handled : handled[k] <= pos
  BY DEF IInv, BehindUs
<1>3. BehindUs'
  <2>1. handled' = handled /\ \A k \in DOMAIN handled : handled[k] \in Nat /\ handled[k] <= Len(file)
    BY <1>1, PassFacts
  <2>2. \A k \in DOMAIN handled : handled[k] <= read' \/ handled[k] <= pos'
    BY <1>1, <1>2, <2>1, PassFacts
  <2>3. i' > pos' \/ midline' => \A k \in DOMAIN handled : handled[k] <= pos'
    <3>1. CASE Cut
      BY <1>1, <2>1, <3>1 DEF Cut
    <3>2. CASE ~Cut
      BY <1>1, <1>2, <2>1, <3>2, PassFacts
    <3> QED BY <3>1, <3>2
  <2>4. i' + 1 <= 2 * pos' /\ pc' = "Read"
    BY <1>1, PassFacts
  <2>5. \A k \in 2 .. Len(handled) : handled[k - 1] = handled[k] =>
          ~(partial /\ handled[k] = Len(file)) /\ ~(midline' /\ handled[k] = pos')
    <3>1. midline' => partial /\ pos' = Len(file)
      BY <1>1 DEF Cut
    <3>2. \A k \in 2 .. Len(handled) : handled[k - 1] = handled[k] =>
            ~(partial /\ handled[k] = Len(file))
      BY DEF IInv, BehindUs
    <3> QED BY <3>1, <3>2
  <2> QED BY <1>1, <2>1, <2>2, <2>3, <2>4, <2>5 DEF BehindUs
<1>4. ASSUME ~torn
      PROVE  ~Cut /\ i' = pos' /\ Len(handled) = IF read' >= pos' THEN read' ELSE pos'
  <2>1. i = pos /\ (partial => Len(handled) < Len(file))
        /\ Len(handled) = IF read >= pos THEN read ELSE pos
    BY <1>4 DEF IInv, WholeLines
  <2>2. ~Cut
    BY <1>1, <2>1, PassFacts DEF Cut
  <2> QED BY <1>1, <2>1, <2>2, PassFacts
<1>5. Cut \in BOOLEAN /\ fast \in BOOLEAN
  BY DEF Cut, IInv, TypeOK
<1>6. pos' \in 0 .. Len(file) /\ i' \in pos' .. 2 * pos' /\ read' \in 0 .. 2 * Len(file)
  BY <1>1, PassFacts
<1> QED BY <1>1, <1>3, <1>4, <1>5, <1>6, StillKeeps

LEMMA SkipRestKeeps ==
  ASSUME IInv, SkipRest
  PROVE  IInv'
<1>1. /\ pc = "Read" /\ midline
      /\ i' = i + 1 /\ midline' = FALSE /\ read' = read /\ pos' = pos /\ Quiet
      /\ UNCHANGED <<file, partial, speeds, opened, pc, list, reduce, fast, handled, torn>>
  BY DEF SkipRest, Rest, GoRest, fileVars, listVars, histVars
<1>2. BehindUs'
  BY <1>1, PassFacts DEF IInv, BehindUs
<1>3. torn
  BY <1>1 DEF IInv, WholeLines
<1>4. pos' \in 0 .. Len(file) /\ i' \in pos' .. 2 * pos' /\ read' \in 0 .. 2 * Len(file)
  <2>1. i + 1 <= 2 * pos
    BY <1>1 DEF IInv, BehindUs
  <2> QED BY <1>1, <2>1, PassFacts
<1>5. fast \in BOOLEAN
  BY DEF IInv, TypeOK
<1> QED BY <1>1, <1>2, <1>3, <1>4, <1>5, StillKeeps

\* The rest of a line is acted on: its line is the last one acted on, if any part of it
\* was before, and now has no part left.
LEMMA RestInOrder ==
  ASSUME IInv, ReadRest
  PROVE  /\ LinesInOrder' /\ BehindUs' /\ handled' \in Seq(1 .. Len(file))
         /\ pos' \in 0 .. Len(file) /\ i' \in pos' .. 2 * pos' /\ read' \in 0 .. 2 * Len(file)
         /\ midline' \in BOOLEAN
<1>1. /\ pc = "Read" /\ midline /\ ~(partial /\ pos = Len(file)) /\ i + 1 > read
      /\ handled' = Append(handled, pos) /\ torn' /\ file' = file /\ partial' = partial
      /\ \/ i' = i + 1 /\ read' = read /\ pos' = pos /\ pc' \in {"Read", "Dead"}
         \/ i' = 0 /\ read' = i + 1 /\ pos' = 0 /\ pc' = "Test"
      /\ midline' = FALSE
  BY DEF ReadRest, Rest, GoRest, Leave, Announced, Gone, AnyReducer, Die, fileVars
<1>2. /\ i + 1 <= 2 * pos /\ pos \in 0 .. Len(file) /\ i \in pos .. 2 * pos /\ pos \in 1 .. Len(file)
      /\ read \in 0 .. 2 * Len(file) /\ Len(file) \in Nat
      /\ handled \in Seq(1 .. Len(file)) /\ Len(handled) \in Nat
  <2>1. i + 1 <= 2 * pos
    BY <1>1 DEF IInv, BehindUs
  <2> QED BY <2>1, PassFacts DEF IInv, TypeOK
<1>3. \A k \in 1 .. Len(handled) : handled[k] \in 1 .. pos
  <2>1. \A k \in 1 .. Len(handled) : handled[k] \in 1 .. Len(file) /\ handled[k] <= pos
    BY <1>1, <1>2 DEF IInv, BehindUs
  <2> QED BY <1>2, <2>1
<1>4. /\ handled' \in Seq(1 .. Len(file)) /\ Len(handled') = Len(handled) + 1
      /\ \A k \in 1 .. Len(handled) : handled'[k] = handled[k]
      /\ handled'[Len(handled) + 1] = pos /\ DOMAIN handled' = 1 .. Len(handled) + 1
  BY <1>1, <1>2, AppendProperties
<1>10. /\ Len(handled) \in Nat /\ Len(handled') = Len(handled) + 1 /\ pos \in Nat
       /\ \A k \in 1 .. Len(handled) : handled'[k] = handled[k] /\ handled[k] \in 1 .. pos
       /\ handled'[Len(handled) + 1] = pos
  BY <1>2, <1>3, <1>4
<1>5. /\ \A k \in 2 .. Len(handled) : handled[k - 1] <= handled[k]
      /\ \A k \in 3 .. Len(handled) : handled[k - 2] < handled[k]
      /\ \A k \in 2 .. Len(handled) : handled[k - 1] = handled[k] =>
           ~(partial /\ handled[k] = Len(file)) /\ handled[k] # pos
  BY <1>1 DEF IInv, LinesInOrder, BehindUs
<1>6. LinesInOrder'
  <2>1. ASSUME NEW k \in 2 .. Len(handled) + 1 PROVE handled'[k - 1] <= handled'[k]
    <3>1. CASE k = Len(handled) + 1
      BY <1>10, <3>1
    <3>2. CASE k \in 2 .. Len(handled)
      <4>1. handled[k - 1] <= handled[k]
        BY <1>5, <3>2
      <4> QED BY <1>10, <3>2, <4>1
    <3> QED BY <1>10, <3>1, <3>2
  <2>2. ASSUME NEW k \in 3 .. Len(handled) + 1 PROVE handled'[k - 2] < handled'[k]
    <3>1. CASE k = Len(handled) + 1
      <4>1. /\ handled[k - 2] <= handled[k - 1] /\ handled[k - 2] \in 1 .. pos
            /\ handled[k - 1] \in 1 .. pos /\ handled[k - 1] = handled[k - 2] => handled[k - 1] # pos
        <5>1. k - 1 \in 2 .. Len(handled) /\ (k - 1) - 1 = k - 2 /\ k - 2 \in 1 .. Len(handled)
          BY <1>10, <3>1
        <5>2. handled[k - 2] <= handled[k - 1] /\ (handled[k - 2] = handled[k - 1] => handled[k - 1] # pos)
          BY <1>5, <5>1
        <5> QED BY <1>10, <5>1, <5>2
      <4>2. handled'[k - 2] = handled[k - 2] /\ handled'[k] = pos
        BY <1>10, <3>1
      <4> QED BY <1>10, <4>1, <4>2
    <3>2. CASE k \in 3 .. Len(handled)
      <4>1. handled[k - 2] < handled[k]
        BY <1>5, <3>2
      <4> QED BY <1>10, <3>2, <4>1
    <3> QED BY <1>10, <3>1, <3>2
  <2> QED BY <1>1, <1>10, <2>1, <2>2 DEF LinesInOrder
<1>7. \A k \in DOMAIN handled' : handled'[k] \in 1 .. pos
  <2>1. DOMAIN handled' = 1 .. Len(handled) + 1 /\ pos \in 1 .. pos
    BY <1>2, <1>4
  <2> QED BY <1>10, <2>1
<1>8. \A k \in 2 .. Len(handled') : handled'[k - 1] = handled'[k] =>
        ~(partial' /\ handled'[k] = Len(file'))
  <2> SUFFICES ASSUME NEW k \in 2 .. Len(handled) + 1
               PROVE  handled'[k - 1] = handled'[k] => ~(partial /\ handled'[k] = Len(file))
    BY <1>1, <1>10
  <2>1. CASE k = Len(handled) + 1
    BY <1>1, <1>10, <2>1
  <2>2. CASE k \in 2 .. Len(handled)
    <3>1. handled[k - 1] = handled[k] => ~(partial /\ handled[k] = Len(file))
      BY <1>5, <2>2
    <3> QED BY <1>10, <2>2, <3>1
  <2> QED BY <1>10, <2>1, <2>2
<1>9. BehindUs'
  <2>1. CASE i' = i + 1 /\ read' = read /\ pos' = pos /\ pc' \in {"Read", "Dead"}
    BY <1>1, <1>2, <1>7, <1>8, <2>1 DEF BehindUs
  <2>2. CASE i' = 0 /\ read' = i + 1 /\ pos' = 0 /\ pc' = "Test"
    <3>1. \A k \in DOMAIN handled' : handled'[k] <= read'
      BY <1>2, <1>7, <2>2
    <3> QED BY <1>1, <1>8, <2>2, <3>1 DEF BehindUs
  <2> QED BY <1>1, <2>1, <2>2
<1>11. pos' \in 0 .. Len(file) /\ i' \in pos' .. 2 * pos' /\ read' \in 0 .. 2 * Len(file)
  <2>1. CASE i' = i + 1 /\ read' = read /\ pos' = pos
    BY <1>2, <2>1
  <2>2. CASE i' = 0 /\ read' = i + 1 /\ pos' = 0
    BY <1>2, <2>2
  <2> QED BY <1>1, <2>1, <2>2
<1>12. midline' \in BOOLEAN /\ handled' \in Seq(1 .. Len(file))
  BY <1>1, <1>4
<1> QED BY <1>6, <1>9, <1>11, <1>12

LEMMA RestKeeps ==
  ASSUME IInv, ReadRest
  PROVE  IInv'
<1>1. /\ torn' = TRUE /\ UNCHANGED <<file, partial, speeds, opened, fast>>
      /\ pc = "Read" /\ pc' \in {"Read", "Test", "Dead"}
  BY DEF ReadRest, Rest, Leave, Announced, Gone, AnyReducer, Die, fileVars
<1>2. /\ list' \subseteq Entry /\ \A c, d \in list' : c.id = d.id => c = d
      /\ IsFiniteSet(list') /\ reduce' \in {0, 1}
      /\ Quiet \/ (HasSpeeds(1) /\ SendReport(list', reduce'))
  <2>0. list \subseteq Entry /\ (\A c, d \in list : c.id = d.id => c = d) /\ IsFiniteSet(list)
        /\ reduce \in {0, 1}
    BY DEF IInv, TypeOK
  <2>1. CASE list' = list /\ reduce' \in {0, 1} /\ Quiet
    BY <2>0, <2>1
  <2>2. ASSUME NEW e \in ParsedRest, Announced(e)
        PROVE  /\ list' \subseteq Entry /\ \A c, d \in list' : c.id = d.id => c = d
               /\ IsFiniteSet(list') /\ reduce' \in {0, 1} /\ Quiet
    <3>1. e \in Entry
      BY DEF ParsedRest, Entry
    <3>2. list' = IF Listed(e.id) = {} THEN list \cup {e} ELSE list
      BY <2>2 DEF Announced
    <3>3. /\ list' \subseteq Entry /\ \A c, d \in list' : c.id = d.id => c = d
          /\ IsFiniteSet(list')
      BY <3>1, <3>2, ListAdds
    <3> QED BY <2>0, <2>2, <3>3 DEF Announced
  <2>3. ASSUME NEW e \in ParsedRest, NEW type \in {"fetched", "cleared"}, Gone(type, e)
        PROVE  /\ list' \subseteq Entry /\ \A c, d \in list' : c.id = d.id => c = d
               /\ IsFiniteSet(list') /\ reduce' \in {0, 1}
               /\ Quiet \/ (HasSpeeds(1) /\ SendReport(list', reduce'))
    <3>1. list' = list \ Listed(e.id) /\ reduce' = reduce
      BY <2>3 DEF Gone
    <3>2. /\ list' \subseteq Entry /\ \A c, d \in list' : c.id = d.id => c = d
          /\ IsFiniteSet(list')
      BY <3>1, ListLoses
    <3> QED BY <2>0, <2>3, <3>1, <3>2 DEF Gone, Die
  <2>4. \/ list' = list /\ reduce' \in {0, 1} /\ Quiet
        \/ \E e \in ParsedRest : Announced(e) \/ Gone("fetched", e) \/ Gone("cleared", e)
    BY <2>0 DEF ReadRest, AnyReducer, listVars
  <2> QED BY <2>1, <2>2, <2>3, <2>4
<1>3. /\ fds \in 0 .. MaxFds /\ sent \in 0 .. MaxFds /\ fds = Leaks
      /\ opened' = opened /\ opened \in BOOLEAN /\ MaxFds \in Nat \ {0}
  BY <1>1, BoundsAssumption DEF IInv, TypeOK
<1>4. /\ fds' \in 0 .. MaxFds /\ sent' \in 0 .. MaxFds /\ fds' = Leaks'
      /\ told' \in [size : Nat, reduce : {0, 1}] \cup {NoReport}
  <2>1. CASE Quiet
    BY <1>3, <2>1 DEF Quiet, Leaks
  <2>2. CASE HasSpeeds(1) /\ SendReport(list', reduce')
    <3>1. Size(list') \in Nat
      BY <1>2, SizeBound
    <3> QED BY <1>2, <1>3, <2>2, <3>1 DEF HasSpeeds, CanOpen, SendReport, Leaks
  <2> QED BY <1>2, <2>1, <2>2
<1>5. /\ LinesInOrder' /\ BehindUs' /\ handled' \in Seq(1 .. Len(file))
      /\ pos' \in 0 .. Len(file) /\ i' \in pos' .. 2 * pos' /\ read' \in 0 .. 2 * Len(file)
      /\ midline' \in BOOLEAN
  BY RestInOrder
<1>6. TypeOK'
  <2>1. /\ file' \in Seq(Line) /\ Len(file') <= MaxLines /\ Orderly(file)'
        /\ partial' \in BOOLEAN /\ (partial' => file' # <<>>) /\ fast' \in BOOLEAN
        /\ speeds' \in BOOLEAN /\ opened' \in BOOLEAN
    BY <1>1 DEF IInv, TypeOK, Orderly, Named
  <2> QED BY <1>1, <1>2, <1>4, <1>5, <2>1 DEF TypeOK
<1>7. WholeLines' /\ KnowsOutstanding' /\ LivesLong'
  BY <1>1 DEF WholeLines, KnowsOutstanding, LivesLong
<1> QED BY <1>2, <1>4, <1>5, <1>6, <1>7 DEF IInv

LEMMA EndKeeps ==
  ASSUME IInv, EndPass
  PROVE  IInv'
<1>1. /\ pc = "Read" /\ (midline \/ pos = Len(file))
      /\ read' = i /\ i' = 0 /\ pos' = 0 /\ midline' = FALSE /\ pc' = "Test" /\ Quiet
      /\ UNCHANGED <<file, partial, speeds, opened, list, reduce, fast, handled, torn>>
  BY DEF EndPass, Leave, fileVars, listVars, histVars
<1>2. /\ midline => \A k \in DOMAIN handled : handled[k] <= pos
      /\ \A k \in 2 .. Len(handled) : handled[k - 1] = handled[k] =>
           ~(partial /\ handled[k] = Len(file))
  BY DEF IInv, BehindUs
<1>3. BehindUs'
  BY <1>1, <1>2, PassFacts DEF BehindUs
<1>4. ASSUME ~torn PROVE Len(handled) = read'
  <2>1. ~midline /\ i = pos /\ Len(handled) = IF read >= pos THEN read ELSE pos
    BY <1>4 DEF IInv, WholeLines
  <2> QED BY <1>1, <1>4, <2>1, PassFacts
<1>5. pos' \in 0 .. Len(file) /\ i' \in pos' .. 2 * pos' /\ read' \in 0 .. 2 * Len(file)
  BY <1>1, PassFacts
<1>6. fast \in BOOLEAN
  BY DEF IInv, TypeOK
<1>7. ~torn => ~midline' /\ i' = pos' /\ Len(handled) = IF read' >= pos' THEN read' ELSE pos'
  BY <1>1, <1>4, <1>5
<1> QED BY <1>1, <1>3, <1>5, <1>6, <1>7, StillKeeps

\* Steps outside a pass.
LEMMA BetweenKeeps ==
  ASSUME IInv, Open \/ TestFast \/ ReportNow \/ ResetFast \/ Beacon
  PROVE  IInv'
<1>1. UNCHANGED <<file, partial, speeds, opened, list, reduce, handled, torn, read, i, pos, midline>>
  BY DEF Open, TestFast, ReportNow, ResetFast, Beacon, fileVars, passVars, listVars, histVars
<1>2. fast' \in BOOLEAN /\ midline' \in BOOLEAN /\ pc' \in {"Open", "Read", "Test", "Report", "Reset", "Dead"}
  BY <1>1 DEF Open, TestFast, ReportNow, ResetFast, Beacon, Die, IInv, TypeOK
<1>3. /\ pc \in {"Open", "Test", "Report", "Reset"}
      /\ pc' \notin {"Read", "Dead"} => pos' = 0
  <2>1. pc \in {"Open", "Test", "Report", "Reset"}
    BY DEF Open, TestFast, ReportNow, ResetFast, Beacon, IInv, TypeOK
  <2> QED BY <1>1, <2>1 DEF IInv, BehindUs
<1>4. BehindUs'
  BY <1>1, <1>3 DEF IInv, BehindUs
<1>5. \/ Quiet /\ (pc' = "Dead" => ~HasSpeeds(1))
      \/ UNCHANGED <<reportVars, pc>>
      \/ CanOpen(0) /\ SendReport(list, reduce) /\ pc' # "Dead" /\ pc # "Dead"
  <2>1. ~CanOpen(0) => ~CanOpen(1)
    BY BoundsAssumption DEF CanOpen, IInv, TypeOK
  <2> QED BY <2>1 DEF Open, TestFast, ReportNow, ResetFast, Beacon, Die, HasSpeeds
<1>6. ~torn => ~midline' /\ i' = pos' /\ Len(handled) = IF read' >= pos' THEN read' ELSE pos'
  BY <1>1 DEF IInv, WholeLines
<1> QED BY <1>1, <1>2, <1>4, <1>5, <1>6, PassFacts, StillKeeps

\* packet_rate writes its file, and write_tun opens it.
LEMMA SpeedsKeep ==
  ASSUME IInv, SpeedsAppear \/ WriterOpens
  PROVE  IInv'
<1>1. UNCHANGED <<file, partial, list, reduce, handled, torn, read, i, pos, midline, fast, sent, told>>
  BY DEF SpeedsAppear, WriterOpens, passVars, listVars, histVars, reportVars
<1>2. /\ fds \in 0 .. MaxFds /\ sent \in 0 .. MaxFds /\ fds = Leaks
      /\ speeds \in BOOLEAN /\ opened \in BOOLEAN /\ MaxFds \in Nat \ {0}
  BY BoundsAssumption DEF IInv, TypeOK
<1>3. pc' = pc \/ pc' = "Dead"
  BY DEF SpeedsAppear, WriterOpens
<1>4. /\ fds' \in 0 .. MaxFds /\ fds' = Leaks' /\ speeds' \in BOOLEAN /\ opened' \in BOOLEAN
      /\ LivesLong'
  <2>1. CASE SpeedsAppear
    BY <1>1, <1>2, <2>1 DEF SpeedsAppear, reportVars, Leaks, LivesLong
  <2>2. CASE WriterOpens
    <3>1. CASE HasSpeeds(IF pc = "Read" THEN 1 ELSE 0)
      BY <1>1, <1>2, <2>2, <3>1 DEF WriterOpens, HasSpeeds, CanOpen, Leaks, LivesLong
    <3>2. CASE ~HasSpeeds(IF pc = "Read" THEN 1 ELSE 0)
      BY <1>1, <1>2, <2>2, <3>2 DEF WriterOpens, HasSpeeds, CanOpen, Leaks, LivesLong
    <3> QED BY <3>1, <3>2
  <2> QED BY <2>1, <2>2
<1>5. /\ Outstanding(Len(handled))' = Outstanding(Len(handled))
      /\ ReducerKnown(Len(handled))' <=> ReducerKnown(Len(handled))
  BY <1>1, LeftOfFile, LeftOfFileNext
<1>6. TypeOK'
  <2>1. Orderly(file)'
    BY <1>1 DEF IInv, TypeOK, Orderly, Named
  <2> QED BY <1>1, <1>3, <1>4, <2>1 DEF IInv, TypeOK
<1>7. BehindUs'
  BY <1>1, <1>3 DEF IInv, BehindUs
<1>8. WholeLines' /\ LinesInOrder'
  BY <1>1, <1>5 DEF IInv, WholeLines, LinesInOrder, Ids
<1>9. KnowsOutstanding'
  BY <1>1, <1>3, <1>5 DEF IInv, KnowsOutstanding, Ids, NoReport
<1> QED BY <1>1, <1>4, <1>6, <1>7, <1>8, <1>9 DEF IInv

\* Hadoop appends: what has been acted on stays what it was.
LEMMA HadoopKeeps ==
  ASSUME IInv, Hadoop
  PROVE  IInv'
<1>1. /\ UNCHANGED <<speeds, opened, pc, read, i, pos, midline, list, reduce, fast, fds, sent,
                       told, handled, torn>>
      /\ partial' \in BOOLEAN
  BY DEF Hadoop, Write, WriteRest, passVars, listVars, reportVars, histVars
<1>2. /\ file \in Seq(Line) /\ Len(file) \in Nat /\ Len(file) <= MaxLines /\ MaxLines \in Nat
      /\ handled \in Seq(1 .. Len(file)) /\ Len(handled) \in Nat /\ Orderly(file)
      /\ ~torn => Len(handled) \in 0 .. Len(file)
  BY PassFacts, BoundsAssumption DEF IInv, TypeOK
<1>3. /\ file' \in Seq(Line) /\ Len(file') \in Nat /\ Len(file) <= Len(file') /\ Len(file') <= MaxLines
      /\ Orderly(file') /\ file' # <<>>
      /\ partial' => Len(file) < Len(file')
      /\ ~torn => /\ Left(file', Len(handled)) = Left(file, Len(handled))
                  /\ Known(file', Len(handled)) <=> Known(file, Len(handled))
  <2>1. ASSUME NEW l \in Line, Write(l)
        PROVE  /\ file' = Append(file, l) /\ Len(file) < MaxLines /\ Orderly(file')
    BY <2>1 DEF Write
  <2>2. ASSUME NEW l \in Line, Write(l), file' = Append(file, l)
        PROVE  /\ file' \in Seq(Line) /\ Len(file') = Len(file) + 1 /\ file' # <<>>
               /\ ~torn => /\ Left(file', Len(handled)) = Left(file, Len(handled))
                           /\ Known(file', Len(handled)) <=> Known(file, Len(handled))
    BY <1>2, <2>2, AppendProperties, PrefixDecides
  <2>3. CASE \E l \in Line : Write(l)
    BY <1>2, <2>1, <2>2, <2>3
  <2>4. CASE WriteRest
    <3>1. partial' = FALSE /\ file' = file /\ file # <<>>
      BY <2>4 DEF WriteRest, IInv, TypeOK
    <3> QED BY <1>2, <3>1
  <2> QED BY <2>3, <2>4 DEF Hadoop
<1>4. ~torn => /\ Outstanding(Len(handled))' = Outstanding(Len(handled))
               /\ ReducerKnown(Len(handled))' <=> ReducerKnown(Len(handled))
  <2>1. Len(handled') = Len(handled)
    BY <1>1
  <2>2. ~torn => /\ Left(file', Len(handled)) = Left(file, Len(handled))
                 /\ Known(file', Len(handled)) <=> Known(file, Len(handled))
    BY <1>3
  <2> QED BY <2>1, <2>2, LeftOfFile, LeftOfFileNext
<1>5. TypeOK'
  <2>1. handled' \in Seq(1 .. Len(file'))
    <3>1. 1 .. Len(file) \subseteq 1 .. Len(file')
      BY <1>2, <1>3
    <3> QED BY <1>1, <1>2, <1>3, <3>1, SeqMonotonic
  <2>2. pos' \in 0 .. Len(file') /\ i' \in pos' .. 2 * pos' /\ read' \in 0 .. 2 * Len(file')
    BY <1>1, <1>3, PassFacts
  <2>3. Orderly(file)'
    BY <1>3 DEF Orderly, Named
  <2> QED BY <1>1, <1>3, <2>1, <2>2, <2>3 DEF IInv, TypeOK
<1>6. WholeLines'
  <2>1. ~torn /\ partial' => Len(handled) < Len(file')
    BY <1>2, <1>3
  <2> QED BY <1>1, <1>3, <1>4, <2>1 DEF IInv, WholeLines, Ids
<1>7. KnowsOutstanding'
  BY <1>1, <1>4 DEF IInv, KnowsOutstanding, Ids, NoReport
<1>8. BehindUs'
  <2>1. ASSUME NEW k \in 2 .. Len(handled), handled[k - 1] = handled[k]
        PROVE  ~(partial' /\ handled[k] = Len(file')) /\ ~(midline' /\ handled[k] = pos')
    <3>1. handled[k] \in 1 .. Len(file) /\ ~(midline /\ handled[k] = pos)
      BY <1>2, <2>1 DEF IInv, BehindUs
    <3> QED BY <1>1, <1>2, <1>3, <3>1
  <2> QED BY <1>1, <2>1 DEF IInv, BehindUs
<1>9. LinesInOrder' /\ LivesLong' /\ fds' = Leaks'
  BY <1>1 DEF IInv, LinesInOrder, LivesLong, Leaks
<1> QED BY <1>1, <1>5, <1>6, <1>7, <1>8, <1>9 DEF IInv

LEMMA InitIInv == Init => IInv
<1> SUFFICES ASSUME Init PROVE IInv
  OBVIOUS
<1>1. file \in Seq(Line) /\ Len(file) \in Nat /\ Len(file) <= MaxLines /\ Orderly(file)
  <2>1. file \in UNION {[1 .. len -> Line] : len \in 0 .. MaxLines} /\ Orderly(file)
    BY DEF Init, Files
  <2> PICK len \in 0 .. MaxLines : file \in [1 .. len -> Line]
    BY <2>1
  <2> QED BY <2>1, BoundsAssumption
<1>2. /\ handled = <<>> /\ Len(handled) = 0 /\ DOMAIN handled = {} /\ handled \in Seq(1 .. Len(file))
      /\ list = {} /\ IsFiniteSet(list)
  BY FS_EmptySet DEF Init
<1>3. TypeOK
  <2>1. /\ pos \in 0 .. Len(file) /\ i \in pos .. 2 * pos /\ read \in 0 .. 2 * Len(file)
        /\ fds \in 0 .. MaxFds /\ sent \in 0 .. MaxFds
    BY <1>1, BoundsAssumption DEF Init
  <2>2. list \subseteq Entry /\ \A d, e \in list : d.id = e.id => d = e
    BY <1>2
  <2>3. handled \in Seq(1 .. Len(file))
    BY <1>1, <1>2
  <2> QED BY <1>1, <2>1, <2>2, <2>3 DEF Init, TypeOK
<1>4. Outstanding(0) = {} /\ ~ReducerKnown(0) /\ Ids(list) = {}
  BY <1>2 DEF Outstanding, ReducerKnown, Ids
<1>5. partial => 0 < Len(file)
  BY <1>1 DEF Init
<1>6. BehindUs /\ WholeLines /\ LinesInOrder
  <2>1. BehindUs
    BY <1>2 DEF Init, BehindUs
  <2>2. WholeLines
    <3>1. /\ Len(handled) = 0 /\ read = 0 /\ pos = 0 /\ i = 0 /\ midline = FALSE /\ list = {}
          /\ reduce = 0
      BY <1>2 DEF Init
    <3> QED BY <3>1, <1>4, <1>5 DEF WholeLines
  <2>3. LinesInOrder
    BY <1>2 DEF LinesInOrder
  <2> QED BY <2>1, <2>2, <2>3
<1>7. KnowsOutstanding /\ LivesLong /\ fds = Leaks
  BY <1>2, <1>4 DEF Init, KnowsOutstanding, LivesLong, Leaks
<1> QED BY <1>2, <1>3, <1>6, <1>7 DEF Init, IInv

LEMMA NextIInv == IInv /\ [Next]_vars => IInv'
<1> SUFFICES ASSUME IInv, [Next]_vars PROVE IInv'
  OBVIOUS
<1>1. CASE UNCHANGED vars
  <2>1. BehindUs' /\ UNCHANGED <<file, partial, speeds, opened, list, reduce, handled, torn, reportVars, pc, fast, passVars>>
    BY <1>1 DEF vars, fileVars, listVars, histVars, passVars, IInv, BehindUs
  <2> QED BY <2>1, PassFacts, StillKeeps DEF passVars, IInv, TypeOK, WholeLines
<1>2. CASE Pass
  BY <1>2, AnnouncedKeeps, GoneKeeps, OtherKeeps, SkipKeeps, SkipRestKeeps, RestKeeps,
     EndKeeps, BetweenKeeps DEF Pass
<1>3. CASE Hadoop \/ TestFast \/ ReportNow \/ ResetFast \/ Beacon \/ SpeedsAppear \/ WriterOpens
  BY <1>3, HadoopKeeps, BetweenKeeps, SpeedsKeep
<1> QED BY <1>1, <1>2, <1>3 DEF Next, ReportTask

-----------------------------------------------------------------------------
(* Theorems                                                                *)

\* The mark of the lines read, the list and the histories agree.
THEOREM InductiveInvariant == Spec => []IInv
  BY InitIInv, NextIInv, PTL DEF Spec

\* Lines are acted on in order, each once unless it is met in two parts, however passes
\* and writes interleave.
THEOREM ActedInOrder == Spec => []LinesInOrder
<1>1. IInv => LinesInOrder
  BY DEF IInv
<1> QED BY <1>1, InductiveInvariant, PTL

\* The list and the reports are what the lines acted on leave outstanding.
THEOREM ListIsOutstanding == Spec => []KnowsOutstanding
<1>1. IInv => KnowsOutstanding
  BY DEF IInv
<1> QED BY <1>1, InductiveInvariant, PTL

\* Once packet_rate's file is there the descriptors last for all reports but one.
THEOREM NoEarlyDeath == Spec => []LivesLong
<1>1. IInv => LivesLong
  BY DEF IInv
<1> QED BY <1>1, InductiveInvariant, PTL

\* Only ReadGone reports during a pass, and only when the list has got shorter.
LEMMA CutIsDue ==
  ASSUME IInv, [Next]_vars, pc = "Read", sent' # sent, ~torn'
  PROVE  /\ Outstanding(Len(handled')) # Outstanding(Len(handled))
         /\ ~ReducerKnown(Len(handled))
<1>1. PICK type \in {"fetched", "cleared"} : ReadGone(type)
  BY DEF Next, Hadoop, Write, WriteRest, ReportTask, Pass, Open, SkipLine, ReadAnnounced, ReadReducer,
         ReadJobDone, SkipRest, ReadRest, EndPass, TestFast, ReportNow, ResetFast, Beacon,
         SpeedsAppear, WriterOpens, Announced, Quiet, reportVars, vars
<1>2. Act(type) /\ UNCHANGED reduce
  BY <1>1 DEF ReadGone, Gone
<1> PICK e \in Parsed :
      LET rest == list \ Listed(e.id)
      IN  /\ list' = rest
          /\ IF rest # list /\ Due(type, rest)
             THEN IF HasSpeeds(1) THEN SendReport(rest, reduce) /\ UNCHANGED pc ELSE Die
             ELSE Quiet /\ UNCHANGED pc
  BY <1>1 DEF ReadGone, Gone
<1>3. list' = list \ Listed(e.id) /\ list' # list /\ reduce = 0
  BY DEF Due, Quiet, Die
<1>4. Ids(list') = Ids(list) \ {e.id} /\ e.id \in Ids(list)
  BY <1>3, ListLoses
<1>5. Ids(list') = Outstanding(Len(handled'))
  <2>1. WholeLines'
    BY NextIInv DEF IInv
  <2>2. Ids(list') = Left(file', Len(handled'))
    BY <2>1, LeftOfFileNext DEF WholeLines, Ids
  <2>3. file' = file
    BY <1>2, ActFacts
  <2> QED BY <2>2, <2>3 DEF Outstanding, Left
<1>6. Ids(list) = Outstanding(Len(handled)) /\ reduce = IF ReducerKnown(Len(handled)) THEN 1 ELSE 0
  BY <1>2, ActFacts DEF IInv, WholeLines
<1>7. Ids(list') # Ids(list)
  BY <1>4
<1>8. ~ReducerKnown(Len(handled))
  BY <1>3, <1>6
<1>9. Outstanding(Len(handled')) # Outstanding(Len(handled))
  BY <1>5, <1>6, <1>7
<1> QED BY <1>8, <1>9

\* A line of the file costs the node the rest of its slot only when it takes an
\* output off what is outstanding while no reducer is known.
THEOREM SlotsCutForGoneOutputs == Spec => CutShort
<1>1. IInv /\ [Next]_vars =>
        [pc = "Read" /\ sent' # sent /\ ~torn' =>
           /\ Outstanding(Len(handled')) # Outstanding(Len(handled))
           /\ ~ReducerKnown(Len(handled))]_vars
  BY CutIsDue
<1> QED BY <1>1, InductiveInvariant, PTL DEF Spec, CutShort
=============================================================================
