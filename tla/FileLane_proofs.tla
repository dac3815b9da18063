--------------------------- MODULE FileLane_proofs ---------------------------
(***************************************************************************)
(* Theorems about FileLane, for every contract, every extract, every split *)
(* and batch size and every number of tries.                               *)
(*                                                                         *)
(* The lane: FileInv follows the job from place to place.  What it has     *)
(* read, counted, held and written is, up to the line it is at, what the   *)
(* bundle it has verified makes of it, whatever the extractor has put      *)
(* there since.                                                            *)
(*                                                                         *)
(* The router: what its consumer holds lies below the entry the generator  *)
(* works on, no entry but the tail has other than BatchSize documents, and *)
(* laid end to end the entries are the lines it has routed.                *)
(*                                                                         *)
(* The two together: whatever has been selected from them on either side   *)
(* are the lines of one bundle at the same places, and the engine decides  *)
(* about a line alike wherever it is asked, for contracts whose rules see  *)
(* the same record in both.                                                *)
(***************************************************************************)
EXTENDS FileLane, FoldLemmas

-----------------------------------------------------------------------------
(* Bundles.                                                                *)

(* The lines there are, those that are not blank, and both with the        *)
(* number of a file.                                                       *)
AllLines == {Blank} \cup UNION {{source[k] : k \in DOMAIN source} : source \in Sources}
FullLines == {l \in AllLines : ~IsBlank(l)}
Numbered(L) == [file : Nat, line : L]

(* A bundle made by the extractor, whatever has become of its members.     *)
MadeOf(b, source) == b = [MakeBundle(source) EXCEPT !.dats = b.dats]
IsBundle(b) == \E source \in Sources : MadeOf(b, source)

(* Division, as the extractor rounds it up.                                *)
LEMMA DividedUp ==
    ASSUME NEW n \in Nat \ {0}, NEW s \in Nat \ {0}
    PROVE  LET p == (n + s - 1) \div s
           IN  /\ p \in Nat \ {0}
               /\ (p - 1) * s < n /\ n <= p * s
<1> DEFINE a == n + s - 1
           p == a \div s
<1>1. a \in Nat /\ a >= s
  OBVIOUS
<1> HIDE DEF a
<1>2. p \in Int /\ p * s <= a /\ a < p * s + s
  BY <1>1
<1> HIDE DEF p
<1>3. p >= 1
  <2>1. CASE p <= 0
    <3>1. p * s <= 0
      BY <1>2, <2>1
    <3>2. QED
      BY <1>1, <1>2, <3>1
  <2>2. QED
    BY <1>2, <2>1
<1>4. (p - 1) * s = p * s - s
  BY <1>2
<1>5. p * s \in Int
  BY <1>2
<1>6. (p - 1) * s < n /\ n <= p * s
  BY <1>2, <1>4, <1>5 DEF a
<1>7. QED
  BY <1>2, <1>3, <1>6 DEF p, a

(* Multiples are in order, and one more is one size more.                  *)
LEMMA Multiples ==
    ASSUME NEW i \in Nat, NEW j \in Nat, i <= j, NEW s \in Nat
    PROVE  i * s <= j * s /\ i * s \in Nat /\ (i + 1) * s = i * s + s
<1>1. j - i \in Nat /\ (j - i) * s \in Nat
  OBVIOUS
<1>2. j * s = i * s + (j - i) * s
  OBVIOUS
<1>3. QED
  BY <1>1, <1>2

(* The records of an extract are lines of it that are not blank.           *)
LEMMA ExtractedTyped ==
    ASSUME NEW source \in Sources
    PROVE  Extracted(source) \in Seq(FullLines)
<1> DEFINE own == {source[k] : k \in DOMAIN source}
           body == Body(source)
           full == {k \in DOMAIN body : body[k].form \notin {"blank", "nul"}}
<1>1. source \in Seq(own) /\ own \subseteq AllLines
  BY SourcesAreLines DEF AllLines
<1> HIDE DEF own
<1>2. body \in Seq(own)
  BY <1>1 DEF Body
<1>3. body \in Seq(AllLines)
  BY <1>1, <1>2
<1> HIDE DEF body
<1>4. Len(body) \in Nat /\ \A k \in 1..Len(body) : k \in full => body[k] \in FullLines
  BY <1>3 DEF FullLines, IsBlank
<1>5. ElementsAt(body, full) \in Seq(FullLines)
  <2> HIDE DEF full
  <2>1. QED
    BY <1>4, PlacesTyped
<1>6. QED
  BY <1>5 DEF Extracted, body

(* The members of an archive: each is a run of records, none is empty, and *)
(* together they are as many as the records.                               *)
LEMMA SplitInOrder ==
    ASSUME NEW T, NEW records \in Seq(T), records # <<>>
    PROVE  LET n == Len(records)
               p == Parts(n)
           IN  /\ p \in Nat \ {0} /\ n \in Nat \ {0}
               /\ Split(records) \in Seq(Seq(T)) /\ Len(Split(records)) = p
               /\ \A i \in 1..p :
                     Len(Split(records)[i]) = Least(i * SplitSize, n) - (i - 1) * SplitSize
               /\ \A i \in 1..p : (i - 1) * SplitSize < n
               /\ n <= p * SplitSize
<1> DEFINE n == Len(records)
           S == SplitSize
           p == Parts(n)
           from(i) == (i - 1) * S + 1
           to(i) == Least(i * S, n)
<1>1. S \in Nat \ {0}
  BY SizesArePositive
<1>2. n \in Nat \ {0}
  OBVIOUS
<1>3. p \in Nat \ {0} /\ (p - 1) * S < n /\ n <= p * S
  BY <1>1, <1>2, DividedUp DEF Parts
<1> HIDE DEF p, n, S
<1>4. ASSUME NEW i \in 1..p
      PROVE  /\ (i - 1) * S \in Nat /\ i * S = (i - 1) * S + S /\ i * S \in Nat
             /\ (i - 1) * S < n
  <2>1. i - 1 \in Nat /\ p - 1 \in Nat /\ i - 1 <= p - 1 /\ (i - 1) + 1 = i
    BY <1>3
  <2>2. (i - 1) * S <= (p - 1) * S /\ (i - 1) * S \in Nat /\ ((i - 1) + 1) * S = (i - 1) * S + S
    BY <1>1, <2>1, Multiples
  <2>3. (p - 1) * S \in Nat
    BY <1>1, <2>1, Multiples
  <2>4. QED
    BY <1>1, <1>2, <1>3, <2>1, <2>2, <2>3
<1>5. ASSUME NEW i \in 1..p
      PROVE  /\ SubSeq(records, from(i), to(i)) \in Seq(T)
             /\ Len(SubSeq(records, from(i), to(i))) = to(i) - (i - 1) * S
  <2> DEFINE a == (i - 1) * S
             b == i * S
  <2>1. a \in Nat /\ b = a + S /\ a < n
    BY <1>4
  <2> HIDE DEF a, b
  <2>2. Least(b, n) \in (a + 1)..n /\ a + 1 \in 1..n
    BY <1>1, <1>2, <2>1 DEF Least
  <2>3. SubSeq(records, a + 1, Least(b, n)) \in Seq(T)
    BY <2>2 DEF n
  <2>4. Len(SubSeq(records, a + 1, Least(b, n))) = Least(b, n) - a
    <3>1. Len(SubSeq(records, a + 1, Least(b, n))) = Least(b, n) - (a + 1) + 1
      BY <2>2 DEF n
    <3>2. QED
      BY <1>2, <2>1, <2>2, <3>1
  <2>5. QED
    BY <2>3, <2>4 DEF a, b
<1>6. Split(records) = [i \in 1..p |-> SubSeq(records, from(i), to(i))]
  BY DEF Split, n, p, S
<1> HIDE DEF from, to
<1>7. Split(records) \in Seq(Seq(T)) /\ Len(Split(records)) = p
  BY <1>3, <1>5, <1>6
<1>8. ASSUME NEW i \in 1..p PROVE Len(Split(records)[i]) = to(i) - (i - 1) * S
  BY <1>5, <1>6
<1>9. QED
  BY <1>2, <1>3, <1>4, <1>7, <1>8 DEF to, n, p, S

(* A bundle whose files are the ones in its manifest.                      *)
LEMMA VerifiedLines ==
    ASSUME NEW b, Verified(b)
    PROVE  LinesOf(b) = FlattenSeq([i \in DOMAIN b.chs |->
                            [k \in DOMAIN b.chs[i] |-> [file |-> i, line |-> b.chs[i][k]]]])
<1> DEFINE whole == [i \in DOMAIN b.chs |->
                        [k \in DOMAIN b.chs[i] |-> [file |-> i, line |-> b.chs[i][k]]]]
           found == [i \in DOMAIN b.chs |->
                        IF i \in DOMAIN b.dats
                        THEN [k \in DOMAIN b.dats[i] |-> [file |-> i, line |-> b.dats[i][k]]]
                        ELSE <<>>]
<1>1. \A i \in DOMAIN b.chs : i \in DOMAIN b.dats /\ b.dats[i] = b.chs[i]
  BY DEF Verified
<1>2. ASSUME NEW i \in DOMAIN b.chs
      PROVE  (IF i \in DOMAIN b.dats
              THEN [k \in DOMAIN b.dats[i] |-> [file |-> i, line |-> b.dats[i][k]]]
              ELSE <<>>) = [k \in DOMAIN b.chs[i] |-> [file |-> i, line |-> b.chs[i][k]]]
  BY <1>1
<1>3. found = whole
  BY <1>2
<1>4. LinesOf(b) = FlattenSeq(found)
  BY Zenon DEF LinesOf
<1>5. QED
  BY <1>3, <1>4

(* The lines of a sequence of files, when each is of so many lines.        *)
LEMMA FilesJoined ==
    ASSUME NEW L, NEW files \in Seq(Seq(L)),
           NEW n \in Nat, NEW s \in Nat, n <= Len(files) * s,
           \A i \in 1..Len(files) : /\ Len(files[i]) = Least(i * s, n) - (i - 1) * s
                                    /\ (i - 1) * s < n
    PROVE  LET lines == FlattenSeq([i \in DOMAIN files |->
                            [k \in DOMAIN files[i] |-> [file |-> i, line |-> files[i][k]]]])
           IN  /\ lines \in Seq(Numbered(L))
               /\ Len(files) > 0 => Len(lines) = n
<1> DEFINE p == Len(files)
           whole == [i \in DOMAIN files |->
                        [k \in DOMAIN files[i] |-> [file |-> i, line |-> files[i][k]]]]
<1>1. p \in Nat /\ DOMAIN files = 1..p
  OBVIOUS
<1>2. ASSUME NEW i \in 1..p
      PROVE  /\ [k \in DOMAIN files[i] |-> [file |-> i, line |-> files[i][k]]] \in Seq(Numbered(L))
             /\ Len([k \in DOMAIN files[i] |-> [file |-> i, line |-> files[i][k]]]) = Len(files[i])
  <2>1. files[i] \in Seq(L) /\ DOMAIN files[i] = 1..Len(files[i]) /\ Len(files[i]) \in Nat
    BY <1>1
  <2>2. \A k \in 1..Len(files[i]) : [file |-> i, line |-> files[i][k]] \in Numbered(L)
    BY <1>1, <2>1 DEF Numbered
  <2>3. QED
    BY <2>1, <2>2
<1>3. whole \in Seq(Seq(Numbered(L))) /\ Len(whole) = p /\ DOMAIN whole = 1..p
  BY <1>1, <1>2
<1>4. \A i \in 1..p : Len(whole[i]) = Len(files[i]) /\ whole[i] \in Seq(Numbered(L))
  BY <1>1, <1>2
<1> HIDE DEF whole
<1>5. PICK f : /\ f[0] = <<>>
               /\ \A i \in 1..Len(whole) : f[i] = f[i - 1] \o whole[i]
               /\ \A i \in 0..Len(whole) : f[i] \in Seq(Numbered(L))
               /\ f[Len(whole)] = FlattenSeq(whole)
  BY <1>3, Flattening
<1>6. FlattenSeq(whole) \in Seq(Numbered(L))
  BY <1>1, <1>3, <1>5
<1> DEFINE G == {i \in Nat : i <= p => Len(f[i]) = Least(i * s, n)}
<1>7. 0 \in G
  <2>1. Least(0 * s, n) = 0
    BY DEF Least
  <2>2. QED
    BY <1>5, <2>1
<1>8. ASSUME NEW i \in G PROVE i + 1 \in G
  <2>1. SUFFICES ASSUME i + 1 <= p PROVE Len(f[i + 1]) = Least((i + 1) * s, n)
    OBVIOUS
  <2>2. /\ i \in Nat /\ i + 1 \in 1..p /\ (i + 1) - 1 = i /\ i \in 0..p /\ i + 1 \in 0..p
        /\ Len(f[i]) = Least(i * s, n)
    BY <1>1, <2>1
  <2>3. i * s \in Nat /\ (i + 1) * s = i * s + s /\ i * s < n
    <3>1. i <= i /\ (i + 1 - 1) * s < n
      BY <2>2
    <3>2. QED
      BY <2>2, <3>1, Multiples
  <2>4. Len(f[i]) = i * s
    BY <2>2, <2>3 DEF Least
  <2>5. Len(whole[i + 1]) = Least((i + 1) * s, n) - i * s
    BY <1>4, <2>2
  <2>6. f[i + 1] = f[i] \o whole[i + 1]
    BY <1>3, <1>5, <2>2
  <2>7. f[i] \in Seq(Numbered(L)) /\ whole[i + 1] \in Seq(Numbered(L))
    BY <1>3, <1>4, <1>5, <2>2
  <2>8. Len(f[i + 1]) = Len(f[i]) + Len(whole[i + 1])
    BY <2>6, <2>7, Joined
  <2>9. Least((i + 1) * s, n) \in Nat
    BY <2>3 DEF Least
  <2>10. QED
    BY <2>3, <2>4, <2>5, <2>8, <2>9
<1>9. G = Nat
  <2>1. G \in SUBSET Nat
    OBVIOUS
  <2> HIDE DEF G
  <2>2. QED
    BY <1>7, <1>8, <2>1, NatBySteps
<1>10. Len(f[p]) = Least(p * s, n)
  <2>1. p \in G
    <3> HIDE DEF G
    <3>1. QED
      BY <1>1, <1>9
  <2>2. p <= p
    BY <1>1
  <2>3. QED
    BY <2>1, <2>2
<1>11. Least(p * s, n) = n
  <2>1. p * s \in Nat
    BY <1>1
  <2> HIDE DEF p
  <2>2. n <= p * s
    BY DEF p
  <2>3. QED
    BY <2>1, <2>2 DEF Least
<1>12. Len(FlattenSeq(whole)) = n
  BY <1>3, <1>5, <1>10, <1>11
<1>13. QED
  BY <1>6, <1>12 DEF whole

(* The lines of a bundle that is what it was made.                         *)
LEMMA LinesTyped ==
    ASSUME NEW source \in Sources, NEW b, MadeOf(b, source), Verified(b)
    PROVE  /\ LinesOf(b) \in Seq(Numbered(AllLines))
           /\ Extracted(source) # <<>> =>
                 /\ LinesOf(b) \in Seq(Numbered(FullLines))
                 /\ Len(LinesOf(b)) = Len(Extracted(source))
           /\ Extracted(source) = <<>> =>
                 \A k \in 1..Len(LinesOf(b)) : IsBlank(LinesOf(b)[k].line)
<1> DEFINE records == Extracted(source)
           lines == FlattenSeq([i \in DOMAIN b.chs |->
                        [k \in DOMAIN b.chs[i] |-> [file |-> i, line |-> b.chs[i][k]]]])
<1>1. records \in Seq(FullLines)
  BY ExtractedTyped
<1>2. b.chs = Split(records)
  BY DEF MadeOf, MakeBundle
<1>3. LinesOf(b) = lines
  BY VerifiedLines
<1> HIDE DEF records
<1>4. FullLines \subseteq AllLines /\ Blank \in AllLines
  BY DEF FullLines, AllLines
<1>5. CASE records # <<>>
  <2>1. /\ Split(records) \in Seq(Seq(FullLines)) /\ Len(records) \in Nat \ {0}
        /\ Len(Split(records)) = Parts(Len(records)) /\ Parts(Len(records)) \in Nat \ {0}
        /\ \A i \in 1..Parts(Len(records)) :
              Len(Split(records)[i]) = Least(i * SplitSize, Len(records)) - (i - 1) * SplitSize
        /\ \A i \in 1..Parts(Len(records)) : (i - 1) * SplitSize < Len(records)
        /\ Len(records) <= Parts(Len(records)) * SplitSize
    BY <1>1, <1>5, SplitInOrder
  <2>2. lines \in Seq(Numbered(FullLines)) /\ Len(lines) = Len(records)
    <3> DEFINE files == Split(records)
               n == Len(records)
    <3>1. /\ files \in Seq(Seq(FullLines)) /\ n \in Nat /\ SplitSize \in Nat
          /\ n <= Len(files) * SplitSize /\ Len(files) > 0
      BY <2>1, SizesArePositive
    <3>2. \A i \in 1..Len(files) : /\ Len(files[i]) = Least(i * SplitSize, n) - (i - 1) * SplitSize
                                   /\ (i - 1) * SplitSize < n
      BY <2>1
    <3> DEFINE joined == FlattenSeq([i \in DOMAIN files |->
                            [k \in DOMAIN files[i] |-> [file |-> i, line |-> files[i][k]]]])
    <3> HIDE DEF files, n
    <3>3. joined \in Seq(Numbered(FullLines)) /\ Len(joined) = n
      BY <3>1, <3>2, FilesJoined
    <3>4. lines = joined
      BY <1>2 DEF files
    <3>5. QED
      BY <3>3, <3>4 DEF n
  <2>3. Numbered(FullLines) \subseteq Numbered(AllLines)
    BY <1>4 DEF Numbered
  <2>4. lines \in Seq(Numbered(AllLines))
    <3> HIDE DEF lines
    <3>1. QED
      BY <2>2, <2>3
  <2>5. QED
    BY <1>3, <1>5, <2>2, <2>4 DEF records
<1>6. CASE records = <<>>
  <2> DEFINE one == <<[file |-> 1, line |-> Blank]>>
             whole == [i \in DOMAIN b.chs |->
                          [k \in DOMAIN b.chs[i] |-> [file |-> i, line |-> b.chs[i][k]]]]
  <2>1. b.chs = <<<<Blank>>>>
    BY <1>2, <1>6 DEF Split
  <2>2. whole = <<one>>
    <3>1. DOMAIN b.chs = 1..1 /\ b.chs[1] = <<Blank>> /\ DOMAIN <<Blank>> = 1..1
      BY <2>1
    <3>2. [k \in DOMAIN b.chs[1] |-> [file |-> 1, line |-> b.chs[1][k]]] = one
      BY <3>1
    <3>3. QED
      BY <3>1, <3>2
  <2>3. one \in Seq({[file |-> 1, line |-> Blank]}) /\ [file |-> 1, line |-> Blank] \in Numbered(AllLines)
    BY <1>4 DEF Numbered
  <2> DEFINE T == {[file |-> 1, line |-> Blank]}
  <2> HIDE DEF one, whole
  <2>4. <<>> \in Seq(Seq(T)) /\ Append(<<>>, one) = <<one>> /\ one \in Seq(T)
    BY <2>3
  <2>5. FlattenSeq(Append(<<>>, one)) = FlattenSeq(<<>>) \o one
    BY <2>4, FlattenAppend
  <2>6. FlattenSeq(<<>>) = <<>>
    <3>1. Len(<<>>) = 0
      OBVIOUS
    <3>2. PICK f : f[0] = <<>> /\ f[Len(<<>>)] = FlattenSeq(<<>>)
      BY <2>4, Flattening
    <3>3. QED
      BY <3>1, <3>2
  <2>7. FlattenSeq(whole) = one
    BY <2>2, <2>4, <2>5, <2>6
  <2>8. lines = one
    BY <2>7 DEF whole
  <2>9. \A k \in 1..Len(one) : one[k].line = Blank
    BY DEF one
  <2>10. one \in Seq(Numbered(AllLines))
    BY <2>3, <2>4
  <2>11. QED
    BY <1>3, <1>6, <2>8, <2>9, <2>10, SourcesAreLines DEF records
<1>7. QED
  BY <1>5, <1>6

(* Unless the header comes again, it is what the extractor has counted.    *)
LEMMA CountsClaimed ==
    ASSUME NEW source \in Sources, NEW b, MadeOf(b, source), Verified(b), NoRepeatedHeader(b)
    PROVE  Len(RecordsOf(b)) = b.rpt.recordsWritten
<1> DEFINE lines == LinesOf(b)
           read == {k \in DOMAIN lines : ~Skipped(lines[k].line)}
<1>1. b.rpt.recordsWritten = Len(Extracted(source))
  BY DEF MadeOf, MakeBundle
<1>2. lines \in Seq(Numbered(AllLines))
  BY LinesTyped
<1>3. \A k \in DOMAIN lines : ~IsHeader(mapping, lines[k].line)
  BY DEF NoRepeatedHeader
<1>4. RecordsOf(b) = ElementsAt(lines, read)
  BY DEF RecordsOf
<1>5. CASE Extracted(source) # <<>>
  <2>1. lines \in Seq(Numbered(FullLines)) /\ Len(lines) = Len(Extracted(source))
    BY <1>5, LinesTyped
  <2> HIDE DEF lines
  <2>2. \A k \in 1..Len(lines) : ~IsBlank(lines[k].line)
    <3>1. \A k \in 1..Len(lines) : lines[k].line \in FullLines
      <4>1. \A k \in 1..Len(lines) : lines[k] \in Numbered(FullLines)
        BY <2>1
      <4>2. \A e \in Numbered(FullLines) : e.line \in FullLines
        BY DEF Numbered
      <4>3. QED
        BY <4>1, <4>2
    <3>2. \A l \in FullLines : ~IsBlank(l)
      BY DEF FullLines, IsBlank
    <3>3. QED
      BY <3>1, <3>2 DEF IsBlank
  <2>3. 1..Len(lines) \subseteq read
    BY <1>2, <1>3, <2>2 DEF Skipped
  <2>4. ElementsAt(lines, read) = lines
    BY <1>2, <2>3, EveryPlace
  <2>5. QED
    BY <1>1, <1>4, <2>1, <2>4
<1>6. CASE Extracted(source) = <<>>
  <2>1. \A k \in 1..Len(lines) : IsBlank(lines[k].line)
    BY <1>6, LinesTyped
  <2> HIDE DEF lines
  <2>2. read = {}
    BY <1>2, <2>1 DEF Skipped
  <2>3. Len(lines) \in Nat
    BY <1>2
  <2>4. ElementsAt(lines, read \cap (1..0)) = <<>>
    <3> HIDE DEF read
    <3>1. QED
      BY <2>3, NoPlaces
  <2>5. ElementsAt(lines, read) = <<>>
    BY <2>2, <2>4
  <2>6. QED
    BY <1>1, <1>4, <1>6, <2>5
<1>7. QED
  BY <1>5, <1>6

-----------------------------------------------------------------------------
(* The rows of a bundle.                                                   *)

(* RecordsOf and RowsOf, for a contract m and the records up to a place.   *)
Recs(m, b) ==
    LET lines == LinesOf(b)
    IN  ElementsAt(lines, {k \in DOMAIN lines :
                              ~(IsBlank(lines[k].line) \/ IsHeader(m, lines[k].line))})

Tables == {"src", "rejects", "lineage"}
DoorOf(t) == IF t = "src" THEN "written" ELSE "rejected"
RowAt(m, e, t) ==
    IF t = "src" THEN SrcRow(e)
    ELSE IF t = "rejects" THEN RejectRow(RouteIntake(m, e.line))
    ELSE LineageRow(RouteIntake(m, e.line))
RowSeq(m, b, t) == [k \in DOMAIN Recs(m, b) |-> RowAt(m, Recs(m, b)[k], t)]
Through(m, b, t) ==
    {k \in DOMAIN Recs(m, b) : RouteIntake(m, Recs(m, b)[k].line).door = DoorOf(t)}
RowsTo(m, b, t, p) == ElementsAt(RowSeq(m, b, t), Through(m, b, t) \cap (1..p))

(* What may be in a table.                                                 *)
RowSet(m, t) == {RowAt(m, e, t) : e \in Numbered(AllLines)}
RowSeqs(m) == [src : Seq(RowSet(m, "src")), rejects : Seq(RowSet(m, "rejects")),
               lineage : Seq(RowSet(m, "lineage"))]

(* The records of the bundle in the contract's terms.                      *)
LEMMA RecordsAre == \A b : RecordsOf(b) = Recs(mapping, b)
<1> SUFFICES ASSUME NEW b PROVE RecordsOf(b) = Recs(mapping, b)
  OBVIOUS
<1> DEFINE lines == LinesOf(b)
<1>1. {k \in DOMAIN lines : ~Skipped(lines[k].line)}
        = {k \in DOMAIN lines : ~(IsBlank(lines[k].line) \/ IsHeader(mapping, lines[k].line))}
  BY Zenon DEF Skipped
<1>2. QED
  BY <1>1 DEF RecordsOf, Recs

(* A bundle that can be read: what is in it is typed.                      *)
Readable(b) == IsBundle(b) /\ Verified(b)

(* The records of a readable bundle are numbered lines.                    *)
LEMMA RecsTyped ==
    ASSUME NEW m, NEW b, Readable(b)
    PROVE  Recs(m, b) \in Seq(Numbered(AllLines))
<1> DEFINE lines == LinesOf(b)
           read == {k \in DOMAIN lines :
                       ~(IsBlank(lines[k].line) \/ IsHeader(m, lines[k].line))}
<1>1. PICK source \in Sources : MadeOf(b, source)
  BY DEF Readable, IsBundle
<1>2. lines \in Seq(Numbered(AllLines))
  BY <1>1, LinesTyped DEF Readable
<1> HIDE DEF lines
<1>3. Len(lines) \in Nat /\ \A k \in 1..Len(lines) : k \in read => lines[k] \in Numbered(AllLines)
  BY <1>2
<1>4. ElementsAt(lines, read) \in Seq(Numbered(AllLines))
  <2> HIDE DEF read
  <2>1. QED
    BY <1>3, PlacesTyped
<1>5. QED
  BY <1>4 DEF Recs, lines

(* The rows of no record, of one more, and their type.                     *)
LEMMA RowsGrow ==
    ASSUME NEW m, NEW b, Readable(b), NEW t \in Tables
    PROVE  /\ RowsTo(m, b, t, 0) = <<>>
           /\ \A p \in 0..(Len(Recs(m, b)) - 1) :
                 LET e == Recs(m, b)[p + 1]
                 IN  /\ e \in Numbered(AllLines)
                     /\ RowAt(m, e, t) \in RowSet(m, t)
                     /\ RowsTo(m, b, t, p + 1) =
                           IF RouteIntake(m, e.line).door = DoorOf(t)
                           THEN Append(RowsTo(m, b, t, p), RowAt(m, e, t))
                           ELSE RowsTo(m, b, t, p)
           /\ \A p \in 0..Len(Recs(m, b)) : RowsTo(m, b, t, p) \in Seq(RowSet(m, t))
<1> DEFINE r == Recs(m, b)
           s == RowSeq(m, b, t)
           places == Through(m, b, t)
<1>1. r \in Seq(Numbered(AllLines))
  BY RecsTyped
<1> HIDE DEF r
<1>2. Len(r) \in Nat /\ DOMAIN r = 1..Len(r) /\ \A k \in 1..Len(r) : r[k] \in Numbered(AllLines)
  BY <1>1
<1>3. s = [k \in 1..Len(r) |-> RowAt(m, r[k], t)]
  BY <1>2 DEF RowSeq, r
<1>4. \A k \in 1..Len(r) : RowAt(m, r[k], t) \in RowSet(m, t)
  BY <1>2 DEF RowSet
<1>5. /\ Len(s) = Len(r) /\ \A k \in 1..Len(r) : s[k] = RowAt(m, r[k], t) /\ s[k] \in RowSet(m, t)
  BY <1>2, <1>3, <1>4
<1>6. \A k \in 1..Len(r) : k \in places <=> RouteIntake(m, r[k].line).door = DoorOf(t)
  BY <1>2 DEF Through, r
<1> HIDE DEF s, places
<1>7. \A p : RowsTo(m, b, t, p) = ElementsAt(s, places \cap (1..p))
  BY DEF RowsTo, s, places
<1>8. RowsTo(m, b, t, 0) = <<>>
  BY <1>2, <1>5, <1>7, NoPlaces
<1>9. ASSUME NEW p \in 0..(Len(r) - 1)
      PROVE  RowsTo(m, b, t, p + 1) =
                 IF RouteIntake(m, r[p + 1].line).door = DoorOf(t)
                 THEN Append(RowsTo(m, b, t, p), RowAt(m, r[p + 1], t)) ELSE RowsTo(m, b, t, p)
  <2>1. p + 1 \in 1..Len(s) /\ (p + 1) - 1 = p /\ p + 1 \in 1..Len(r)
    BY <1>2, <1>5
  <2>2. ElementsAt(s, places \cap (1..(p + 1))) =
            IF p + 1 \in places THEN Append(ElementsAt(s, places \cap (1..p)), s[p + 1])
            ELSE ElementsAt(s, places \cap (1..p))
    <3> DEFINE q == p + 1
    <3>1. q \in 1..Len(s) /\ q - 1 = p
      BY <2>1
    <3> HIDE DEF q
    <3>2. Len(s) \in Nat
      BY <1>2, <1>5
    <3>3. CASE q \in places
      <4>1. ElementsAt(s, places \cap (1..q)) = Append(ElementsAt(s, places \cap (1..(q - 1))), s[q])
        BY <3>1, <3>2, <3>3, NextPlace
      <4>2. QED
        BY <3>1, <3>3, <4>1 DEF q
    <3>4. CASE q \notin places
      <4>1. ElementsAt(s, places \cap (1..q)) = ElementsAt(s, places \cap (1..(q - 1)))
        BY <3>1, <3>2, <3>4, NextPlace
      <4>2. QED
        BY <3>1, <3>4, <4>1 DEF q
    <3>5. QED
      BY <3>3, <3>4
  <2>3. s[p + 1] = RowAt(m, r[p + 1], t)
    BY <1>5, <2>1
  <2>4. p + 1 \in places <=> RouteIntake(m, r[p + 1].line).door = DoorOf(t)
    BY <1>6, <2>1
  <2>5. QED
    BY <1>7, <2>1, <2>2, <2>3, <2>4
<1>10. \A p \in 0..(Len(r) - 1) : r[p + 1] \in Numbered(AllLines) /\ RowAt(m, r[p + 1], t) \in RowSet(m, t)
  BY <1>2, <1>4
<1>11. ASSUME NEW p \in 0..Len(r) PROVE RowsTo(m, b, t, p) \in Seq(RowSet(m, t))
  <2> DEFINE here == places \cap (1..p)
  <2>1. \A n \in 1..Len(s) : n \in here => s[n] \in RowSet(m, t)
    BY <1>2, <1>5
  <2> HIDE DEF here
  <2>2. ElementsAt(s, here) \in Seq(RowSet(m, t))
    BY <1>2, <1>5, <2>1, PlacesTyped
  <2>3. QED
    BY <1>7, <2>2 DEF here
<1>12. QED
  BY <1>8, <1>9, <1>10, <1>11 DEF r

(* With all of them they are the rows that the tables should hold.         *)
LEMMA RowsOfIs ==
    ASSUME NEW b, Readable(b)
    PROVE  RowsOf(b) = [src |-> RowsTo(mapping, b, "src", Len(Recs(mapping, b))),
                        rejects |-> RowsTo(mapping, b, "rejects", Len(Recs(mapping, b))),
                        lineage |-> RowsTo(mapping, b, "lineage", Len(Recs(mapping, b)))]
<1> DEFINE r == Recs(mapping, b)
           n == Len(r)
           outcome == [k \in DOMAIN r |-> RouteIntake(mapping, r[k].line)]
           through(door) == {k \in DOMAIN r : outcome[k].door = door}
           src == [k \in DOMAIN r |-> SrcRow(r[k])]
           rejects == [k \in DOMAIN r |-> RejectRow(outcome[k])]
           lineage == [k \in DOMAIN r |-> LineageRow(outcome[k])]
<1>1. r \in Seq(Numbered(AllLines)) /\ RecordsOf(b) = r
  BY RecsTyped, RecordsAre
<1> HIDE DEF r
<1>2. n \in Nat /\ DOMAIN r = 1..n
  BY <1>1
<1>3. \A k \in DOMAIN r : outcome[k] = RouteIntake(mapping, r[k].line)
  OBVIOUS
<1>4. RowsOf(b) = [src |-> ElementsAt(src, through("written")),
                   rejects |-> ElementsAt(rejects, through("rejected")),
                   lineage |-> ElementsAt(lineage, through("rejected"))]
  BY <1>1, Zenon DEF RowsOf
<1> HIDE DEF outcome
<1>5. /\ src = RowSeq(mapping, b, "src") /\ rejects = RowSeq(mapping, b, "rejects")
      /\ lineage = RowSeq(mapping, b, "lineage")
  BY <1>3 DEF RowSeq, RowAt, r
<1>6. /\ through("written") = Through(mapping, b, "src")
      /\ through("rejected") = Through(mapping, b, "rejects")
      /\ through("rejected") = Through(mapping, b, "lineage")
  BY <1>3 DEF Through, DoorOf, r
<1>7. ASSUME NEW t \in Tables
      PROVE  ElementsAt(RowSeq(mapping, b, t), Through(mapping, b, t)) = RowsTo(mapping, b, t, n)
  <2> DEFINE s == RowSeq(mapping, b, t)
  <2>1. s = [k \in 1..n |-> RowAt(mapping, r[k], t)]
    BY <1>2 DEF RowSeq, r
  <2>2. Len(s) = n
    BY <1>2, <2>1
  <2> HIDE DEF s
  <2>3. ElementsAt(s, Through(mapping, b, t) \cap (1..Len(s))) = ElementsAt(s, Through(mapping, b, t))
    BY <1>2, <2>2, PlacesWithin
  <2>4. QED
    BY <2>2, <2>3 DEF RowsTo, s
<1> HIDE DEF src, rejects, lineage, through, n
<1>8. QED
  BY <1>4, <1>5, <1>6, <1>7 DEF Tables, n, r

-----------------------------------------------------------------------------
(* The inductive invariant of the lane.                                    *)

Reading == {"flag", "get", "rpt", "chs", "err"}
Parsing == {"lines", "uncaught", "done"}

JobShape ==
    /\ DOMAIN job = {"pc", "bundle", "todo", "read", "written", "rejected", "out", "tries"}
    /\ job.pc \in Running \cup {"idle", "done"}
    /\ job.read \in Nat /\ job.written \in Nat /\ job.rejected \in Nat
    /\ job.tries \in 0..(BundleTries - 1)
    /\ job.out \in RowSeqs(mapping)

LaneShapes ==
    /\ mapping \in {LoadMapping(c) : c \in Contracts}
    /\ extractor \in {"idle", "stored"}
    /\ landing = [bundle |-> landing.bundle, flg |-> landing.flg]
    /\ landing.flg \in BOOLEAN
    /\ DOMAIN recon = {"rpt", "chs", "err"}
    /\ stray = [pc |-> stray.pc, bundle |-> stray.bundle]
    /\ tables \in RowSeqs(mapping)

(* The semaphore stands over a bundle that the extractor has made; who is  *)
(* past it has one, and who is past the manifest has a whole one.          *)
LandingInv ==
    /\ landing.bundle = None \/ IsBundle(landing.bundle)
    /\ landing.flg \/ extractor = "stored" => IsBundle(landing.bundle)
    /\ job.pc = "get" => landing.flg
    /\ job.pc \in {"rpt", "chs", "err"} \cup Parsing => Readable(job.bundle)

(* A job that has not come to the lines holds nothing, and in its first    *)
(* try finds the tables empty.                                             *)
FreshInv ==
    /\ job.pc \in Reading =>
          /\ job.read = 0 /\ job.written = 0 /\ job.rejected = 0
          /\ job.tries = 0 => tables = NoRows
    /\ job.pc \in Reading \cup {"idle", "done"} => job.out = NoRows

(* One that has is at a place of its records: it has counted those before  *)
(* it, their rows are in the tables or in its hands, and in its first try  *)
(* nothing else is.                                                        *)
Tallies(p) ==
    /\ p \in 0..Len(Recs(mapping, job.bundle))
    /\ job.todo = SubSeq(Recs(mapping, job.bundle), p + 1, Len(Recs(mapping, job.bundle)))
    /\ job.written = Len(RowsTo(mapping, job.bundle, "src", p))
    /\ job.rejected = Len(RowsTo(mapping, job.bundle, "rejects", p))
    /\ \A t \in Tables :
          RangeOf(RowsTo(mapping, job.bundle, t, p)) \subseteq RangeOf(tables[t]) \cup RangeOf(job.out[t])
    /\ job.tries = 0 =>
          \A t \in Tables : tables[t] \o job.out[t] = RowsTo(mapping, job.bundle, t, p)
TallyInv == job.pc \in Parsing => Tallies(job.read)

DoneInv ==
    job.pc = "done" =>
       /\ job.todo = <<>>
       /\ ledger = [srcRead |-> job.read, written |-> job.written, rejected |-> job.rejected]

(* The artefacts that a job at a place has published.                      *)
PublishedAt(pc) ==
    IF pc = "chs" THEN {"rpt"}
    ELSE IF pc = "err" THEN {"rpt", "chs"}
    ELSE IF pc \in Parsing THEN {"rpt", "chs", "err"} ELSE {}
PublishInv ==
    stray.pc \in {"none", "flag", "get"} \/ stray.bundle = job.bundle =>
       \A a \in PublishedAt(job.pc) : recon[a] = job.bundle[a]

FileInv ==
    /\ JobShape /\ LaneShapes /\ LandingInv
    /\ FreshInv /\ TallyInv /\ DoneInv /\ PublishInv

(* Empty tables are tables.                                                *)
LEMMA NoRowsTyped == \A m : NoRows \in RowSeqs(m)
<1>1. \A T : <<>> \in Seq(T)
  OBVIOUS
<1>2. QED
  BY <1>1 DEF NoRows, RowSeqs

(* The invariant holds before anything has run.                            *)
LEMMA FileInvInit == Init => FileInv
<1> SUFFICES ASSUME Init PROVE FileInv
  OBVIOUS
<1>1. job = IdleJob /\ tables = NoRows /\ stray = [pc |-> "none", bundle |-> None]
      /\ landing = [bundle |-> None, flg |-> FALSE] /\ extractor = "idle"
      /\ recon = [a \in {"rpt", "chs", "err"} |-> None]
      /\ mapping \in {LoadMapping(c) : c \in Contracts}
  BY DEF Init
<1>2. NoRows \in RowSeqs(mapping)
  BY NoRowsTyped
<1>3. JobShape
  BY <1>1, <1>2, SizesArePositive DEF JobShape, IdleJob
<1>4. LaneShapes
  BY <1>1, <1>2 DEF LaneShapes
<1>5. LandingInv
  BY <1>1 DEF LandingInv, IdleJob, Parsing
<1>6. FreshInv /\ TallyInv /\ DoneInv
  BY <1>1 DEF FreshInv, TallyInv, DoneInv, IdleJob, Reading, Parsing
<1>7. PublishInv
  BY <1>1 DEF PublishInv, PublishedAt, IdleJob, Parsing
<1>8. QED
  BY <1>3, <1>4, <1>5, <1>6, <1>7 DEF FileInv

(* What is not about the landing bucket stays when only it changes.        *)
LEMMA LandingOnly ==
    ASSUME FileInv, UNCHANGED <<mapping, job, recon, stray, tables, ledger>>
    PROVE  JobShape' /\ FreshInv' /\ TallyInv' /\ DoneInv' /\ PublishInv'
<1>1. JobShape'
  BY DEF FileInv, JobShape
<1>2. FreshInv' /\ DoneInv'
  BY DEF FileInv, FreshInv, DoneInv
<1>3. TallyInv'
  BY DEF FileInv, TallyInv, Tallies
<1>4. PublishInv'
  BY DEF FileInv, PublishInv
<1>5. QED
  BY <1>1, <1>2, <1>3, <1>4

(* The extractor's steps, a damaged archive included.                      *)
LEMMA ExtractorKeeps ==
    ASSUME FileInv, (\E source \in Sources : Extract(source)) \/ RaiseFlag \/ ExtractorDies \/ Damage
    PROVE  FileInv'
<1>1. UNCHANGED <<mapping, job, recon, stray, tables, ledger>>
  BY DEF Extract, RaiseFlag, ExtractorDies, Damage, LaneOnly
<1>2. LaneShapes /\ LandingInv
  BY DEF FileInv
<1>3. \A pc : pc = job.pc => pc = job'.pc
  BY <1>1
<1>4. CASE \E source \in Sources : Extract(source)
  <2>1. PICK source \in Sources : Extract(source)
    BY <1>4
  <2>2. landing' = [bundle |-> MakeBundle(source), flg |-> landing.flg] /\ extractor' = "stored"
    BY <1>2, <2>1 DEF Extract, LaneShapes
  <2>3. MadeOf(MakeBundle(source), source)
    BY DEF MadeOf, MakeBundle
  <2>4. IsBundle(MakeBundle(source))
    BY <2>3 DEF IsBundle
  <2>5. LaneShapes' /\ LandingInv'
    BY <1>1, <1>2, <2>2, <2>4 DEF LaneShapes, LandingInv
  <2>6. QED
    BY <1>1, <2>5, LandingOnly DEF FileInv
<1>5. CASE RaiseFlag
  <2>1. landing' = [bundle |-> landing.bundle, flg |-> TRUE] /\ extractor' = "idle"
        /\ extractor = "stored"
    BY <1>2, <1>5 DEF RaiseFlag, LaneShapes
  <2>2. LaneShapes' /\ LandingInv'
    BY <1>1, <1>2, <2>1 DEF LaneShapes, LandingInv
  <2>3. QED
    BY <1>1, <2>2, LandingOnly DEF FileInv
<1>6. CASE ExtractorDies
  <2>1. landing' = landing /\ extractor' = "idle"
    BY <1>6 DEF ExtractorDies
  <2>2. LaneShapes' /\ LandingInv'
    BY <1>1, <1>2, <2>1 DEF LaneShapes, LandingInv
  <2>3. QED
    BY <1>1, <2>2, LandingOnly DEF FileInv
<1>7. CASE Damage
  <2>1. PICK dats : landing' = [landing EXCEPT !.bundle.dats = dats]
    BY <1>7 DEF Damage
  <2>2. landing.bundle # None /\ extractor' = extractor
    BY <1>7 DEF Damage
  <2>3. PICK source \in Sources : MadeOf(landing.bundle, source)
    BY <1>2, <2>2 DEF LandingInv, IsBundle
  <2> DEFINE b == landing.bundle
             hurt == [b EXCEPT !.dats = dats]
  <2>4. landing' = [bundle |-> hurt, flg |-> landing.flg]
    BY <1>2, <2>1 DEF LaneShapes
  <2>5. b = [dats |-> b.dats, chs |-> MakeBundle(source).chs, err |-> MakeBundle(source).err,
             rpt |-> MakeBundle(source).rpt]
    BY <2>3 DEF MadeOf, MakeBundle
  <2>6. hurt = [dats |-> dats, chs |-> MakeBundle(source).chs, err |-> MakeBundle(source).err,
                rpt |-> MakeBundle(source).rpt]
    BY <2>5
  <2>7. MadeOf(hurt, source)
    BY <2>6 DEF MadeOf, MakeBundle
  <2> HIDE DEF hurt
  <2>8. IsBundle(hurt)
    BY <2>7 DEF IsBundle
  <2>9. LaneShapes' /\ LandingInv'
    BY <1>1, <1>2, <2>2, <2>4, <2>8 DEF LaneShapes, LandingInv
  <2>10. QED
    BY <1>1, <2>9, LandingOnly DEF FileInv
<1>8. QED
  BY <1>4, <1>5, <1>6, <1>7

(* The router and the steps that change nothing.                           *)
LEMMA RouterStepKeeps ==
    ASSUME FileInv, RouterStep \/ UNCHANGED vars
    PROVE  FileInv'
<1>1. UNCHANGED <<mapping, job, recon, stray, tables, ledger, landing, extractor>>
  BY DEF RouterStep, vars, fileVars
<1>2. LaneShapes' /\ LandingInv'
  BY <1>1 DEF FileInv, LaneShapes, LandingInv
<1>3. QED
  BY <1>1, <1>2, LandingOnly DEF FileInv

(* A job that begins a try.                                                *)
Trying(n) == [pc |-> "flag", bundle |-> None, todo |-> <<>>, read |-> 0, written |-> 0,
              rejected |-> 0, out |-> NoRows, tries |-> n]

(* A try that starts holds nothing.                                        *)
LEMMA TryingIs ==
    ASSUME NEW n
    PROVE  /\ [IdleJob EXCEPT !.pc = "flag", !.tries = n] = Trying(n)
           /\ [IdleJob EXCEPT !.pc = "flag"] = Trying(0)
<1>1. IdleJob = [pc |-> "idle", bundle |-> None, todo |-> <<>>, read |-> 0, written |-> 0,
                 rejected |-> 0, out |-> NoRows, tries |-> 0]
  BY DEF IdleJob
<1>2. [IdleJob EXCEPT !.pc = "flag"] = Trying(0)
  BY <1>1, SMTT(30) DEF Trying
<1>3. [IdleJob EXCEPT !.pc = "flag", !.tries = n] = [[IdleJob EXCEPT !.pc = "flag"] EXCEPT !.tries = n]
  OBVIOUS
<1>4. [Trying(0) EXCEPT !.tries = n] = Trying(n)
  BY SMTT(30) DEF Trying
<1>5. QED
  BY <1>2, <1>3, <1>4

(* A job that starts over, with the tables cleared or as they are.         *)
LEMMA FreshJobKeeps ==
    ASSUME FileInv, UNCHANGED <<mapping, landing, extractor, recon>>,
           tables' \in RowSeqs(mapping),
           \/ job' = IdleJob
           \/ \E n \in 0..(BundleTries - 1) : job' = Trying(n) /\ (n = 0 => tables' = NoRows),
           stray' = [pc |-> stray'.pc, bundle |-> stray'.bundle]
    PROVE  FileInv'
<1>1. NoRows \in RowSeqs(mapping)
  BY NoRowsTyped
<1>2. LaneShapes'
  BY DEF FileInv, LaneShapes
<1>3. CASE job' = IdleJob
  <2>1. JobShape'
    BY <1>1, <1>3, SizesArePositive DEF JobShape, IdleJob
  <2>2. LandingInv'
    BY <1>3 DEF FileInv, LandingInv, IdleJob, Parsing
  <2>3. FreshInv' /\ TallyInv' /\ DoneInv' /\ PublishInv'
    BY <1>3 DEF FreshInv, TallyInv, DoneInv, PublishInv, PublishedAt, IdleJob, Reading, Parsing
  <2>4. QED
    BY <1>2, <2>1, <2>2, <2>3 DEF FileInv
<1>4. ASSUME NEW n \in 0..(BundleTries - 1), job' = Trying(n), n = 0 => tables' = NoRows
      PROVE  FileInv'
  <2>1. JobShape'
    BY <1>1, <1>4 DEF JobShape, Trying, Running
  <2>2. LandingInv'
    BY <1>4 DEF FileInv, LandingInv, Trying, Parsing
  <2>3. FreshInv' /\ TallyInv' /\ DoneInv' /\ PublishInv'
    BY <1>4 DEF FreshInv, TallyInv, DoneInv, PublishInv, PublishedAt, Trying, Reading, Parsing
  <2>4. QED
    BY <1>2, <2>1, <2>2, <2>3 DEF FileInv
<1>5. QED
  BY <1>3, <1>4

(* A new attempt, a bundle that failed, a pod that died.                   *)
LEMMA AttemptKeeps ==
    ASSUME FileInv, StartAttempt \/ BundleRaises \/ BundleFails \/ PodDies
    PROVE  FileInv'
<1>1. UNCHANGED <<mapping, landing, extractor, recon>>
  BY DEF StartAttempt, BundleRaises, BundleFails, PodDies, LaneOnly
<1>2. tables \in RowSeqs(mapping) /\ job.tries \in 0..(BundleTries - 1)
      /\ stray = [pc |-> stray.pc, bundle |-> stray.bundle]
  BY DEF FileInv, LaneShapes, JobShape
<1>3. 0 \in 0..(BundleTries - 1) /\ BundleTries \in Nat
  BY SizesArePositive
<1>4. CASE StartAttempt /\ mapping # None
  <2>1. job' = Trying(0) /\ tables' = NoRows /\ stray' = stray
    BY <1>4, TryingIs DEF StartAttempt
  <2>2. tables' \in RowSeqs(mapping)
    BY <2>1, NoRowsTyped
  <2>3. QED
    BY <1>1, <1>2, <1>3, <2>1, <2>2, FreshJobKeeps
<1>5. CASE (StartAttempt /\ mapping = None) \/ PodDies
  <2>1. job' = IdleJob /\ tables' = tables
    BY <1>5 DEF StartAttempt, PodDies
  <2>2. stray' = [pc |-> stray'.pc, bundle |-> stray'.bundle]
    BY <1>2, <1>5 DEF StartAttempt, PodDies
  <2>3. QED
    BY <1>1, <1>2, <2>1, <2>2, FreshJobKeeps
<1>6. CASE BundleRaises \/ BundleFails
  <2>1. RetryOrFail /\ UNCHANGED <<stray, tables>>
    BY <1>6 DEF BundleRaises, BundleFails
  <2>2. CASE job.tries + 1 < BundleTries
    <3>1. job' = Trying(job.tries + 1)
      BY <2>1, <2>2, TryingIs DEF RetryOrFail
    <3>2. job.tries + 1 \in 0..(BundleTries - 1) /\ (job.tries + 1 = 0 => tables' = NoRows)
      BY <1>2, <1>3, <2>2
    <3>3. QED
      BY <1>1, <1>2, <2>1, <3>1, <3>2, FreshJobKeeps
  <2>3. CASE ~(job.tries + 1 < BundleTries)
    <3>1. job' = IdleJob
      BY <2>1, <2>3 DEF RetryOrFail
    <3>2. QED
      BY <1>1, <1>2, <2>1, <3>1, FreshJobKeeps
  <2>4. QED
    BY <2>2, <2>3
<1>7. QED
  BY <1>4, <1>5, <1>6

-----------------------------------------------------------------------------
(* Sequences, as the job uses them.                                        *)

(* What is left of a sequence when its head is taken.                      *)
LEMMA OneTaken ==
    ASSUME NEW T, NEW s \in Seq(T), NEW p \in 0..Len(s), SubSeq(s, p + 1, Len(s)) # <<>>
    PROVE  /\ p + 1 \in 1..Len(s)
           /\ Head(SubSeq(s, p + 1, Len(s))) = s[p + 1]
           /\ Tail(SubSeq(s, p + 1, Len(s))) = SubSeq(s, p + 2, Len(s))
<1>1. p + 1 \in 1..Len(s)
  OBVIOUS
<1> DEFINE n == Len(s)
           a == SubSeq(s, p + 1, n)
           r == SubSeq(s, p + 2, n)
<1>2. n \in Nat /\ p \in Nat /\ p + 1 <= n
  BY <1>1
<1>3. a \in Seq(T) /\ Len(a) = n - p /\ \A k \in 1..(n - p) : a[k] = s[p + k]
  BY <1>1
<1>4. r \in Seq(T) /\ Len(r) = n - p - 1 /\ \A k \in 1..(n - p - 1) : r[k] = s[p + 1 + k]
  BY <1>1
<1> HIDE DEF a, r, n
<1>5. Head(a) = s[p + 1]
  BY <1>2, <1>3
<1>6. Tail(a) = r
  <2>1. Tail(a) \in Seq(T) /\ Len(Tail(a)) = n - p - 1 /\ \A k \in 1..(n - p - 1) : Tail(a)[k] = a[k + 1]
    BY <1>2, <1>3
  <2>2. ASSUME NEW k \in 1..(n - p - 1) PROVE Tail(a)[k] = r[k]
    <3>1. k + 1 \in 1..(n - p) /\ p + (k + 1) = p + 1 + k
      BY <1>2
    <3>2. QED
      BY <1>3, <1>4, <2>1, <3>1
  <2>3. QED
    BY <1>4, <2>1, <2>2, SameLengthSamePlaces
<1>7. QED
  BY <1>1, <1>5, <1>6 DEF a, r, n

(* Nothing is left of a sequence when all of it is taken.                  *)
LEMMA AllTaken ==
    ASSUME NEW T, NEW s \in Seq(T)
    PROVE  /\ SubSeq(s, 1, Len(s)) = s
           /\ \A p \in 0..Len(s) : SubSeq(s, p + 1, Len(s)) = <<>> => p = Len(s)
<1>1. SubSeq(s, 1, Len(s)) = s
  <2>1. /\ SubSeq(s, 1, Len(s)) \in Seq(T) /\ Len(SubSeq(s, 1, Len(s))) = Len(s)
        /\ \A k \in 1..Len(s) : SubSeq(s, 1, Len(s))[k] = s[k]
    OBVIOUS
  <2>2. QED
    BY <2>1, SameLengthSamePlaces
<1>2. ASSUME NEW p \in 0..Len(s), SubSeq(s, p + 1, Len(s)) = <<>> PROVE p = Len(s)
  <2> DEFINE n == Len(s)
             a == SubSeq(s, p + 1, n)
  <2>1. p \in 0..n /\ n \in Nat
    OBVIOUS
  <2>2. p + 1 <= n => Len(a) = n - p
    OBVIOUS
  <2>3. a = <<>>
    BY <1>2
  <2>4. Len(<<>>) = 0
    OBVIOUS
  <2> HIDE DEF a, n
  <2>5. Len(a) = 0
    BY <2>3, <2>4
  <2>6. p = n
    BY <2>1, <2>2, <2>5
  <2>7. QED
    BY <2>6 DEF n
<1>3. QED
  BY <1>1, <1>2

(* One more row behind what is written and what is held.                   *)
LEMMA JoinedWithMore ==
    ASSUME NEW T, NEW a \in Seq(T), NEW b \in Seq(T), NEW x \in T
    PROVE  a \o Append(b, x) = Append(a \o b, x)
  OBVIOUS

(* The elements of a longer sequence.                                      *)
LEMMA RangeOfMore ==
    ASSUME NEW T, NEW a \in Seq(T), NEW b \in Seq(T), NEW x \in T
    PROVE  /\ RangeOf(Append(a, x)) = RangeOf(a) \cup {x}
           /\ RangeOf(a \o b) = RangeOf(a) \cup RangeOf(b)
           /\ a \o <<>> = a /\ RangeOf(<<>>) = {}
<1>1. RangeOf(Append(a, x)) = RangeOf(a) \cup {x}
  <2> DEFINE c == Append(a, x)
  <2>1. Len(a) \in Nat /\ DOMAIN a = 1..Len(a) /\ DOMAIN c = 1..(Len(a) + 1)
        /\ c[Len(a) + 1] = x /\ \A k \in 1..Len(a) : c[k] = a[k]
    OBVIOUS
  <2> HIDE DEF c
  <2>2. \A y : y \in RangeOf(c) <=> y \in RangeOf(a) \/ y = x
    <3>1. ASSUME NEW y, y \in RangeOf(c) PROVE y \in RangeOf(a) \/ y = x
      <4>1. PICK k \in 1..(Len(a) + 1) : y = c[k]
        BY <2>1, <3>1 DEF RangeOf
      <4>2. k \in 1..Len(a) \/ k = Len(a) + 1
        BY <2>1
      <4>3. QED
        BY <2>1, <4>1, <4>2 DEF RangeOf
    <3>2. ASSUME NEW y, y \in RangeOf(a) PROVE y \in RangeOf(c)
      <4>1. PICK k \in 1..Len(a) : y = a[k]
        BY <2>1, <3>2 DEF RangeOf
      <4>2. k \in DOMAIN c /\ c[k] = y
        BY <2>1, <4>1
      <4>3. QED
        BY <4>2 DEF RangeOf
    <3>3. Len(a) + 1 \in DOMAIN c
      BY <2>1
    <3>4. x \in RangeOf(c)
      BY <2>1, <3>3 DEF RangeOf
    <3>5. QED
      BY <3>1, <3>2, <3>4
  <2>3. QED
    BY <2>2 DEF c
<1>2. RangeOf(a \o b) = RangeOf(a) \cup RangeOf(b)
  <2> DEFINE c == a \o b
  <2>1. /\ Len(a) \in Nat /\ Len(b) \in Nat /\ DOMAIN a = 1..Len(a) /\ DOMAIN b = 1..Len(b)
        /\ DOMAIN c = 1..(Len(a) + Len(b))
        /\ \A k \in 1..Len(a) : c[k] = a[k]
        /\ \A k \in 1..Len(b) : c[Len(a) + k] = b[k]
    <3>1. c \in Seq(T) /\ Len(c) = Len(a) + Len(b)
      BY Joined
    <3>2. DOMAIN c = 1..Len(c)
      BY <3>1
    <3>3. \A k \in 1..Len(a) : c[k] = a[k]
      BY Joined
    <3>4. \A k \in 1..Len(b) : c[Len(a) + k] = b[k]
      BY Joined
    <3> HIDE DEF c
    <3>5. QED
      BY <3>1, <3>2, <3>3, <3>4
  <2> HIDE DEF c
  <2>2. ASSUME NEW y, y \in RangeOf(c) PROVE y \in RangeOf(a) \cup RangeOf(b)
    <3>1. PICK k \in 1..(Len(a) + Len(b)) : y = c[k]
      BY <2>1, <2>2 DEF RangeOf
    <3>2. CASE k \in 1..Len(a)
      BY <2>1, <3>1, <3>2 DEF RangeOf
    <3>3. CASE k \notin 1..Len(a)
      <4>1. k - Len(a) \in 1..Len(b) /\ Len(a) + (k - Len(a)) = k
        BY <2>1, <3>3
      <4>2. y = b[k - Len(a)] /\ k - Len(a) \in DOMAIN b
        BY <2>1, <3>1, <4>1
      <4>3. QED
        BY <4>2 DEF RangeOf
    <3>4. QED
      BY <3>2, <3>3
  <2>3. ASSUME NEW y, y \in RangeOf(a) PROVE y \in RangeOf(c)
    <3>1. PICK k \in 1..Len(a) : y = a[k]
      BY <2>1, <2>3 DEF RangeOf
    <3>2. k \in DOMAIN c /\ c[k] = y
      BY <2>1, <3>1
    <3>3. QED
      BY <3>2 DEF RangeOf
  <2>4. ASSUME NEW y, y \in RangeOf(b) PROVE y \in RangeOf(c)
    <3>1. PICK k \in 1..Len(b) : y = b[k]
      BY <2>1, <2>4 DEF RangeOf
    <3>2. Len(a) + k \in DOMAIN c /\ c[Len(a) + k] = y
      BY <2>1, <3>1
    <3>3. QED
      BY <3>2 DEF RangeOf
  <2>5. QED
    BY <2>2, <2>3, <2>4 DEF c
<1>3. a \o <<>> = a /\ RangeOf(<<>>) = {}
  <2>1. a \o <<>> = a
    OBVIOUS
  <2>2. DOMAIN <<>> = {}
    OBVIOUS
  <2>3. QED
    BY <2>1, <2>2 DEF RangeOf
<1>4. QED
  BY <1>1, <1>2, <1>3

-----------------------------------------------------------------------------
(* The steps of a job that reads.                                          *)

(* The places of a job that reads the bundle follow one another.           *)
LEMMA NextPlaceOfJob ==
    ASSUME NEW pc \in Reading, NEW b, AfterRead(pc, b) # None
    PROVE  /\ pc = "flag" => AfterRead(pc, b) = "get" /\ landing.flg
           /\ pc = "get" => AfterRead(pc, b) = "rpt" /\ Verified(landing.bundle)
           /\ pc = "rpt" => AfterRead(pc, b) = "chs"
           /\ pc = "chs" => AfterRead(pc, b) = "err"
           /\ pc = "err" => AfterRead(pc, b) = "lines"
  BY DEF AfterRead, Reading

(* An artefact published by one of the two jobs.                           *)
LEMMA PublishedIs ==
    ASSUME DOMAIN recon = {"rpt", "chs", "err"}, NEW pc \in Reading, NEW b
    PROVE  /\ DOMAIN Published(pc, b) = {"rpt", "chs", "err"}
           /\ \A a \in {"rpt", "chs", "err"} :
                 Published(pc, b)[a] = IF a = pc THEN b[a] ELSE recon[a]
  BY DEF Published, Reading

(* The job reads the bundle and publishes what is in it.                   *)
LEMMA ReadKeeps ==
    ASSUME FileInv, ReadBundle
    PROVE  FileInv'
<1> DEFINE bundle == IF job.pc = "get" THEN landing.bundle ELSE job.bundle
           to == AfterRead(job.pc, job.bundle)
           todo == IF job.pc = "err" THEN RecordsOf(bundle) ELSE <<>>
<1>1. /\ job.pc \in Reading /\ to # None
      /\ job' = [job EXCEPT !.pc = to, !.bundle = bundle, !.todo = todo]
      /\ recon' = Published(job.pc, job.bundle)
      /\ UNCHANGED <<mapping, extractor, landing, stray, tables, ledger>>
  BY DEF ReadBundle, LaneOnly, Reading
<1>2. JobShape /\ LaneShapes /\ LandingInv /\ FreshInv /\ PublishInv
  BY DEF FileInv
<1>3. /\ job.pc = "flag" => to = "get" /\ landing.flg
      /\ job.pc = "get" => to = "rpt" /\ Verified(landing.bundle)
      /\ job.pc = "rpt" => to = "chs"
      /\ job.pc = "chs" => to = "err"
      /\ job.pc = "err" => to = "lines"
  BY <1>1, NextPlaceOfJob
<1> HIDE DEF to
<1>4. DOMAIN job = {"pc", "bundle", "todo", "read", "written", "rejected", "out", "tries"}
  BY <1>2 DEF JobShape
<1>5. /\ DOMAIN job' = DOMAIN job
      /\ job'.pc = to /\ job'.bundle = bundle /\ job'.todo = todo /\ job'.read = job.read
      /\ job'.written = job.written /\ job'.rejected = job.rejected /\ job'.out = job.out
      /\ job'.tries = job.tries
  <2> HIDE DEF bundle, todo
  <2>1. QED
    BY <1>1, <1>4
<1>6. to \in {"get", "rpt", "chs", "err", "lines"}
  BY <1>1, <1>3 DEF Reading
<1>7. JobShape'
  <2> HIDE DEF bundle, todo
  <2>1. QED
    BY <1>1, <1>2, <1>4, <1>5, <1>6 DEF JobShape, Running
<1>8. DOMAIN recon = {"rpt", "chs", "err"}
  BY <1>2 DEF LaneShapes
<1>9. /\ DOMAIN recon' = {"rpt", "chs", "err"}
      /\ \A a \in {"rpt", "chs", "err"} :
            recon'[a] = IF a = job.pc THEN job.bundle[a] ELSE recon[a]
  BY <1>1, <1>8, PublishedIs
<1>10. LaneShapes'
  BY <1>1, <1>2, <1>9 DEF LaneShapes
<1>11. LandingInv'
  <2>1. job.pc = "get" => Readable(landing.bundle)
    BY <1>2, <1>3 DEF LandingInv, Readable
  <2>2. job'.pc = "get" => landing'.flg
    BY <1>1, <1>3, <1>5 DEF Reading
  <2>3. job'.pc \in {"rpt", "chs", "err"} \cup Parsing => Readable(job'.bundle)
    <3>1. CASE job.pc = "flag"
      BY <1>3, <1>5, <3>1 DEF Parsing
    <3>2. CASE job.pc = "get"
      BY <1>5, <2>1, <3>2
    <3>3. CASE job.pc \in {"rpt", "chs", "err"}
      BY <1>2, <1>5, <3>3 DEF LandingInv
    <3>4. QED
      BY <1>1, <3>1, <3>2, <3>3 DEF Reading
  <2>4. QED
    BY <1>1, <1>2, <2>2, <2>3 DEF LandingInv
<1>12. FreshInv'
  BY <1>1, <1>2, <1>5, <1>6 DEF FreshInv, Reading
<1>13. TallyInv'
  <2>1. SUFFICES ASSUME job.pc = "err" PROVE Tallies(job.read)'
    BY <1>1, <1>3, <1>5, <1>6 DEF TallyInv, Parsing, Reading
  <2> DEFINE m == mapping
             b == job.bundle
             r == Recs(m, b)
  <2>2. Readable(b) /\ bundle = b
    BY <1>2, <2>1 DEF LandingInv
  <2>3. r \in Seq(Numbered(AllLines)) /\ RecordsOf(b) = r
    BY <2>2, RecsTyped, RecordsAre
  <2>4. mapping' = m /\ job'.bundle = b /\ job'.todo = r /\ tables' = tables
    BY <1>1, <1>5, <2>1, <2>2, <2>3
  <2>5. job.read = 0 /\ job.written = 0 /\ job.rejected = 0 /\ job.out = NoRows
        /\ (job.tries = 0 => tables = NoRows)
    BY <1>2, <2>1 DEF FreshInv, Reading
  <2>6. \A t \in Tables : RowsTo(m, b, t, 0) = <<>>
    BY <2>2, RowsGrow
  <2>7. "src" \in Tables /\ "rejects" \in Tables /\ \A t \in Tables : NoRows[t] = <<>>
    BY DEF Tables, NoRows
  <2>8. <<>> \o <<>> = <<>> /\ RangeOf(<<>>) = {}
    <3>1. DOMAIN <<>> = {} /\ <<>> \o <<>> = <<>>
      OBVIOUS
    <3>2. QED
      BY <3>1 DEF RangeOf
  <2>9. job'.todo = SubSeq(r, 0 + 1, Len(r))
    <3> HIDE DEF r
    <3>1. QED
      BY <2>3, <2>4, AllTaken
  <2>10. Len(r) \in Nat
    <3> HIDE DEF r
    <3>1. QED
      BY <2>3
  <2>11. /\ 0 \in 0..Len(r)
         /\ job'.written = Len(RowsTo(m, b, "src", 0))
         /\ job'.rejected = Len(RowsTo(m, b, "rejects", 0))
    BY <1>5, <2>5, <2>6, <2>7, <2>10
  <2>12. ASSUME NEW t \in Tables
         PROVE  /\ RangeOf(RowsTo(m, b, t, 0)) \subseteq RangeOf(tables[t]) \cup RangeOf(job.out[t])
                /\ job.tries = 0 => tables[t] \o job.out[t] = RowsTo(m, b, t, 0)
    <3>1. RangeOf(RowsTo(m, b, t, 0)) = {}
      BY <2>6, <2>8
    <3>2. job.tries = 0 => tables[t] = <<>> /\ job.out[t] = <<>>
      BY <2>5, <2>7
    <3>3. QED
      BY <2>6, <2>8, <3>1, <3>2
  <2>13. job'.read = 0 /\ job'.out = job.out /\ job'.tries = job.tries
    BY <1>5, <2>5
  <2> HIDE DEF m, b, r
  <2>14. QED
    <3>1. mapping' = m /\ job'.bundle = b /\ Recs(mapping', job'.bundle) = r
      BY <2>4 DEF m, b, r
    <3>2. \A t \in Tables :
             /\ RangeOf(RowsTo(m, b, t, 0)) \subseteq RangeOf(tables'[t]) \cup RangeOf(job'.out[t])
             /\ job'.tries = 0 => tables'[t] \o job'.out[t] = RowsTo(m, b, t, 0)
      BY <2>4, <2>12, <2>13
    <3>3. QED
      BY <2>9, <2>11, <2>13, <3>1, <3>2 DEF Tallies
<1>14. DoneInv'
  BY <1>5, <1>6 DEF DoneInv
<1>15. PublishInv'
  <2>1. SUFFICES ASSUME stray.pc \in {"none", "flag", "get"} \/ stray.bundle = bundle,
                        NEW a \in PublishedAt(to)
                 PROVE  recon'[a] = bundle[a]
    BY <1>1, <1>5 DEF PublishInv
  <2>2. job.pc \in {"rpt", "chs", "err"} /\ a \in {"rpt", "chs", "err"}
    BY <1>1, <1>3, <1>6, <2>1 DEF PublishedAt, Parsing, Reading
  <2>3. bundle = job.bundle
    BY <2>2
  <2>4. a = job.pc \/ a \in PublishedAt(job.pc)
    BY <1>3, <2>1, <2>2 DEF PublishedAt, Parsing
  <2>5. CASE a = job.pc
    BY <1>9, <2>2, <2>3, <2>5
  <2>6. CASE a \in PublishedAt(job.pc) /\ a # job.pc
    <3>1. recon[a] = job.bundle[a]
      BY <1>2, <2>1, <2>3, <2>6 DEF PublishInv
    <3>2. QED
      BY <1>9, <2>2, <2>3, <2>6, <3>1
  <2>7. QED
    BY <2>4, <2>5, <2>6
<1>16. QED
  BY <1>7, <1>10, <1>11, <1>12, <1>13, <1>14, <1>15 DEF FileInv

(* A job left behind publishes the bundle it has.                          *)
LEMMA StrayKeeps ==
    ASSUME FileInv, StrayReads
    PROVE  FileInv'
<1> DEFINE bundle == IF stray.pc = "get" THEN landing.bundle ELSE stray.bundle
           to == AfterRead(stray.pc, stray.bundle)
<1>1. /\ stray.pc \in Reading /\ to # None
      /\ stray' = [pc |-> to, bundle |-> bundle]
      /\ recon' = Published(stray.pc, stray.bundle)
      /\ UNCHANGED <<mapping, extractor, landing, job, tables, ledger>>
  BY DEF StrayReads, LaneOnly, Reading
<1>2. LaneShapes /\ LandingInv /\ PublishInv
  BY DEF FileInv
<1>3. /\ stray.pc = "flag" => to = "get"
      /\ stray.pc = "get" => to = "rpt"
      /\ stray.pc = "rpt" => to = "chs"
      /\ stray.pc = "chs" => to = "err"
      /\ stray.pc = "err" => to = "lines"
  BY <1>1, NextPlaceOfJob
<1> HIDE DEF to
<1>4. DOMAIN recon = {"rpt", "chs", "err"}
  BY <1>2 DEF LaneShapes
<1>5. /\ DOMAIN recon' = {"rpt", "chs", "err"}
      /\ \A a \in {"rpt", "chs", "err"} :
            recon'[a] = IF a = stray.pc THEN stray.bundle[a] ELSE recon[a]
  BY <1>1, <1>4, PublishedIs
<1>6. JobShape' /\ FreshInv' /\ DoneInv'
  BY <1>1 DEF FileInv, JobShape, FreshInv, DoneInv
<1>7. TallyInv'
  BY <1>1 DEF FileInv, TallyInv, Tallies
<1>8. LaneShapes' /\ LandingInv'
  BY <1>1, <1>2, <1>5 DEF LaneShapes, LandingInv
<1>9. PublishInv'
  <2>1. SUFFICES ASSUME stray'.pc \in {"none", "flag", "get"} \/ stray'.bundle = job.bundle,
                        NEW a \in PublishedAt(job.pc)
                 PROVE  recon'[a] = job.bundle[a]
    BY <1>1 DEF PublishInv
  <2>2. a \in {"rpt", "chs", "err"}
    BY DEF PublishedAt
  <2>3. CASE stray.pc \in {"flag", "get"}
    <3>1. recon[a] = job.bundle[a] /\ a # stray.pc
      BY <1>2, <2>2, <2>3 DEF PublishInv
    <3>2. QED
      BY <1>5, <2>2, <3>1
  <2>4. CASE stray.pc \in {"rpt", "chs", "err"}
    <3>1. stray.bundle = job.bundle
      BY <1>1, <1>3, <2>1, <2>4
    <3>2. recon[a] = job.bundle[a]
      BY <1>2, <3>1 DEF PublishInv
    <3>3. QED
      BY <1>5, <2>2, <3>1, <3>2
  <2>5. QED
    BY <1>1, <2>3, <2>4 DEF Reading
<1>10. QED
  BY <1>6, <1>7, <1>8, <1>9 DEF FileInv

-----------------------------------------------------------------------------
(* The steps of a job that parses.                                         *)

(* What is known of a job that parses, or has.                             *)
LEMMA ParsingParts ==
    ASSUME FileInv, job.pc \in Parsing
    PROVE  /\ Readable(job.bundle) /\ Tallies(job.read)
           /\ Recs(mapping, job.bundle) \in Seq(Numbered(AllLines))
           /\ \A t \in Tables :
                 /\ job.out[t] \in Seq(RowSet(mapping, t)) /\ tables[t] \in Seq(RowSet(mapping, t))
                 /\ RowsTo(mapping, job.bundle, t, job.read) \in Seq(RowSet(mapping, t))
<1>1. Readable(job.bundle) /\ Tallies(job.read)
  BY DEF FileInv, LandingInv, TallyInv
<1>2. Recs(mapping, job.bundle) \in Seq(Numbered(AllLines))
  BY <1>1, RecsTyped
<1>3. job.read \in 0..Len(Recs(mapping, job.bundle))
  BY <1>1 DEF Tallies
<1>4. \A t \in Tables : RowsTo(mapping, job.bundle, t, job.read) \in Seq(RowSet(mapping, t))
  BY <1>1, <1>3, RowsGrow
<1>5. job.out \in RowSeqs(mapping) /\ tables \in RowSeqs(mapping)
  BY DEF FileInv, JobShape, LaneShapes
<1>6. \A q \in RowSeqs(mapping) : \A t \in Tables : q[t] \in Seq(RowSet(mapping, t))
  BY DEF RowSeqs, Tables
<1>7. QED
  BY <1>1, <1>2, <1>4, <1>5, <1>6

(* Rows that are typed table by table.                                     *)
LEMMA RowSeqsBy ==
    ASSUME NEW m, NEW q \in RowSeqs(m), NEW r, DOMAIN r = Tables, r = [t \in Tables |-> r[t]],
           \A t \in Tables : r[t] \in Seq(RowSet(m, t))
    PROVE  r \in RowSeqs(m)
<1>1. r = [src |-> r["src"], rejects |-> r["rejects"], lineage |-> r["lineage"]]
  BY DEF Tables
<1>2. /\ r["src"] \in Seq(RowSet(m, "src")) /\ r["rejects"] \in Seq(RowSet(m, "rejects"))
      /\ r["lineage"] \in Seq(RowSet(m, "lineage"))
  BY DEF Tables
<1>3. QED
  BY <1>1, <1>2 DEF RowSeqs

(* What does not change when a job goes on from line to line.              *)
LEMMA GoesOn ==
    ASSUME FileInv, job.pc = "lines", job'.pc \in Parsing, job'.bundle = job.bundle,
           UNCHANGED <<mapping, extractor, landing, recon, stray>>, tables' \in RowSeqs(mapping)
    PROVE  LaneShapes' /\ LandingInv' /\ PublishInv'
<1>1. LaneShapes'
  BY DEF FileInv, LaneShapes
<1>2. LandingInv'
  BY DEF FileInv, LandingInv, Parsing
<1>3. PublishInv'
  BY DEF FileInv, PublishInv, PublishedAt, Parsing
<1>4. QED
  BY <1>1, <1>2, <1>3

(* A line is parsed: it is counted and its rows are held.                  *)
LEMMA ParseKeeps ==
    ASSUME FileInv, ParseNext
    PROVE  FileInv'
<1> DEFINE m == mapping
           b == job.bundle
           r == Recs(m, b)
           n == Len(r)
           p == job.read
           e == Head(job.todo)
           outcome == RouteIntake(m, e.line)
<1>1. /\ job.pc = "lines" /\ job.todo # <<>>
      /\ UNCHANGED <<mapping, extractor, landing, recon, stray, tables, ledger>>
  BY DEF ParseNext, LaneOnly
<1>2. \/ job' = [job EXCEPT !.pc = "uncaught"]
      \/ /\ outcome.door = "written"
         /\ job' = [job EXCEPT !.todo = Tail(@), !.read = @ + 1, !.written = @ + 1,
                               !.out.src = Append(@, SrcRow(e))]
      \/ /\ outcome.door # "written"
         /\ job' = [job EXCEPT !.todo = Tail(@), !.read = @ + 1, !.rejected = @ + 1,
                               !.out.rejects = Append(@, RejectRow(outcome)),
                               !.out.lineage = Append(@, LineageRow(outcome))]
  BY DEF ParseNext
<1>3. /\ DOMAIN job = {"pc", "bundle", "todo", "read", "written", "rejected", "out", "tries"}
      /\ JobShape /\ tables \in RowSeqs(m)
  BY DEF FileInv, JobShape, LaneShapes
<1>4. /\ Readable(b) /\ Tallies(p) /\ r \in Seq(Numbered(AllLines))
      /\ \A t \in Tables : /\ job.out[t] \in Seq(RowSet(m, t)) /\ tables[t] \in Seq(RowSet(m, t))
                           /\ RowsTo(m, b, t, p) \in Seq(RowSet(m, t))
  BY <1>1, ParsingParts DEF Parsing
<1>5. CASE job' = [job EXCEPT !.pc = "uncaught"]
  <2>1. /\ DOMAIN job' = DOMAIN job /\ job'.pc = "uncaught" /\ job'.bundle = job.bundle
        /\ job'.todo = job.todo /\ job'.read = job.read /\ job'.written = job.written
        /\ job'.rejected = job.rejected /\ job'.out = job.out /\ job'.tries = job.tries
    BY <1>3, <1>5
  <2>2. JobShape'
    BY <1>1, <1>3, <2>1 DEF JobShape, Running
  <2>3. LaneShapes' /\ LandingInv' /\ PublishInv'
    BY <1>1, <1>3, <2>1, GoesOn DEF Parsing
  <2>4. FreshInv' /\ DoneInv'
    BY <2>1 DEF FreshInv, DoneInv, Reading
  <2>5. TallyInv'
    BY <1>1, <1>4, <2>1 DEF TallyInv, Tallies
  <2>6. QED
    BY <2>2, <2>3, <2>4, <2>5 DEF FileInv
<1>6. ASSUME NEW door \in {"written", "rejected"}, outcome.door = door,
             DOMAIN job' = DOMAIN job, job'.pc = "lines", job'.bundle = b,
             job'.todo = Tail(job.todo), job'.read = p + 1, job'.tries = job.tries,
             job'.written = IF door = "written" THEN job.written + 1 ELSE job.written,
             job'.rejected = IF door = "rejected" THEN job.rejected + 1 ELSE job.rejected,
             DOMAIN job'.out = Tables, job'.out = [t \in Tables |-> job'.out[t]],
             \A t \in Tables : job'.out[t] = IF DoorOf(t) = door THEN Append(job.out[t], RowAt(m, e, t))
                                             ELSE job.out[t]
      PROVE  FileInv'
  <2>1. /\ p \in 0..n /\ job.todo = SubSeq(r, p + 1, n)
        /\ job.written = Len(RowsTo(m, b, "src", p))
        /\ job.rejected = Len(RowsTo(m, b, "rejects", p))
        /\ \A t \in Tables : RangeOf(RowsTo(m, b, t, p)) \subseteq RangeOf(tables[t]) \cup RangeOf(job.out[t])
        /\ job.tries = 0 => \A t \in Tables : tables[t] \o job.out[t] = RowsTo(m, b, t, p)
    BY <1>4 DEF Tallies
  <2>2. p + 1 \in 1..n /\ e = r[p + 1] /\ job'.todo = SubSeq(r, p + 2, n)
    <3> HIDE DEF r, p
    <3>1. QED
      BY <1>1, <1>4, <1>6, <2>1, OneTaken
  <2> HIDE DEF r, n, p, e
  <2>3. n \in Nat /\ p \in 0..(n - 1) /\ p + 1 \in 0..n /\ (p + 1) + 1 = p + 2
    BY <1>4, <2>1, <2>2 DEF n
  <2>4. ASSUME NEW t \in Tables
        PROVE  /\ RowAt(m, e, t) \in RowSet(m, t)
               /\ RowsTo(m, b, t, p + 1) = IF DoorOf(t) = door
                                           THEN Append(RowsTo(m, b, t, p), RowAt(m, e, t))
                                           ELSE RowsTo(m, b, t, p)
    <3>1. p \in 0..(Len(Recs(m, b)) - 1) /\ e = Recs(m, b)[p + 1]
      BY <2>2, <2>3 DEF n, r
    <3>2. /\ RowAt(m, e, t) \in RowSet(m, t)
          /\ RowsTo(m, b, t, p + 1) = IF RouteIntake(m, e.line).door = DoorOf(t)
                                      THEN Append(RowsTo(m, b, t, p), RowAt(m, e, t))
                                      ELSE RowsTo(m, b, t, p)
      BY <1>4, <3>1, RowsGrow
    <3>3. QED
      BY <1>6, <3>2
  <2>5. ASSUME NEW t \in Tables
        PROVE  /\ job'.out[t] \in Seq(RowSet(m, t))
               /\ RangeOf(RowsTo(m, b, t, p + 1)) \subseteq RangeOf(tables[t]) \cup RangeOf(job'.out[t])
               /\ job.tries = 0 => tables[t] \o job'.out[t] = RowsTo(m, b, t, p + 1)
               /\ Len(RowsTo(m, b, t, p + 1)) =
                     IF DoorOf(t) = door THEN Len(RowsTo(m, b, t, p)) + 1
                                         ELSE Len(RowsTo(m, b, t, p))
    <3> DEFINE T == RowSet(m, t)
               x == RowAt(m, e, t)
               q == RowsTo(m, b, t, p)
               o == job.out[t]
    <3>1. o \in Seq(T) /\ tables[t] \in Seq(T) /\ q \in Seq(T) /\ x \in T
      BY <1>4, <2>4
    <3>2. RangeOf(q) \subseteq RangeOf(tables[t]) \cup RangeOf(o)
          /\ (job.tries = 0 => tables[t] \o o = q)
      BY <2>1
    <3>3. CASE DoorOf(t) # door
      BY <1>6, <2>4, <3>1, <3>2, <3>3
    <3>4. CASE DoorOf(t) = door
      <4>1. job'.out[t] = Append(o, x) /\ RowsTo(m, b, t, p + 1) = Append(q, x)
        BY <1>6, <2>4, <3>4
      <4> HIDE DEF T, x, q, o
      <4>2. /\ RangeOf(Append(q, x)) = RangeOf(q) \cup {x}
            /\ RangeOf(Append(o, x)) = RangeOf(o) \cup {x}
        BY <3>1, RangeOfMore
      <4>3. tables[t] \o Append(o, x) = Append(tables[t] \o o, x)
        <5> DEFINE v == tables[t]
        <5>1. v \in Seq(T) /\ o \in Seq(T) /\ x \in T
          BY <3>1
        <5> HIDE DEF v
        <5>2. v \o Append(o, x) = Append(v \o o, x)
          BY <5>1, JoinedWithMore
        <5>3. QED
          BY <5>2 DEF v
      <4>4. Append(o, x) \in Seq(T) /\ Len(Append(q, x)) = Len(q) + 1
        BY <3>1
      <4>5. Len(RowsTo(m, b, t, p + 1)) = Len(q) + 1
        BY <4>1, <4>4
      <4>6. job'.out[t] \in Seq(T)
        BY <4>1, <4>4
      <4>7. RangeOf(RowsTo(m, b, t, p + 1)) \subseteq RangeOf(tables[t]) \cup RangeOf(job'.out[t])
        BY <3>2, <4>1, <4>2
      <4>8. job.tries = 0 => tables[t] \o job'.out[t] = RowsTo(m, b, t, p + 1)
        BY <3>2, <4>1, <4>3
      <4>9. QED
        BY <3>4, <4>5, <4>6, <4>7, <4>8 DEF T, q
    <3>5. QED
      BY <3>3, <3>4
  <2>6. job'.out \in RowSeqs(m)
    BY <1>3, <1>6, <2>5, RowSeqsBy
  <2>7. JobShape'
    <3>1. job.written \in Nat /\ job.rejected \in Nat /\ job.read \in Nat
          /\ job.tries \in 0..(BundleTries - 1)
      BY <1>3 DEF JobShape
    <3>2. job'.written \in Nat /\ job'.rejected \in Nat /\ job'.read \in Nat
      BY <1>6, <3>1 DEF p
    <3>3. QED
      BY <1>1, <1>3, <1>6, <2>6, <3>1, <3>2 DEF JobShape, Running
  <2>8. LaneShapes' /\ LandingInv' /\ PublishInv'
    BY <1>1, <1>3, <1>6, GoesOn DEF Parsing
  <2>9. FreshInv' /\ DoneInv'
    BY <1>6 DEF FreshInv, DoneInv, Reading
  <2>10. "src" \in Tables /\ "rejects" \in Tables /\ DoorOf("src") = "written"
         /\ DoorOf("rejects") = "rejected"
    BY DEF Tables, DoorOf
  <2>11. /\ job'.written = Len(RowsTo(m, b, "src", p + 1))
         /\ job'.rejected = Len(RowsTo(m, b, "rejects", p + 1))
    BY <1>6, <2>1, <2>5, <2>10
  <2>12. Tallies(job.read)'
    <3>1. /\ mapping' = m /\ job'.bundle = b /\ tables' = tables
          /\ job'.read = p + 1 /\ job'.tries = job.tries
      BY <1>1, <1>6
    <3>2. Recs(mapping', job'.bundle) = r
      BY <3>1 DEF r
    <3> HIDE DEF m, b
    <3>3. job'.todo = SubSeq(r, (p + 1) + 1, Len(r)) /\ p + 1 \in 0..Len(r)
      BY <2>2, <2>3 DEF n
    <3>4. \A t \in Tables :
             /\ RangeOf(RowsTo(mapping', job'.bundle, t, job'.read))
                   \subseteq RangeOf(tables'[t]) \cup RangeOf(job'.out[t])
             /\ job'.tries = 0 =>
                   tables'[t] \o job'.out[t] = RowsTo(mapping', job'.bundle, t, job'.read)
      BY <2>5, <3>1
    <3>5. /\ job'.written = Len(RowsTo(mapping', job'.bundle, "src", job'.read))
          /\ job'.rejected = Len(RowsTo(mapping', job'.bundle, "rejects", job'.read))
      BY <2>11, <3>1
    <3>6. /\ job'.read \in 0..Len(Recs(mapping', job'.bundle))
          /\ job'.todo = SubSeq(Recs(mapping', job'.bundle), job'.read + 1,
                                Len(Recs(mapping', job'.bundle)))
      BY <3>1, <3>2, <3>3
    <3>7. QED
      BY <3>4, <3>5, <3>6 DEF Tallies
  <2>13. QED
    BY <2>7, <2>8, <2>9, <2>12 DEF FileInv, TallyInv
<1>7. DOMAIN job.out = Tables /\ job.out = [src |-> job.out.src, rejects |-> job.out.rejects,
                                            lineage |-> job.out.lineage]
  BY <1>3 DEF JobShape, RowSeqs, Tables
<1>8. CASE /\ outcome.door = "written"
           /\ job' = [job EXCEPT !.todo = Tail(@), !.read = @ + 1, !.written = @ + 1,
                                 !.out.src = Append(@, SrcRow(e))]
  <2>1. /\ DOMAIN job' = DOMAIN job /\ job'.pc = "lines" /\ job'.bundle = b
        /\ job'.todo = Tail(job.todo) /\ job'.read = p + 1 /\ job'.tries = job.tries
        /\ job'.written = job.written + 1 /\ job'.rejected = job.rejected
        /\ job'.out = [job.out EXCEPT !.src = Append(@, SrcRow(e))]
    <3> HIDE DEF e, m, outcome
    <3>1. QED
      BY <1>1, <1>3, <1>8
  <2>2. \A t \in Tables : job'.out[t] = IF DoorOf(t) = "written" THEN Append(job.out[t], RowAt(m, e, t))
                                        ELSE job.out[t]
    <3> HIDE DEF e, m, outcome
    <3>1. QED
      BY <1>7, <2>1 DEF DoorOf, RowAt, Tables
  <2>3. DOMAIN job'.out = Tables /\ job'.out = [t \in Tables |-> job'.out[t]]
    <3> HIDE DEF e, m, outcome
    <3>1. QED
      BY <1>7, <2>1
  <2>4. QED
    <3> HIDE DEF e, m, outcome
    <3>1. QED
      BY <1>6, <1>8, <2>1, <2>2, <2>3
<1>9. CASE /\ outcome.door # "written"
            /\ job' = [job EXCEPT !.todo = Tail(@), !.read = @ + 1, !.rejected = @ + 1,
                                  !.out.rejects = Append(@, RejectRow(outcome)),
                                  !.out.lineage = Append(@, LineageRow(outcome))]
  <2>1. /\ DOMAIN job' = DOMAIN job /\ job'.pc = "lines" /\ job'.bundle = b
        /\ job'.todo = Tail(job.todo) /\ job'.read = p + 1 /\ job'.tries = job.tries
        /\ job'.written = job.written /\ job'.rejected = job.rejected + 1
        /\ job'.out = [job.out EXCEPT !.rejects = Append(@, RejectRow(outcome)),
                                      !.lineage = Append(@, LineageRow(outcome))]
    <3> HIDE DEF e, m, outcome
    <3>1. QED
      BY <1>1, <1>3, <1>9
  <2>2. outcome.door = "rejected"
    BY <1>9 DEF RouteIntake, Outcome
  <2>3. \A t \in Tables : job'.out[t] = IF DoorOf(t) = "rejected" THEN Append(job.out[t], RowAt(m, e, t))
                                        ELSE job.out[t]
    <3> HIDE DEF e, m
    <3>1. QED
      BY <1>7, <2>1 DEF DoorOf, RowAt, Tables
  <2>4. DOMAIN job'.out = Tables /\ job'.out = [t \in Tables |-> job'.out[t]]
    <3> HIDE DEF e, m, outcome
    <3>1. QED
      BY <1>7, <2>1
  <2>5. QED
    <3> HIDE DEF e, m, outcome
    <3>1. QED
      BY <1>6, <2>1, <2>2, <2>3, <2>4
<1>10. QED
  BY <1>2, <1>5, <1>8, <1>9

(* Rows that were held are written: together they stay what they were.     *)
LEMMA WriteKeeps ==
    ASSUME FileInv, NEW w \in Tables, WriteBatch(w)
    PROVE  FileInv'
<1> DEFINE m == mapping
           b == job.bundle
           p == job.read
<1>1. /\ job.pc = "lines"
      /\ tables' = [tables EXCEPT ![w] = tables[w] \o job.out[w]]
      /\ job' = [job EXCEPT !.out[w] = <<>>]
      /\ UNCHANGED <<mapping, extractor, landing, recon, stray, ledger>>
  BY DEF WriteBatch, LaneOnly
<1>2. /\ DOMAIN job = {"pc", "bundle", "todo", "read", "written", "rejected", "out", "tries"}
      /\ JobShape /\ tables \in RowSeqs(m) /\ job.out \in RowSeqs(m)
  BY DEF FileInv, JobShape, LaneShapes
<1>3. /\ Tallies(p)
      /\ \A t \in Tables : /\ job.out[t] \in Seq(RowSet(m, t)) /\ tables[t] \in Seq(RowSet(m, t))
                           /\ RowsTo(m, b, t, p) \in Seq(RowSet(m, t))
  BY <1>1, ParsingParts DEF Parsing
<1>4. /\ DOMAIN job' = DOMAIN job /\ job'.pc = "lines" /\ job'.bundle = b
      /\ job'.todo = job.todo /\ job'.read = p /\ job'.tries = job.tries
      /\ job'.written = job.written /\ job'.rejected = job.rejected
      /\ job'.out = [job.out EXCEPT ![w] = <<>>]
  BY <1>1, <1>2
<1>5. DOMAIN job.out = Tables /\ DOMAIN tables = Tables
  BY <1>2 DEF RowSeqs, Tables
<1>6. \A t \in Tables : /\ job'.out[t] = IF t = w THEN <<>> ELSE job.out[t]
                        /\ tables'[t] = IF t = w THEN tables[t] \o job.out[t] ELSE tables[t]
  BY <1>1, <1>4, <1>5
<1>7. /\ job'.out = [t \in Tables |-> job'.out[t]] /\ DOMAIN job'.out = Tables
      /\ tables' = [t \in Tables |-> tables'[t]] /\ DOMAIN tables' = Tables
  BY <1>1, <1>4, <1>5
<1>8. ASSUME NEW t \in Tables
      PROVE  /\ job'.out[t] \in Seq(RowSet(m, t)) /\ tables'[t] \in Seq(RowSet(m, t))
             /\ tables'[t] \o job'.out[t] = tables[t] \o job.out[t]
             /\ RangeOf(tables'[t]) \cup RangeOf(job'.out[t])
                   = RangeOf(tables[t]) \cup RangeOf(job.out[t])
  <2> DEFINE T == RowSet(m, t)
             v == tables[t]
             o == job.out[t]
  <2>1. v \in Seq(T) /\ o \in Seq(T)
    BY <1>3
  <2> HIDE DEF T, v, o, m
  <2>2. /\ v \o o \in Seq(T) /\ <<>> \in Seq(T) /\ (v \o o) \o <<>> = v \o o
    BY <2>1
  <2>3. RangeOf(<<>>) = {}
    <3>1. DOMAIN <<>> = {}
      OBVIOUS
    <3>2. QED
      BY <3>1 DEF RangeOf
  <2>4. RangeOf(v \o o) = RangeOf(v) \cup RangeOf(o)
    <3>1. CASE o = <<>>
      BY <2>1, <2>3, <3>1
    <3>2. CASE o # <<>>
      <4>1. o[1] \in T
        BY <2>1, <3>2
      <4>2. QED
        BY <2>1, <4>1, RangeOfMore
    <3>3. QED
      BY <3>1, <3>2
  <2>5. CASE t = w
    <3>1. job'.out[t] = <<>> /\ tables'[t] = v \o o
      BY <1>6, <2>5 DEF v, o
    <3>2. QED
      BY <2>2, <2>3, <2>4, <3>1 DEF T, v, o
  <2>6. CASE t # w
    <3>1. job'.out[t] = o /\ tables'[t] = v
      BY <1>6, <2>6 DEF v, o
    <3>2. QED
      BY <2>1, <3>1 DEF T, v, o
  <2>7. QED
    BY <2>5, <2>6
<1>9. job'.out \in RowSeqs(m)
  BY <1>2, <1>7, <1>8, RowSeqsBy
<1>10. tables' \in RowSeqs(m)
  BY <1>2, <1>7, <1>8, RowSeqsBy
<1>11. JobShape'
  BY <1>1, <1>2, <1>4, <1>9 DEF JobShape, Running
<1>12. LaneShapes' /\ LandingInv' /\ PublishInv'
  BY <1>1, <1>4, <1>10, GoesOn DEF Parsing
<1>13. FreshInv' /\ DoneInv'
  BY <1>4 DEF FreshInv, DoneInv, Reading
<1>14. Tallies(job.read)'
  <2>1. mapping' = m /\ job'.bundle = b /\ job'.read = p /\ job'.tries = job.tries
    BY <1>1, <1>4
  <2>2. \A t \in Tables :
           /\ RangeOf(RowsTo(m, b, t, p)) \subseteq RangeOf(tables[t]) \cup RangeOf(job.out[t])
           /\ job.tries = 0 => tables[t] \o job.out[t] = RowsTo(m, b, t, p)
    BY <1>3 DEF Tallies
  <2>3. \A t \in Tables :
           /\ RangeOf(RowsTo(m, b, t, p)) \subseteq RangeOf(tables'[t]) \cup RangeOf(job'.out[t])
           /\ job'.tries = 0 => tables'[t] \o job'.out[t] = RowsTo(m, b, t, p)
    BY <1>8, <2>1, <2>2
  <2>4. /\ p \in 0..Len(Recs(m, b)) /\ job.todo = SubSeq(Recs(m, b), p + 1, Len(Recs(m, b)))
        /\ job.written = Len(RowsTo(m, b, "src", p))
        /\ job.rejected = Len(RowsTo(m, b, "rejects", p))
    BY <1>3 DEF Tallies
  <2> HIDE DEF m, b, p
  <2>5. QED
    BY <1>4, <2>1, <2>3, <2>4 DEF Tallies
<1>15. QED
  BY <1>11, <1>12, <1>13, <1>14 DEF FileInv, TallyInv

(* The job ends, and the ledger takes its counters.                        *)
LEMMA LedgerKeeps ==
    ASSUME FileInv, WriteLedger
    PROVE  FileInv'
<1>1. /\ job.pc = "lines" /\ job.todo = <<>> /\ job.out = NoRows
      /\ ledger' = [srcRead |-> job.read, written |-> job.written, rejected |-> job.rejected]
      /\ job' = [job EXCEPT !.pc = "done"]
      /\ UNCHANGED <<mapping, extractor, landing, recon, stray, tables>>
  BY DEF WriteLedger, LaneOnly
<1>2. /\ DOMAIN job = {"pc", "bundle", "todo", "read", "written", "rejected", "out", "tries"}
      /\ JobShape /\ tables \in RowSeqs(mapping)
  BY DEF FileInv, JobShape, LaneShapes
<1>3. /\ DOMAIN job' = DOMAIN job /\ job'.pc = "done" /\ job'.bundle = job.bundle
      /\ job'.todo = job.todo /\ job'.read = job.read /\ job'.tries = job.tries
      /\ job'.written = job.written /\ job'.rejected = job.rejected /\ job'.out = job.out
  BY <1>1, <1>2
<1>4. Tallies(job.read)
  BY <1>1, ParsingParts DEF Parsing
<1>5. JobShape'
  BY <1>1, <1>2, <1>3 DEF JobShape
<1>6. LaneShapes' /\ LandingInv' /\ PublishInv'
  BY <1>1, <1>2, <1>3, GoesOn DEF Parsing
<1>7. FreshInv' /\ DoneInv'
  BY <1>1, <1>3 DEF FreshInv, DoneInv, Reading
<1>8. TallyInv'
  BY <1>1, <1>3, <1>4 DEF TallyInv, Tallies
<1>9. QED
  BY <1>5, <1>6, <1>7, <1>8 DEF FileInv

(* Every step of the lane keeps the invariant.                             *)
LEMMA FileInvStep == FileInv /\ [Next]_vars => FileInv'
<1> SUFFICES ASSUME FileInv, [Next]_vars PROVE FileInv'
  OBVIOUS
<1>1. CASE (\E source \in Sources : Extract(source)) \/ RaiseFlag \/ ExtractorDies \/ Damage
  BY <1>1, ExtractorKeeps
<1>2. CASE StartAttempt \/ BundleRaises \/ BundleFails \/ PodDies
  BY <1>2, AttemptKeeps
<1>3. CASE ReadBundle
  BY <1>3, ReadKeeps
<1>4. CASE ParseNext
  BY <1>4, ParseKeeps
<1>5. CASE \E t \in {"src", "rejects", "lineage"} : WriteBatch(t)
  BY <1>5, WriteKeeps DEF Tables
<1>6. CASE WriteLedger
  BY <1>6, LedgerKeeps
<1>7. CASE StrayReads
  BY <1>7, StrayKeeps
<1>8. CASE RouterStep \/ UNCHANGED vars
  BY <1>8, RouterStepKeeps
<1>9. StartRouter => RouterStep
  BY DEF StartRouter
<1>10. QED
  BY <1>1, <1>2, <1>3, <1>4, <1>5, <1>6, <1>7, <1>8, <1>9 DEF Next

-----------------------------------------------------------------------------
(* A job that is done has come to the end of its records.                  *)
LEMMA DoneHasAll ==
    ASSUME FileInv, job.pc = "done"
    PROVE  /\ Readable(job.bundle) /\ job.read = Len(Recs(mapping, job.bundle))
           /\ Tallies(Len(Recs(mapping, job.bundle))) /\ job.out = NoRows
           /\ ledger = [srcRead |-> job.read, written |-> job.written, rejected |-> job.rejected]
           /\ \A t \in Tables : tables[t] \in Seq(RowSet(mapping, t))
<1>1. /\ Readable(job.bundle) /\ Tallies(job.read)
      /\ Recs(mapping, job.bundle) \in Seq(Numbered(AllLines))
      /\ \A t \in Tables : tables[t] \in Seq(RowSet(mapping, t))
  BY ParsingParts DEF Parsing
<1>2. job.todo = <<>> /\ job.out = NoRows
      /\ ledger = [srcRead |-> job.read, written |-> job.written, rejected |-> job.rejected]
  BY DEF FileInv, DoneInv, FreshInv
<1>3. job.read = Len(Recs(mapping, job.bundle))
  <2> DEFINE r == Recs(mapping, job.bundle)
  <2>1. /\ r \in Seq(Numbered(AllLines)) /\ job.read \in 0..Len(r)
        /\ SubSeq(r, job.read + 1, Len(r)) = <<>>
    BY <1>1, <1>2 DEF Tallies
  <2> HIDE DEF r
  <2>2. job.read = Len(r)
    BY <2>1, AllTaken
  <2>3. QED
    BY <2>2 DEF r
<1>4. QED
  BY <1>1, <1>2, <1>3

(* The claim of the .RPT is what was read.                                 *)
LEMMA ClaimFromInv == FileInv => ClaimHolds
<1> SUFFICES ASSUME FileInv, job.pc = "done",
                    stray.pc \in {"none", "flag", "get"} \/ stray.bundle = job.bundle
             PROVE  /\ \A a \in DOMAIN recon : recon[a] = job.bundle[a]
                    /\ NoRepeatedHeader(job.bundle) => recon.rpt.recordsWritten = ledger.srcRead
  BY DEF ClaimHolds, Committed
<1>1. DOMAIN recon = {"rpt", "chs", "err"} /\ PublishInv
  BY DEF FileInv, LaneShapes
<1>2. \A a \in DOMAIN recon : recon[a] = job.bundle[a]
  BY <1>1 DEF PublishInv, PublishedAt, Parsing
<1>3. ASSUME NoRepeatedHeader(job.bundle)
      PROVE  recon.rpt.recordsWritten = ledger.srcRead
  <2>1. Readable(job.bundle) /\ ledger.srcRead = Len(Recs(mapping, job.bundle))
    BY DoneHasAll
  <2>2. PICK source \in Sources : MadeOf(job.bundle, source) /\ Verified(job.bundle)
    BY <2>1 DEF Readable, IsBundle
  <2>3. Len(RecordsOf(job.bundle)) = job.bundle.rpt.recordsWritten
    BY <1>3, <2>2, CountsClaimed
  <2>4. RecordsOf(job.bundle) = Recs(mapping, job.bundle)
    BY RecordsAre
  <2>5. recon.rpt = job.bundle.rpt
    BY <1>1, <1>2
  <2>6. QED
    BY <2>1, <2>3, <2>4, <2>5
<1>4. QED
  BY <1>2, <1>3

(* The ledger and the tables agree on the bundle.                          *)
LEMMA LedgerFromInv == FileInv => LedgerIsBacked
<1> SUFFICES ASSUME FileInv, job.pc = "done" PROVE LedgerIsBacked
  BY DEF LedgerIsBacked, Committed
<1> DEFINE m == mapping
           b == job.bundle
           n == Len(Recs(m, b))
           rows == RowsOf(b)
<1>1. /\ Readable(b) /\ job.read = n /\ Tallies(n) /\ job.out = NoRows
      /\ ledger = [srcRead |-> job.read, written |-> job.written, rejected |-> job.rejected]
      /\ \A t \in Tables : tables[t] \in Seq(RowSet(m, t))
  BY DoneHasAll
<1>2. rows = [src |-> RowsTo(m, b, "src", n), rejects |-> RowsTo(m, b, "rejects", n),
              lineage |-> RowsTo(m, b, "lineage", n)]
  BY <1>1, RowsOfIs
<1>3. RecordsOf(b) = Recs(m, b)
  BY RecordsAre
<1>4. /\ job.written = Len(RowsTo(m, b, "src", n)) /\ job.rejected = Len(RowsTo(m, b, "rejects", n))
      /\ \A t \in Tables : RangeOf(RowsTo(m, b, t, n)) \subseteq RangeOf(tables[t]) \cup RangeOf(job.out[t])
      /\ job.tries = 0 => \A t \in Tables : tables[t] \o job.out[t] = RowsTo(m, b, t, n)
  BY <1>1 DEF Tallies
<1>5. tables \in RowSeqs(m)
  BY DEF FileInv, LaneShapes
<1> HIDE DEF m, b, n, rows
<1>6. /\ DOMAIN tables = Tables /\ "src" \in Tables /\ "rejects" \in Tables /\ "lineage" \in Tables
      /\ tables = [src |-> tables["src"], rejects |-> tables["rejects"], lineage |-> tables["lineage"]]
      /\ \A t \in Tables : job.out[t] = <<>>
  BY <1>1, <1>5 DEF RowSeqs, Tables, NoRows
<1>7. \A t \in Tables : rows[t] = RowsTo(m, b, t, n)
  BY <1>2 DEF Tables
<1>8. ASSUME NEW t \in Tables
      PROVE  /\ RangeOf(rows[t]) \subseteq RangeOf(tables[t])
             /\ job.tries = 0 => tables[t] = rows[t]
  <2>1. RangeOf(<<>>) = {}
    <3>1. DOMAIN <<>> = {}
      OBVIOUS
    <3>2. QED
      BY <3>1 DEF RangeOf
  <2> DEFINE v == tables[t]
             T == RowSet(m, t)
  <2>2. v \in Seq(T)
    BY <1>1
  <2> HIDE DEF v, T
  <2>3. v \o <<>> = v
    BY <2>2
  <2>4. tables[t] \o <<>> = tables[t]
    BY <2>3 DEF v
  <2>5. RangeOf(rows[t]) \subseteq RangeOf(tables[t]) \cup {}
    BY <1>4, <1>6, <1>7, <2>1
  <2>6. job.tries = 0 => tables[t] \o <<>> = rows[t]
    BY <1>4, <1>6, <1>7
  <2>7. QED
    BY <2>4, <2>5, <2>6
<1>9. ledger = [srcRead |-> Len(RecordsOf(b)), written |-> Len(rows.src), rejected |-> Len(rows.rejects)]
  <2>1. rows.src = RowsTo(m, b, "src", n) /\ rows.rejects = RowsTo(m, b, "rejects", n)
    BY <1>2
  <2>2. Len(RecordsOf(b)) = job.read
    BY <1>1, <1>3 DEF n
  <2>3. QED
    BY <1>1, <1>4, <2>1, <2>2
<1>10. job.tries = 0 => tables = rows
  <2>1. SUFFICES ASSUME job.tries = 0 PROVE tables = rows
    OBVIOUS
  <2>2. tables["src"] = rows["src"] /\ tables["rejects"] = rows["rejects"]
        /\ tables["lineage"] = rows["lineage"]
    BY <1>6, <1>8, <2>1
  <2>3. rows = [src |-> rows["src"], rejects |-> rows["rejects"], lineage |-> rows["lineage"]]
    BY <1>2
  <2>4. QED
    BY <1>6, <2>2, <2>3
<1>11. \A t \in DOMAIN tables : RangeOf(rows[t]) \subseteq RangeOf(tables[t])
  BY <1>6, <1>8
<1>12. QED
  BY <1>9, <1>10, <1>11 DEF LedgerIsBacked, rows, b

-----------------------------------------------------------------------------
(* What can come into the lists of a batch.                                *)
Routable == {Route(mapping, input[i]).line : i \in Nat}
Rejectable == {[line |-> Route(mapping, input[i]).line,
                reason |-> Route(mapping, input[i]).reason] : i \in Nat}

(* Counters that balance and count the lists beside them.                  *)
Tallied(e) ==
    /\ Balances(e)
    /\ e.written = Len(e.documents)
    /\ e.rejected = Len(e.rejects)

Entry == {e \in [srcRead : Nat, written : Nat, rejected : Nat,
                 documents : Seq(Routable), rejects : Seq(Rejectable)] : Tallied(e)}

HeapInv ==
    /\ next \in Nat
    /\ object \in Seq(Entry)
    /\ current \in 1..Len(object)
    /\ generator # "exhausted" => Len(object[current].documents) < BatchSize

HeldInv ==
    /\ yielded \in Seq([id : Nat, entry : Nat])
    /\ \A b \in 1..Len(yielded) :
          /\ yielded[b].id = b - 1
          /\ yielded[b].entry \in 1..current
          /\ b < Len(yielded) \/ generator # "exhausted" =>
                /\ yielded[b].entry < current
                /\ Len(object[yielded[b].entry].documents) = BatchSize

RouterInv == HeapInv /\ HeldInv

-----------------------------------------------------------------------------
(* A batch that is made is an entry of the heap.                           *)
LEMMA EmptyIsEntry == Empty \in Entry
<1>1. <<>> \in Seq(Routable) /\ <<>> \in Seq(Rejectable) /\ Len(<<>>) = 0
  OBVIOUS
<1>2. QED
  BY <1>1 DEF Empty, Entry, Tallied, Balances

(* One more line in a batch.                                               *)
LEMMA CountedIsEntry ==
    ASSUME NEW e \in Entry, NEW i \in Nat
    PROVE  LET batch == Counted(e, Route(mapping, input[i]))
           IN  /\ batch \in Entry
               /\ Len(batch.documents) <= Len(e.documents) + 1
<1> DEFINE outcome == Route(mapping, input[i])
           batch == Counted(e, outcome)
           reject == [line |-> outcome.line, reason |-> outcome.reason]
<1>1. outcome.line \in Routable /\ reject \in Rejectable
  BY DEF Routable, Rejectable
<1>2. /\ e \in [srcRead : Nat, written : Nat, rejected : Nat,
                documents : Seq(Routable), rejects : Seq(Rejectable)]
      /\ e.srcRead = e.written + e.rejected
      /\ e.written = Len(e.documents) /\ e.rejected = Len(e.rejects)
  BY DEF Entry, Tallied, Balances
<1>0. /\ e.srcRead \in Nat /\ e.written \in Nat /\ e.rejected \in Nat
      /\ e.documents \in Seq(Routable) /\ e.rejects \in Seq(Rejectable)
  BY <1>2
<1> HIDE DEF outcome, reject
<1>3. /\ Append(e.documents, outcome.line) \in Seq(Routable)
      /\ Len(Append(e.documents, outcome.line)) = Len(e.documents) + 1
      /\ Append(e.rejects, reject) \in Seq(Rejectable)
      /\ Len(Append(e.rejects, reject)) = Len(e.rejects) + 1
  BY <1>1, <1>2
<1>4. CASE outcome.door = "written"
  <2>1. batch = [e EXCEPT !.srcRead = e.srcRead + 1, !.written = e.written + 1,
                          !.documents = Append(e.documents, outcome.line)]
    BY <1>2, <1>4 DEF Counted
  <2>2. batch = [srcRead |-> e.srcRead + 1, written |-> e.written + 1, rejected |-> e.rejected,
                 documents |-> Append(e.documents, outcome.line), rejects |-> e.rejects]
    BY <1>2, <2>1
  <2>3. e.srcRead + 1 \in Nat /\ e.written + 1 \in Nat
    BY <1>0
  <2>4. batch \in [srcRead : Nat, written : Nat, rejected : Nat,
                   documents : Seq(Routable), rejects : Seq(Rejectable)]
    BY <1>0, <1>3, <2>2, <2>3
  <2>5. e.srcRead + 1 = e.written + 1 + e.rejected
    BY <1>0, <1>2
  <2>6. Tallied(batch)
    <3>1. /\ batch.srcRead = e.srcRead + 1 /\ batch.written = e.written + 1
          /\ batch.rejected = e.rejected /\ batch.rejects = e.rejects
          /\ batch.documents = Append(e.documents, outcome.line)
      BY <2>2
    <3>2. QED
      BY <1>2, <1>3, <2>5, <3>1 DEF Tallied, Balances
  <2>7. Len(batch.documents) <= Len(e.documents) + 1
    BY <1>0, <1>3, <2>2
  <2>8. QED
    BY <2>4, <2>6, <2>7 DEF Entry, outcome
<1>5. CASE outcome.door # "written"
  <2>1. batch = [e EXCEPT !.srcRead = e.srcRead + 1, !.rejected = e.rejected + 1,
                          !.rejects = Append(e.rejects, reject)]
    BY <1>2, <1>5 DEF Counted, reject
  <2>2. batch = [srcRead |-> e.srcRead + 1, written |-> e.written, rejected |-> e.rejected + 1,
                 documents |-> e.documents, rejects |-> Append(e.rejects, reject)]
    BY <1>2, <2>1
  <2>3. e.srcRead + 1 \in Nat /\ e.rejected + 1 \in Nat
    BY <1>0
  <2>4. batch \in [srcRead : Nat, written : Nat, rejected : Nat,
                   documents : Seq(Routable), rejects : Seq(Rejectable)]
    BY <1>0, <1>3, <2>2, <2>3
  <2>5. e.srcRead + 1 = e.written + (e.rejected + 1)
    BY <1>0, <1>2
  <2>6. Tallied(batch)
    <3>1. /\ batch.srcRead = e.srcRead + 1 /\ batch.rejected = e.rejected + 1
          /\ batch.written = e.written /\ batch.documents = e.documents
          /\ batch.rejects = Append(e.rejects, reject)
      BY <2>2
    <3>2. QED
      BY <1>2, <1>3, <2>5, <3>1 DEF Tallied, Balances
  <2>7. Len(batch.documents) <= Len(e.documents) + 1
    BY <1>0, <1>3, <2>2
  <2>8. QED
    BY <2>4, <2>6, <2>7 DEF Entry, outcome
<1>6. QED
  BY <1>4, <1>5

(* The steps that leave what there is in the heap alone.                   *)
LEMMA SameEntries ==
    ASSUME UNCHANGED <<mapping, input>>
    PROVE  Entry' = Entry
  BY DEF Entry, Routable, Rejectable, Tallied, Balances

-----------------------------------------------------------------------------
(* Nothing has been read or held.                                          *)
LEMMA RouterInvInit == Init => RouterInv
<1> SUFFICES ASSUME Init PROVE RouterInv
  OBVIOUS
<1>1. /\ next = 1 /\ object = <<Empty>> /\ current = 1
      /\ yielded = <<>> /\ generator = "unstarted"
  BY DEF Init, BatchInit
<1>2. object \in Seq(Entry) /\ Len(object) = 1 /\ object[1] = Empty
  BY <1>1, EmptyIsEntry
<1>3. Len(Empty.documents) = 0
  BY DEF Empty
<1>4. HeapInv
  BY <1>1, <1>2, <1>3, BatchSizeIsPositive DEF HeapInv
<1>5. HeldInv
  BY <1>1 DEF HeldInv
<1>6. QED
  BY <1>4, <1>5 DEF RouterInv

(* The first lines: nothing has been read or yielded.                      *)
LEMMA StartKeeps ==
    ASSUME RouterInv, NEW lines, StartBatches(lines), UNCHANGED mapping,
           object = <<Empty>>
    PROVE  RouterInv'
<1>1. /\ generator = "unstarted" /\ generator' = "running"
      /\ UNCHANGED <<next, object, current, yielded>>
  BY DEF StartBatches
<1>2. (Empty \in Entry)'
  BY EmptyIsEntry, PTL
<1>3. object' \in Seq(Entry')
  BY <1>1, <1>2 DEF Empty
<1>4. QED
  BY <1>1, <1>3 DEF RouterInv, HeapInv, HeldInv

(* A line goes into the batch at hand.                                     *)
LEMMA RouteKeeps ==
    ASSUME RouterInv, RouteNext, UNCHANGED mapping
    PROVE  RouterInv' /\ \A b \in DOMAIN yielded : Batch(b)' = Batch(b)
<1> DEFINE batch == Counted(object[current], Route(mapping, input[next]))
<1>1. /\ generator = "running" /\ next' = next + 1 /\ UNCHANGED <<input, generator, mapping>>
      /\ IF IsFull(batch) THEN Yield(batch)
         ELSE object' = [object EXCEPT ![current] = batch] /\ UNCHANGED <<current, yielded>>
  BY DEF RouteNext
<1>2. /\ next \in Nat /\ object \in Seq(Entry) /\ current \in 1..Len(object)
      /\ Len(object[current].documents) < BatchSize
  BY <1>1 DEF RouterInv, HeapInv
<1>3. object[current] \in Entry
  BY <1>2
<1>4. batch \in Entry /\ Len(batch.documents) <= Len(object[current].documents) + 1
  BY <1>2, <1>3, CountedIsEntry
<1> HIDE DEF batch
<1>5. Entry' = Entry
  BY <1>1, SameEntries
<1>6. /\ yielded \in Seq([id : Nat, entry : Nat])
      /\ DOMAIN yielded = 1..Len(yielded)
      /\ \A b \in 1..Len(yielded) :
            /\ yielded[b].id = b - 1
            /\ yielded[b].entry \in 1..current
            /\ yielded[b].entry < current
            /\ Len(object[yielded[b].entry].documents) = BatchSize
  BY <1>1 DEF RouterInv, HeldInv
<1>7. /\ Len(batch.documents) \in Nat /\ Len(object[current].documents) \in Nat
      /\ BatchSize \in Nat \ {0} /\ Len(object) \in Nat /\ Len(yielded) \in Nat /\ current \in Nat
  <2>1. \A e \in Entry : Len(e.documents) \in Nat
    BY DEF Entry
  <2>2. Len(object) \in Nat /\ current \in Nat /\ Len(yielded) \in Nat
    BY <1>2, <1>6
  <2>3. QED
    BY <1>3, <1>4, <2>1, <2>2, BatchSizeIsPositive
<1> DEFINE heap == [object EXCEPT ![current] = batch]
<1>8. /\ heap \in Seq(Entry) /\ Len(heap) = Len(object) /\ heap[current] = batch
      /\ \A i \in 1..Len(object) : i # current => heap[i] = object[i]
  BY <1>2, <1>4
<1> HIDE DEF heap
<1>9. CASE ~IsFull(batch)
  <2>1. object' = heap /\ UNCHANGED <<current, yielded>>
    BY <1>1, <1>9 DEF heap
  <2>2. Len(batch.documents) < BatchSize
    BY <1>7, <1>9 DEF IsFull
  <2>3. \A b \in 1..Len(yielded) : object'[yielded[b].entry] = object[yielded[b].entry]
    BY <1>2, <1>6, <1>7, <1>8, <2>1
  <2>4. HeapInv'
    BY <1>1, <1>2, <1>5, <1>8, <2>1, <2>2 DEF HeapInv
  <2>5. HeldInv'
    BY <1>1, <1>6, <2>1, <2>3 DEF HeldInv
  <2>6. QED
    BY <1>6, <2>1, <2>3, <2>4, <2>5 DEF RouterInv, Batch
<1>10. CASE IsFull(batch)
  <2>1. /\ yielded' = Append(yielded, [id |-> Len(yielded), entry |-> current])
        /\ object' = Append(heap, Empty)
        /\ current' = Len(object) + 1
    BY <1>1, <1>10 DEF Yield, heap
  <2>2. Len(batch.documents) = BatchSize
    BY <1>2, <1>4, <1>7, <1>10 DEF IsFull
  <2>3. /\ object' \in Seq(Entry) /\ Len(object') = Len(object) + 1
        /\ object'[Len(object) + 1] = Empty
        /\ \A i \in 1..Len(object) : object'[i] = heap[i]
    BY <1>7, <1>8, <2>1, EmptyIsEntry
  <2>4. /\ yielded' \in Seq([id : Nat, entry : Nat]) /\ Len(yielded') = Len(yielded) + 1
        /\ yielded'[Len(yielded) + 1] = [id |-> Len(yielded), entry |-> current]
        /\ \A b \in 1..Len(yielded) : yielded'[b] = yielded[b]
    BY <1>6, <1>7, <2>1
  <2>5. \A b \in 1..Len(yielded) : object'[yielded[b].entry] = object[yielded[b].entry]
    BY <1>2, <1>6, <1>7, <1>8, <2>3
  <2>6. HeapInv'
    <3>1. Len(Empty.documents) = 0
      BY DEF Empty
    <3>2. current' \in 1..Len(object')
      BY <1>7, <2>1, <2>3
    <3>3. object'[current'] = Empty
      BY <2>1, <2>3
    <3>4. next' \in Nat
      BY <1>1, <1>2
    <3>5. QED
      BY <1>5, <1>7, <2>3, <3>1, <3>2, <3>3, <3>4 DEF HeapInv
  <2>7. HeldInv'
    <3>1. SUFFICES ASSUME NEW b \in 1..(Len(yielded) + 1)
                   PROVE  /\ yielded'[b].id = b - 1
                          /\ yielded'[b].entry \in 1..current'
                          /\ yielded'[b].entry < current'
                          /\ Len(object'[yielded'[b].entry].documents) = BatchSize
      BY <2>4 DEF HeldInv
    <3>2. CASE b \in 1..Len(yielded)
      <4>1. /\ yielded'[b].id = b - 1
            /\ yielded'[b].entry \in 1..current /\ yielded'[b].entry = yielded[b].entry
        BY <1>6, <2>4, <3>2
      <4>2. \A k \in 1..current : k \in 1..current' /\ k < current'
        BY <1>2, <1>7, <2>1
      <4>3. Len(object'[yielded'[b].entry].documents) = BatchSize
        BY <1>6, <2>5, <3>2, <4>1
      <4>4. QED
        BY <4>1, <4>2, <4>3
    <3>3. CASE b = Len(yielded) + 1
      <4>1. yielded'[b].id = Len(yielded) /\ yielded'[b].entry = current
        BY <2>4, <3>3
      <4>2. object'[current] = batch
        BY <1>2, <1>8, <2>3
      <4>3. current \in 1..current' /\ current < current' /\ Len(yielded) = b - 1
        BY <1>2, <1>7, <2>1, <3>3
      <4>4. Len(object'[yielded'[b].entry].documents) = BatchSize
        BY <2>2, <4>1, <4>2
      <4>5. QED
        BY <4>1, <4>3, <4>4
    <3>4. QED
      BY <1>7, <3>2, <3>3
  <2>8. QED
    <3>1. \A b \in DOMAIN yielded : object'[yielded'[b].entry] = object[yielded[b].entry]
      BY <1>6, <2>4, <2>5
    <3>2. QED
      BY <2>6, <2>7, <3>1 DEF RouterInv, Batch
<1>11. QED
  BY <1>9, <1>10

(* The tail.                                                               *)
LEMMA EndKeeps ==
    ASSUME RouterInv, EndOfInput, UNCHANGED mapping
    PROVE  RouterInv' /\ \A b \in DOMAIN yielded : Batch(b)' = Batch(b)
<1>1. /\ generator = "running" /\ generator' = "exhausted"
      /\ UNCHANGED <<mapping, input, next, object, current>>
  BY DEF EndOfInput
<1>0. \/ yielded' = yielded
      \/ yielded' = Append(yielded, [id |-> Len(yielded), entry |-> current])
  BY DEF EndOfInput
<1>2. Entry' = Entry
  BY <1>1, SameEntries
<1>3. HeapInv'
  BY <1>1, <1>2 DEF RouterInv, HeapInv
<1>4. /\ yielded \in Seq([id : Nat, entry : Nat]) /\ Len(yielded) \in Nat
      /\ DOMAIN yielded = 1..Len(yielded)
      /\ \A b \in 1..Len(yielded) :
            /\ yielded[b].id = b - 1
            /\ yielded[b].entry \in 1..current
            /\ yielded[b].entry < current
            /\ Len(object[yielded[b].entry].documents) = BatchSize
  BY <1>1 DEF RouterInv, HeldInv
<1>5. CASE yielded' = yielded
  BY <1>1, <1>3, <1>4, <1>5 DEF RouterInv, HeldInv, Batch
<1>6. CASE yielded' = Append(yielded, [id |-> Len(yielded), entry |-> current])
  <2>1. current \in 1..current /\ current \in Nat
    BY DEF RouterInv, HeapInv
  <2>2. /\ yielded' \in Seq([id : Nat, entry : Nat]) /\ Len(yielded') = Len(yielded) + 1
        /\ yielded'[Len(yielded) + 1] = [id |-> Len(yielded), entry |-> current]
        /\ \A b \in 1..Len(yielded) : yielded'[b] = yielded[b]
    BY <1>4, <1>6, <2>1
  <2>3. HeldInv'
    <3>1. SUFFICES ASSUME NEW b \in 1..(Len(yielded) + 1)
                   PROVE  /\ yielded'[b].id = b - 1
                          /\ yielded'[b].entry \in 1..current
                          /\ b < Len(yielded) + 1 =>
                                /\ yielded'[b].entry < current
                                /\ Len(object[yielded'[b].entry].documents) = BatchSize
      BY <1>1, <2>2 DEF HeldInv
    <3>2. CASE b \in 1..Len(yielded)
      BY <1>4, <2>2, <3>2
    <3>3. CASE b = Len(yielded) + 1
      <4>1. yielded'[b].id = Len(yielded) /\ yielded'[b].entry = current
        BY <2>2, <3>3
      <4>2. QED
        BY <1>4, <2>1, <3>3, <4>1
    <3>4. QED
      BY <1>4, <3>2, <3>3
  <2>4. \A b \in DOMAIN yielded : object'[yielded'[b].entry] = object[yielded[b].entry]
    BY <1>1, <1>4, <2>2
  <2>5. QED
    BY <1>3, <2>3, <2>4 DEF RouterInv, Batch
<1>7. QED
  BY <1>0, <1>5, <1>6

(* What the router does not touch.                                         *)
LEMMA QuietKeeps ==
    ASSUME RouterInv, UNCHANGED <<mapping, input, object, current, yielded>>,
           next' \in Nat, generator' = "exhausted" <=> generator = "exhausted"
    PROVE  RouterInv' /\ \A b \in DOMAIN yielded : Batch(b)' = Batch(b)
<1>1. Entry' = Entry
  BY SameEntries
<1>2. HeapInv'
  BY <1>1 DEF RouterInv, HeapInv
<1>3. HeldInv'
  BY DEF RouterInv, HeldInv
<1>4. QED
  BY <1>2, <1>3 DEF RouterInv, Batch

-----------------------------------------------------------------------------
(* Before the router starts its heap is as it was made.                    *)
Untouched == generator = "unstarted" => object = <<Empty>> /\ yielded = <<>>

RouterHeap == RouterInv /\ Untouched

Kept == \A b \in DOMAIN yielded : Batch(b)' = Batch(b)

(* The heap as the program makes it.                                       *)
LEMMA RouterHeapInit == Init => RouterHeap
<1> SUFFICES ASSUME Init PROVE RouterHeap
  OBVIOUS
<1>1. object = <<Empty>> /\ yielded = <<>>
  BY DEF Init, BatchInit
<1>2. QED
  BY <1>1, RouterInvInit DEF RouterHeap, Untouched

(* A step is the lane's, or one of the router's.                           *)
LEMMA StepIsOneOf ==
    ASSUME Next
    PROVE  \/ LaneOnly
           \/ StartRouter
           \/ SkipLine /\ RouterStep
           \/ RouteNext /\ RouterStep
           \/ RouteRaises /\ RouterStep
           \/ EndOfInput /\ RouterStep
<1>1. \A source \in Sources : Extract(source) => LaneOnly
  BY DEF Extract
<1>2. \A t \in {"src", "rejects", "lineage"} : WriteBatch(t) => LaneOnly
  BY DEF WriteBatch
<1>3. RaiseFlag \/ ExtractorDies \/ Damage \/ StartAttempt => LaneOnly
  BY DEF RaiseFlag, ExtractorDies, Damage, StartAttempt
<1>4. ReadBundle \/ ParseNext \/ BundleRaises \/ BundleFails => LaneOnly
  BY DEF ReadBundle, ParseNext, BundleRaises, BundleFails
<1>5. WriteLedger \/ PodDies \/ StrayReads => LaneOnly
  BY DEF WriteLedger, PodDies, StrayReads
<1>6. QED
  BY <1>1, <1>2, <1>3, <1>4, <1>5 DEF Next

(* Every step keeps the heap, and the batches in it that are held.         *)
LEMMA RouterHeapStep == RouterHeap /\ [Next]_vars => RouterHeap' /\ Kept
<1> SUFFICES ASSUME RouterHeap, [Next]_vars
             PROVE  RouterHeap' /\ Kept
  OBVIOUS
<1>1. RouterInv /\ next \in Nat
  BY DEF RouterHeap, RouterInv, HeapInv
<1>2. CASE UNCHANGED <<mapping, batchVars>>
  <2>1. UNCHANGED <<mapping, input, next, object, current, yielded, generator>>
    BY <1>2 DEF batchVars
  <2>2. RouterInv' /\ Kept
    BY <1>1, <2>1, QuietKeeps DEF Kept
  <2>3. QED
    BY <2>1, <2>2 DEF RouterHeap, Untouched, Empty
<1>3. CASE StartRouter
  <2>1. PICK lines : StartBatches(lines)
    BY <1>3 DEF StartRouter
  <2>2. UNCHANGED mapping
    BY <1>3 DEF StartRouter, RouterStep
  <2>3. /\ generator = "unstarted" /\ generator' = "running"
        /\ UNCHANGED <<object, yielded>>
    BY <2>1 DEF StartBatches
  <2>4. object = <<Empty>> /\ yielded = <<>>
    BY <2>3 DEF RouterHeap, Untouched
  <2>5. RouterInv'
    BY <1>1, <2>1, <2>2, <2>4, StartKeeps
  <2>6. QED
    BY <2>3, <2>5 DEF RouterHeap, Untouched, Kept, Batch
<1>4. CASE SkipLine /\ RouterStep
  <2>1. /\ generator = "running" /\ next' = next + 1
        /\ UNCHANGED <<mapping, input, object, current, yielded, generator>>
    BY <1>4 DEF SkipLine, RouterStep
  <2>2. QED
    BY <1>1, <2>1, QuietKeeps DEF RouterHeap, Untouched, Kept
<1>5. CASE RouteNext /\ RouterStep
  <2>1. generator = "running" /\ UNCHANGED <<mapping, generator>>
    BY <1>5 DEF RouteNext, RouterStep
  <2>2. QED
    BY <1>1, <1>5, <2>1, RouteKeeps DEF RouterHeap, Untouched, Kept
<1>6. CASE RouteRaises /\ RouterStep
  <2>1. /\ generator = "running" /\ generator' = "raised"
        /\ UNCHANGED <<mapping, input, next, object, current, yielded>>
    BY <1>6 DEF RouteRaises, RouterStep
  <2>2. QED
    BY <1>1, <2>1, QuietKeeps DEF RouterHeap, Untouched, Kept
<1>7. CASE EndOfInput /\ RouterStep
  <2>1. generator' = "exhausted" /\ UNCHANGED mapping
    BY <1>7 DEF EndOfInput, RouterStep
  <2>2. QED
    BY <1>1, <1>7, <2>1, EndKeeps DEF RouterHeap, Untouched, Kept
<1>8. CASE LaneOnly
  BY <1>2, <1>8 DEF LaneOnly
<1>9. CASE UNCHANGED vars
  BY <1>2, <1>9 DEF vars
<1>10. CASE Next
  BY <1>3, <1>4, <1>5, <1>6, <1>7, <1>8, <1>10, StepIsOneOf
<1>11. QED
  BY <1>9, <1>10

(* The equations follow from the entries.                                  *)
LEMMA RouterInvCloses == RouterInv => BatchesClose
<1> SUFFICES ASSUME RouterInv PROVE BatchesClose
  OBVIOUS
<1>1. /\ object \in Seq(Entry) /\ current \in 1..Len(object)
      /\ yielded \in Seq([id : Nat, entry : Nat])
  BY DEF RouterInv, HeapInv, HeldInv
<1>2. DOMAIN yielded = 1..Len(yielded)
  BY <1>1
<1>3. \A b \in 1..Len(yielded) : Batch(b) \in Entry
  <2>1. \A b \in 1..Len(yielded) : yielded[b].entry \in 1..Len(object)
    BY <1>1 DEF RouterInv, HeldInv
  <2>2. QED
    BY <1>1, <2>1 DEF Batch
<1>4. \A b \in 1..Len(yielded) : Tallied(Batch(b))
  BY <1>3 DEF Entry
<1>5. QED
  BY <1>2, <1>4 DEF BatchesClose, Tallied, RouterInv, HeldInv, Batch

(* A batch handed to the consumer of run_batches never changes under it:   *)
(* the generator rebinds its names to new counters and lists.              *)
THEOREM RouterBatchesStable == Spec => YieldedBatchesStable
<1>1. RouterHeap /\ [Next]_vars => [\A b \in DOMAIN yielded : Batch(b)' = Batch(b)]_<<object, yielded>>
  BY RouterHeapStep DEF Kept
<1>2. QED
  BY <1>1, RouterHeapInit, RouterHeapStep, PTL DEF Spec, YieldedBatchesStable

(* Every batch that run_batches yields closes its own equation, and every  *)
(* one but the tail holds exactly BatchSize documents, whatever the lines  *)
(* and whatever was rejected among them.                                   *)
THEOREM RouterBatchesClose == Spec => []BatchesClose
<1>1. RouterHeap => BatchesClose
  BY RouterInvCloses DEF RouterHeap
<1>2. QED
  BY <1>1, RouterHeapInit, RouterHeapStep, PTL DEF Spec

-----------------------------------------------------------------------------
(* The lines that the router has routed to a door, and how they are cut.   *)

Routing(m, in, door) ==
    {i \in 1..Len(in) : ~(IsBlank(in[i]) \/ IsHeader(m, in[i])) /\ Route(m, in[i]).door = door}
RoutedUpTo(m, in, door, p) == ElementsAt(in, Routing(m, in, door) \cap (1..p))

Offset(c) == (c - 1) * BatchSize

(* The documents of n entries, laid end to end, are w; all but the last    *)
(* entry are full.                                                         *)
DocsCut(w, heap, n) ==
    /\ w \in Seq(AllLines)
    /\ \A c \in 1..n : heap[c].documents \in Seq(AllLines)
    /\ \A c \in 1..n : \A k \in 1..Len(heap[c].documents) :
          heap[c].documents[k] = w[Offset(c) + k]
    /\ \A c \in 1..(n - 1) : Len(heap[c].documents) = BatchSize
    /\ Len(heap[n].documents) <= BatchSize
    /\ Len(w) = Offset(n) + Len(heap[n].documents)

(* Their rejects, laid end to end, are r.                                  *)
LinesIn(rejects) == [k \in DOMAIN rejects |-> rejects[k].line]
RejectLines(heap, n) == [c \in 1..n |-> LinesIn(heap[c].rejects)]
RejectsLaid(r, heap, n) ==
    /\ \A c \in 1..n : LinesIn(heap[c].rejects) \in Seq(AllLines)
    /\ r = FlattenSeq(RejectLines(heap, n - 1)) \o LinesIn(heap[n].rejects)

(* Where the entries begin.                                                *)
LEMMA Offsets ==
    ASSUME NEW n \in Nat \ {0}
    PROVE  /\ Offset(1) = 0
           /\ Offset(n) \in Nat /\ Offset(n + 1) = Offset(n) + BatchSize
           /\ \A c \in 1..(n - 1) : Offset(c) \in Nat /\ Offset(c) + BatchSize <= Offset(n)
<1> DEFINE S == BatchSize
<1>1. S \in Nat
  BY BatchSizeIsPositive
<1> HIDE DEF S
<1>2. 0 * S = 0 /\ (1 - 1) * S = 0 * S
  BY <1>1
<1>3. \A c \in 1..n : (c - 1) * S \in Nat
  BY <1>1
<1>4. ((n + 1) - 1) * S = (n - 1) * S + S
  BY <1>1
<1>5. ASSUME NEW c \in 1..(n - 1) PROVE (c - 1) * S + S <= (n - 1) * S
  <2> DEFINE i == c - 1
             j == n - 1
  <2>1. i \in Nat /\ j \in Nat /\ i + 1 \in Nat /\ i + 1 <= j
    OBVIOUS
  <2> HIDE DEF i, j
  <2>2. (i + 1) * S <= j * S
    <3> DEFINE a == i + 1
    <3>1. a \in Nat /\ a <= j
      BY <2>1
    <3> HIDE DEF a
    <3>2. a * S <= j * S
      BY <1>1, <2>1, <3>1, Multiples
    <3>3. QED
      BY <3>2 DEF a
  <2>3. (i + 1) * S = i * S + S
    BY <1>1, <2>1, Multiples
  <2>4. QED
    BY <2>2, <2>3 DEF i, j
<1>6. QED
  BY <1>2, <1>3, <1>4, <1>5 DEF Offset, S

(* One more written line.                                                  *)
LEMMA DocsGrow ==
    ASSUME NEW w, NEW heap, NEW n \in Nat \ {0}, DocsCut(w, heap, n),
           Len(heap[n].documents) < BatchSize, NEW x \in AllLines,
           NEW h, h[n].documents = Append(heap[n].documents, x),
           \A c \in 1..(n - 1) : h[c].documents = heap[c].documents
    PROVE  DocsCut(Append(w, x), h, n)
<1> DEFINE v == Append(w, x)
           d == heap[n].documents
           L == AllLines
<1>1. /\ w \in Seq(L) /\ d \in Seq(L) /\ x \in L /\ Len(w) = Offset(n) + Len(d)
      /\ Len(d) < BatchSize /\ BatchSize \in Nat
      /\ \A k \in 1..Len(d) : d[k] = w[Offset(n) + k]
  BY BatchSizeIsPositive DEF DocsCut
<1>2. /\ Offset(n) \in Nat
      /\ \A c \in 1..(n - 1) : Offset(c) \in Nat /\ Offset(c) + BatchSize <= Offset(n)
  BY Offsets
<1> HIDE DEF L
<1>3. /\ v \in Seq(L) /\ Len(v) = Len(w) + 1 /\ v[Len(w) + 1] = x
      /\ \A i \in 1..Len(w) : v[i] = w[i]
  BY <1>1
<1>4. /\ h[n].documents \in Seq(L) /\ Len(h[n].documents) = Len(d) + 1
      /\ h[n].documents[Len(d) + 1] = x
      /\ \A i \in 1..Len(d) : h[n].documents[i] = d[i]
  BY <1>1
<1> HIDE DEF v
<1>5. Len(d) \in Nat /\ Len(w) \in Nat
  BY <1>1
<1> HIDE DEF d
<1> DEFINE e == Len(d)
           l == Len(w)
           o == Offset(n)
           B == BatchSize
<1>5a. e \in Nat /\ l \in Nat /\ o \in Nat /\ B \in Nat /\ l = o + e /\ e < B
  BY <1>1, <1>2, <1>5
<1>5b. l + 1 = o + (e + 1) /\ e + 1 <= B
  <2> HIDE DEF e, l, o, B
  <2>1. QED
    BY <1>5a
<1>6. ASSUME NEW c \in 1..(n - 1)
      PROVE  /\ h[c].documents \in Seq(L) /\ Len(h[c].documents) = BatchSize
             /\ \A k \in 1..Len(h[c].documents) : h[c].documents[k] = v[Offset(c) + k]
  <2>1. /\ heap[c].documents \in Seq(L) /\ Len(heap[c].documents) = BatchSize
        /\ \A k \in 1..BatchSize : heap[c].documents[k] = w[Offset(c) + k]
    BY DEF DocsCut, L
  <2>2. \A k \in 1..BatchSize : Offset(c) + k \in 1..Len(w)
    <3> DEFINE a == Offset(c)
    <3>1. a \in Nat /\ a + B <= o
      BY <1>2
    <3> HIDE DEF a, e, l, o, B
    <3>2. \A k \in 1..B : a + k \in 1..l
      BY <1>5a, <3>1
    <3>3. QED
      BY <3>2 DEF a, l, B
  <2>3. QED
    BY <1>3, <2>1, <2>2
<1>7. ASSUME NEW k \in 1..(Len(d) + 1)
      PROVE  h[n].documents[k] = v[Offset(n) + k]
  <2>1. CASE k \in 1..Len(d)
    <3>1. Offset(n) + k \in 1..Len(w)
      <4>1. k \in 1..e
        BY <2>1
      <4> HIDE DEF e, l, o, B
      <4>2. o + k \in 1..l
        BY <1>5a, <4>1
      <4>3. QED
        BY <4>2 DEF o, l
    <3>2. QED
      BY <1>1, <1>3, <1>4, <2>1, <3>1
  <2>2. CASE k = Len(d) + 1
    <3>1. Offset(n) + k = Len(w) + 1
      BY <1>5b, <2>2
    <3>2. QED
      BY <1>3, <1>4, <2>2, <3>1
  <2>3. k \in 1..e \/ k = e + 1
    <3> HIDE DEF e
    <3>1. k \in 1..(e + 1)
      BY DEF e
    <3>2. QED
      BY <1>5a, <3>1
  <2>4. QED
    BY <2>1, <2>2, <2>3
<1>8. \A c \in 1..n : c \in 1..(n - 1) \/ c = n
  OBVIOUS
<1>9. \A c \in 1..n : h[c].documents \in Seq(L)
  BY <1>4, <1>6, <1>8
<1>10. \A c \in 1..n : \A k \in 1..Len(h[c].documents) : h[c].documents[k] = v[Offset(c) + k]
  BY <1>4, <1>6, <1>7, <1>8
<1>11. Len(h[n].documents) <= BatchSize /\ Len(v) = Offset(n) + Len(h[n].documents)
  BY <1>3, <1>4, <1>5b
<1>12. QED
  BY <1>3, <1>6, <1>9, <1>10, <1>11 DEF DocsCut, L, v, d

(* A full entry, and an empty one behind it.                               *)
LEMMA DocsNext ==
    ASSUME NEW w, NEW heap, NEW n \in Nat \ {0}, DocsCut(w, heap, n),
           Len(heap[n].documents) = BatchSize,
           NEW h, h[n + 1].documents = <<>>,
           \A c \in 1..n : h[c].documents = heap[c].documents
    PROVE  DocsCut(w, h, n + 1)
<1>1. /\ Offset(n + 1) = Offset(n) + BatchSize /\ BatchSize \in Nat
      /\ Len(w) = Offset(n) + BatchSize
  BY Offsets, BatchSizeIsPositive DEF DocsCut
<1>2. <<>> \in Seq(AllLines) /\ Len(<<>>) = 0
  OBVIOUS
<1>3. (n + 1) - 1 = n /\ \A c \in 1..(n + 1) : c \in 1..n \/ c = n + 1
  OBVIOUS
<1>4. \A c \in 1..n : c \in 1..(n - 1) \/ c = n
  OBVIOUS
<1>5. \A c \in 1..n : /\ h[c].documents \in Seq(AllLines) /\ Len(h[c].documents) = BatchSize
                      /\ \A k \in 1..Len(h[c].documents) : h[c].documents[k] = w[Offset(c) + k]
  <2> SUFFICES ASSUME NEW c \in 1..n
               PROVE  /\ h[c].documents \in Seq(AllLines) /\ Len(h[c].documents) = BatchSize
                      /\ \A k \in 1..Len(h[c].documents) : h[c].documents[k] = w[Offset(c) + k]
    OBVIOUS
  <2> DEFINE d == heap[c].documents
  <2>1. h[c].documents = d
    OBVIOUS
  <2>2. d \in Seq(AllLines) /\ \A k \in 1..Len(d) : d[k] = w[Offset(c) + k]
    BY DEF DocsCut
  <2>3. Len(d) = BatchSize
    BY <1>4 DEF DocsCut
  <2> HIDE DEF d
  <2>4. QED
    BY <2>1, <2>2, <2>3
<1>6. \A c \in 1..(n + 1) : h[c].documents \in Seq(AllLines)
  BY <1>2, <1>3, <1>5
<1>7. \A c \in 1..(n + 1) : \A k \in 1..Len(h[c].documents) : h[c].documents[k] = w[Offset(c) + k]
  <2>1. 1..Len(h[n + 1].documents) = {}
    BY <1>2
  <2>2. QED
    BY <1>3, <1>5, <2>1
<1>8. Len(w) = Offset(n + 1) + Len(h[n + 1].documents) /\ Len(h[n + 1].documents) <= BatchSize
  <2>1. Offset(n) \in Nat
    BY Offsets
  <2>2. QED
    BY <1>1, <1>2, <2>1
<1>9. w \in Seq(AllLines)
  BY DEF DocsCut
<1>10. QED
  BY <1>3, <1>5, <1>6, <1>7, <1>8, <1>9 DEF DocsCut

(* One more rejected line.                                                 *)
LEMMA RejectsGrow ==
    ASSUME NEW r, NEW heap, NEW n \in Nat \ {0}, RejectsLaid(r, heap, n), NEW x \in AllLines,
           NEW h, LinesIn(h[n].rejects) = Append(LinesIn(heap[n].rejects), x),
           \A c \in 1..(n - 1) : h[c].rejects = heap[c].rejects
    PROVE  RejectsLaid(Append(r, x), h, n)
<1> DEFINE L == AllLines
           s == RejectLines(heap, n - 1)
           a == LinesIn(heap[n].rejects)
<1>1. a \in Seq(L) /\ \A c \in 1..(n - 1) : LinesIn(heap[c].rejects) \in Seq(L)
  BY DEF RejectsLaid
<1>2. s \in Seq(Seq(L)) /\ <<>> \in Seq(L)
  BY <1>1 DEF RejectLines
<1>3. RejectLines(h, n - 1) = s
  BY DEF RejectLines
<1>4. r = FlattenSeq(s) \o a
  BY DEF RejectsLaid
<1> HIDE DEF L, s, a
<1>5. FlattenSeq(s) \in Seq(L)
  BY <1>2, FlattenAppend
<1>6. FlattenSeq(s) \o Append(a, x) = Append(r, x)
  <2> DEFINE f == FlattenSeq(s)
  <2>1. f \in Seq(L) /\ x \in L
    BY <1>5 DEF L
  <2> HIDE DEF f
  <2>2. f \o Append(a, x) = Append(f \o a, x)
    BY <1>1, <2>1, JoinedWithMore
  <2>3. QED
    BY <1>4, <2>2 DEF f
<1>7. Append(a, x) \in Seq(L)
  BY <1>1 DEF L
<1>8. \A c \in 1..n : LinesIn(h[c].rejects) \in Seq(L)
  <2>1. \A c \in 1..n : c \in 1..(n - 1) \/ c = n
    OBVIOUS
  <2>2. QED
    BY <1>1, <1>7, <2>1 DEF a
<1>9. QED
  BY <1>3, <1>6, <1>8 DEF RejectsLaid, L, a

(* The rejects of one entry more.                                          *)
LEMMA RejectLinesGrow ==
    ASSUME NEW heap, NEW n \in Nat \ {0},
           \A c \in 1..n : LinesIn(heap[c].rejects) \in Seq(AllLines)
    PROVE  /\ RejectLines(heap, n) = Append(RejectLines(heap, n - 1), LinesIn(heap[n].rejects))
           /\ FlattenSeq(RejectLines(heap, n))
                 = FlattenSeq(RejectLines(heap, n - 1)) \o LinesIn(heap[n].rejects)
           /\ FlattenSeq(RejectLines(heap, n)) \in Seq(AllLines)
           /\ FlattenSeq(RejectLines(heap, n - 1)) \in Seq(AllLines)
<1> DEFINE L == AllLines
           s == RejectLines(heap, n - 1)
           a == LinesIn(heap[n].rejects)
           u == RejectLines(heap, n)
           Q == Seq(L)
           v == Append(s, a)
<1>1. s \in Seq(Q) /\ Len(s) = n - 1 /\ \A c \in 1..(n - 1) : s[c] = LinesIn(heap[c].rejects)
  BY DEF RejectLines
<1>2. u \in Seq(Q) /\ Len(u) = n /\ \A c \in 1..n : u[c] = LinesIn(heap[c].rejects)
  BY DEF RejectLines
<1>3. a \in Q /\ u[n] = a /\ \A c \in 1..(n - 1) : u[c] = s[c]
  BY <1>1, <1>2
<1> HIDE DEF s, a, u, Q
<1>4. v \in Seq(Q) /\ Len(v) = n /\ v[n] = a /\ \A c \in 1..(n - 1) : v[c] = s[c]
  BY <1>1, <1>3
<1> HIDE DEF v
<1>5. \A c \in 1..n : u[c] = v[c]
  <2>1. \A c \in 1..n : c \in 1..(n - 1) \/ c = n
    OBVIOUS
  <2>2. QED
    BY <1>3, <1>4, <2>1
<1>6. u = v
  BY <1>2, <1>4, <1>5, SameLengthSamePlaces
<1>7. FlattenSeq(v) = FlattenSeq(s) \o a /\ FlattenSeq(s) \in Seq(L) /\ FlattenSeq(u) \in Seq(L)
  <2>1. s \in Seq(Seq(L)) /\ a \in Seq(L) /\ u \in Seq(Seq(L)) /\ <<>> \in Seq(L)
    BY <1>1, <1>2, <1>3 DEF Q
  <2> HIDE DEF L
  <2>2. FlattenSeq(s) \in Seq(L) /\ FlattenSeq(Append(s, a)) = FlattenSeq(s) \o a
    BY <2>1, FlattenAppend
  <2>3. FlattenSeq(u) \in Seq(L)
    BY <2>1, FlattenAppend
  <2>4. QED
    BY <2>2, <2>3 DEF v
<1>8. QED
  BY <1>6, <1>7 DEF s, a, u, v, L

(* An entry without rejects behind the others.                             *)
LEMMA RejectsNext ==
    ASSUME NEW r, NEW heap, NEW n \in Nat \ {0}, RejectsLaid(r, heap, n),
           NEW h, h[n + 1].rejects = <<>>,
           \A c \in 1..n : h[c].rejects = heap[c].rejects
    PROVE  RejectsLaid(r, h, n + 1)
<1> DEFINE L == AllLines
           u == RejectLines(heap, n)
           f == FlattenSeq(u)
<1>1. \A c \in 1..n : LinesIn(heap[c].rejects) \in Seq(L)
  BY DEF RejectsLaid
<1>2. f = r /\ f \in Seq(L)
  BY <1>1, RejectLinesGrow DEF RejectsLaid
<1>3. RejectLines(h, n) = u
  BY DEF RejectLines
<1>4. LinesIn(<<>>) = <<>>
  BY DEF LinesIn
<1> HIDE DEF L, u
<1>5. r = FlattenSeq(RejectLines(h, (n + 1) - 1)) \o LinesIn(h[n + 1].rejects)
  <2>1. (n + 1) - 1 = n
    OBVIOUS
  <2> HIDE DEF f
  <2>2. f \o <<>> = f
    BY <1>2
  <2>3. QED
    BY <1>2, <1>3, <1>4, <2>1, <2>2 DEF f
<1>6. \A c \in 1..(n + 1) : LinesIn(h[c].rejects) \in Seq(L)
  <2>1. <<>> \in Seq(L) /\ \A c \in 1..(n + 1) : c \in 1..n \/ c = n + 1
    OBVIOUS
  <2>2. QED
    BY <1>1, <1>4, <2>1
<1>7. QED
  BY <1>5, <1>6 DEF RejectsLaid, L


(* Entries that hold the same documents, or the same rejects.              *)
LEMMA SameCuts ==
    ASSUME NEW heap, NEW n \in Nat \ {0}, NEW h
    PROVE  /\ \A w : DocsCut(w, heap, n)
                     /\ (\A c \in 1..n : h[c].documents = heap[c].documents) => DocsCut(w, h, n)
           /\ \A r : RejectsLaid(r, heap, n)
                     /\ (\A c \in 1..n : h[c].rejects = heap[c].rejects) => RejectsLaid(r, h, n)
<1>1. n \in 1..n /\ \A c \in 1..(n - 1) : c \in 1..n
  OBVIOUS
<1>2. ASSUME NEW w, DocsCut(w, heap, n), \A c \in 1..n : h[c].documents = heap[c].documents
      PROVE  DocsCut(w, h, n)
  BY <1>1, <1>2 DEF DocsCut
<1>3. ASSUME NEW r, RejectsLaid(r, heap, n), \A c \in 1..n : h[c].rejects = heap[c].rejects
      PROVE  RejectsLaid(r, h, n)
  <2>1. RejectLines(h, n - 1) = RejectLines(heap, n - 1)
    BY <1>1, <1>3 DEF RejectLines
  <2>2. QED
    BY <1>1, <1>3, <2>1 DEF RejectsLaid
<1>4. QED
  BY <1>2, <1>3

(* The next line goes to its door, or is skipped.                          *)
LEMMA LineRouted ==
    ASSUME NEW m, NEW in \in Seq(AllLines), NEW p \in 1..Len(in), NEW door
    PROVE  /\ p \in Routing(m, in, door) =>
                 RoutedUpTo(m, in, door, p) = Append(RoutedUpTo(m, in, door, p - 1), in[p])
           /\ p \notin Routing(m, in, door) =>
                 RoutedUpTo(m, in, door, p) = RoutedUpTo(m, in, door, p - 1)
           /\ RoutedUpTo(m, in, door, 0) = <<>>
<1> DEFINE places == Routing(m, in, door)
<1>1. Len(in) \in Nat
  OBVIOUS
<1> HIDE DEF places
<1>2. p \in places => ElementsAt(in, places \cap (1..p))
                         = Append(ElementsAt(in, places \cap (1..(p - 1))), in[p])
  BY <1>1, NextPlace
<1>3. p \notin places => ElementsAt(in, places \cap (1..p)) = ElementsAt(in, places \cap (1..(p - 1)))
  BY <1>1, NextPlace
<1>4. ElementsAt(in, places \cap (1..0)) = <<>>
  BY <1>1, NoPlaces
<1>5. QED
  BY <1>2, <1>3, <1>4 DEF RoutedUpTo, places

(* Before the first line none has been routed.                             *)
LEMMA NoneRouted ==
    ASSUME NEW m, NEW in \in Seq(AllLines), NEW door
    PROVE  RoutedUpTo(m, in, door, 0) = <<>>
<1> DEFINE places == Routing(m, in, door)
<1>1. Len(in) \in Nat
  OBVIOUS
<1> HIDE DEF places
<1>2. ElementsAt(in, places \cap (1..0)) = <<>>
  BY <1>1, NoPlaces
<1>3. QED
  BY <1>2 DEF RoutedUpTo, places

(* An outcome is about its line, and names one of the two doors.           *)
LEMMA RouteAbout == \A m, line : Route(m, line).line = line /\ Route(m, line).door \in Doors
<1>1. \A line, reason : Outcome(line, reason).line = line /\ Outcome(line, reason).door \in Doors
  BY DEF Outcome, Doors
<1>2. QED
  BY <1>1 DEF Route, RouteIntake

(* The lines of one more reject.                                           *)
LEMMA LinesOfMore ==
    ASSUME NEW T, NEW s \in Seq(T), NEW e \in T, NEW x \in AllLines, e.line = x,
           LinesIn(s) \in Seq(AllLines)
    PROVE  LinesIn(Append(s, e)) = Append(LinesIn(s), x)
<1> DEFINE L == AllLines
           n == Len(s)
           a == LinesIn(s)
           v == Append(s, e)
           b == LinesIn(v)
           d == Append(a, x)
<1>1. n \in Nat /\ DOMAIN s = 1..n
  OBVIOUS
<1>2. a = [k \in 1..n |-> s[k].line]
  BY <1>1 DEF LinesIn
<1>3. a \in Seq(L) /\ Len(a) = n
  BY <1>1, <1>2
<1>4. DOMAIN v = 1..(n + 1) /\ v[n + 1] = e /\ \A k \in 1..n : v[k] = s[k]
  OBVIOUS
<1> HIDE DEF v, n, L
<1>5. b = [k \in 1..(n + 1) |-> v[k].line]
  BY <1>4 DEF LinesIn
<1> HIDE DEF b
<1>6. b[n + 1] = x /\ \A k \in 1..n : b[k] = a[k]
  BY <1>1, <1>2, <1>4, <1>5
<1> HIDE DEF a
<1>7. d \in Seq(L) /\ Len(d) = n + 1 /\ d[n + 1] = x /\ \A k \in 1..n : d[k] = a[k]
  BY <1>1, <1>3 DEF L
<1> HIDE DEF d
<1>8. \A k \in 1..(n + 1) : b[k] = d[k]
  <2>1. \A k \in 1..(n + 1) : k \in 1..n \/ k = n + 1
    BY <1>1
  <2>2. QED
    BY <1>6, <1>7, <2>1
<1>9. b \in Seq(L) /\ Len(b) = n + 1
  <2>1. \A k \in 1..(n + 1) : d[k] \in L
    BY <1>1, <1>7
  <2>2. \A k \in 1..(n + 1) : v[k].line \in L
    BY <1>5, <1>8, <2>1
  <2>3. QED
    BY <1>1, <1>5, <2>2
<1>10. b = d
  BY <1>7, <1>8, <1>9, SameLengthSamePlaces
<1>11. QED
  BY <1>10 DEF a, b, d, v

(* What a line that is counted adds to its batch.                          *)
LEMMA CountedAdds ==
    ASSUME NEW e \in Entry, NEW i \in Nat, input[i] \in AllLines,
           LinesIn(e.rejects) \in Seq(AllLines)
    PROVE  LET outcome == Route(mapping, input[i])
               batch == Counted(e, outcome)
           IN  /\ outcome.door = "written" =>
                     batch.documents = Append(e.documents, input[i]) /\ batch.rejects = e.rejects
               /\ outcome.door # "written" =>
                     /\ batch.documents = e.documents
                     /\ LinesIn(batch.rejects) = Append(LinesIn(e.rejects), input[i])
<1> DEFINE outcome == Route(mapping, input[i])
           batch == Counted(e, outcome)
           reject == [line |-> outcome.line, reason |-> outcome.reason]
<1>1. /\ DOMAIN e = {"srcRead", "written", "rejected", "documents", "rejects"}
      /\ e.rejects \in Seq(Rejectable) /\ reject \in Rejectable
  BY DEF Entry, Rejectable
<1>2. outcome.line = input[i] /\ reject.line = input[i]
  BY RouteAbout
<1>3. LinesIn(Append(e.rejects, reject)) = Append(LinesIn(e.rejects), input[i])
  <2> DEFINE x == input[i]
             s == e.rejects
             T == Rejectable
  <2>1. reject \in T /\ s \in Seq(T) /\ x \in AllLines /\ reject.line = x
        /\ LinesIn(s) \in Seq(AllLines)
    BY <1>1, <1>2
  <2> HIDE DEF x, reject, outcome, s, T
  <2>2. LinesIn(Append(s, reject)) = Append(LinesIn(s), x)
    BY <2>1, LinesOfMore
  <2>3. QED
    BY <2>2 DEF x, s
<1> HIDE DEF outcome
<1>4. outcome.door = "written" =>
         batch.documents = Append(e.documents, outcome.line) /\ batch.rejects = e.rejects
  BY <1>1 DEF Counted
<1>5. outcome.door # "written" =>
         batch.documents = e.documents /\ batch.rejects = Append(e.rejects, reject)
  BY <1>1 DEF Counted
<1>6. QED
  BY <1>2, <1>3, <1>4, <1>5 DEF outcome

-----------------------------------------------------------------------------
(* The inductive invariant of the router over the lines.                   *)

RouterShape ==
    /\ generator \in {"unstarted", "running", "exhausted", "raised"}
    /\ input \in Seq(AllLines)
    /\ next \in 1..(Len(input) + 1)
    /\ generator = "unstarted" => next = 1

(* The consumer holds every entry but the one at hand, and in the end that *)
(* one too, unless nothing has come into it.                               *)
HeldInOrder ==
    /\ \A b \in 1..Len(yielded) : yielded[b].entry = b
    /\ generator # "exhausted" => Len(yielded) = current - 1
    /\ generator = "exhausted" =>
          \/ Len(yielded) = current
          \/ Len(yielded) = current - 1 /\ object[current].srcRead = 0

CutAt(m, in, p, heap, n) ==
    /\ Len(heap) = n
    /\ DocsCut(RoutedUpTo(m, in, "written", p), heap, n)
    /\ RejectsLaid(RoutedUpTo(m, in, "rejected", p), heap, n)

CutInv ==
    /\ RouterShape
    /\ HeldInOrder
    /\ CutAt(mapping, input, next - 1, object, current)

(* It holds of no lines.                                                   *)
LEMMA CutInvInit == Init => CutInv
<1> SUFFICES ASSUME Init PROVE CutInv
  OBVIOUS
<1>1. /\ input = <<>> /\ next = 1 /\ object = <<Empty>> /\ current = 1
      /\ yielded = <<>> /\ generator = "unstarted"
  BY DEF Init, BatchInit
<1>2. <<>> \in Seq(AllLines) /\ Len(<<>>) = 0 /\ <<>> \in Seq(Seq(AllLines))
  OBVIOUS
<1>3. \A door : RoutedUpTo(mapping, input, door, 0) = <<>>
  BY <1>1, <1>2, NoneRouted
<1>4. Empty.documents = <<>> /\ Empty.rejects = <<>> /\ object[1] = Empty /\ Len(object) = 1
  BY <1>1 DEF Empty
<1>5. Offset(1) = 0
  BY Offsets
<1>6. DocsCut(<<>>, object, 1)
  <2>1. \A c \in 1..1 : c = 1
    OBVIOUS
  <2>2. 1..(1 - 1) = {} /\ 1..0 = {}
    OBVIOUS
  <2>3. object[1].documents = <<>> /\ Len(object[1].documents) = 0 /\ BatchSize \in Nat
    BY <1>2, <1>4, BatchSizeIsPositive
  <2>4. \A c \in 1..1 : \A k \in 1..Len(object[c].documents) :
           object[c].documents[k] = (<<>>)[Offset(c) + k]
    BY <2>1, <2>2, <2>3
  <2>5. \A c \in 1..(1 - 1) : Len(object[c].documents) = BatchSize
    BY <2>2
  <2>6. Len(<<>>) = Offset(1) + Len(object[1].documents) /\ Len(object[1].documents) <= BatchSize
    BY <1>2, <1>5, <2>3
  <2>7. \A c \in 1..1 : object[c].documents \in Seq(AllLines)
    BY <1>2, <2>1, <2>3
  <2>8. QED
    BY <1>2, <2>4, <2>5, <2>6, <2>7 DEF DocsCut
<1>7. RejectsLaid(<<>>, object, 1)
  <2>1. LinesIn(<<>>) = <<>> /\ RejectLines(object, 1 - 1) = <<>>
    BY DEF LinesIn, RejectLines
  <2>2. FlattenSeq(<<>>) = <<>>
    <3>1. PICK f : f[0] = <<>> /\ f[Len(<<>>)] = FlattenSeq(<<>>)
      BY <1>2, Flattening
    <3>2. QED
      BY <1>2, <3>1
  <2>3. \A c \in 1..1 : c = 1
    OBVIOUS
  <2>4. <<>> \o <<>> = <<>>
    OBVIOUS
  <2>5. QED
    BY <1>2, <1>4, <2>1, <2>2, <2>3, <2>4 DEF RejectsLaid
<1>8. RouterShape /\ HeldInOrder
  BY <1>1, <1>2 DEF RouterShape, HeldInOrder
<1>9. CutAt(mapping, input, next - 1, object, current)
  <2>1. next - 1 = 0
    BY <1>1
  <2>2. QED
    BY <1>1, <1>3, <1>4, <1>6, <1>7, <2>1 DEF CutAt
<1>10. QED
  BY <1>8, <1>9 DEF CutInv


(* A line that is skipped is routed to no door.                            *)
LEMMA SkipCut ==
    ASSUME CutInv, SkipLine, UNCHANGED mapping
    PROVE  CutInv'
<1>1. /\ generator = "running" /\ next <= Len(input) /\ Skipped(input[next])
      /\ next' = next + 1
      /\ UNCHANGED <<mapping, input, object, current, yielded, generator>>
  BY DEF SkipLine
<1>2. input \in Seq(AllLines) /\ next \in 1..Len(input) /\ Len(input) \in Nat
  BY <1>1 DEF CutInv, RouterShape
<1>3. \A door : next \notin Routing(mapping, input, door)
  BY <1>1 DEF Skipped, Routing
<1>4. \A door : RoutedUpTo(mapping, input, door, next) = RoutedUpTo(mapping, input, door, next - 1)
  BY <1>2, <1>3, LineRouted
<1>5. next' - 1 = next /\ next' \in 1..(Len(input) + 1)
  BY <1>1, <1>2
<1>6. CutAt(mapping, input, next, object, current)
  BY <1>4 DEF CutInv, CutAt
<1>7. RouterShape' /\ HeldInOrder'
  BY <1>1, <1>5 DEF CutInv, RouterShape, HeldInOrder
<1>8. QED
  BY <1>1, <1>5, <1>6, <1>7 DEF CutInv

(* The batch at hand takes its line.                                       *)
LEMMA CountedCut ==
    ASSUME CutInv, RouterInv, generator = "running", next \in 1..Len(input), ~Skipped(input[next])
    PROVE  LET batch == Counted(object[current], Route(mapping, input[next]))
           IN  CutAt(mapping, input, next, [object EXCEPT ![current] = batch], current)
<1> DEFINE batch == Counted(object[current], Route(mapping, input[next]))
           heap == [object EXCEPT ![current] = batch]
           n == current
           x == input[next]
           written(p) == RoutedUpTo(mapping, input, "written", p)
           rejected(p) == RoutedUpTo(mapping, input, "rejected", p)
           door == Route(mapping, input[next]).door
<1>1. /\ object \in Seq(Entry) /\ n \in 1..Len(object) /\ Len(object) = n
      /\ Len(object[n].documents) < BatchSize
  BY DEF RouterInv, HeapInv, CutInv, CutAt
<1>2. /\ DocsCut(written(next - 1), object, n) /\ RejectsLaid(rejected(next - 1), object, n)
      /\ input \in Seq(AllLines)
  BY DEF CutInv, CutAt, RouterShape
<1>3. x \in AllLines /\ next \in Nat /\ object[n] \in Entry /\ n \in Nat \ {0}
  <2>1. x \in AllLines
    BY <1>2
  <2>2. Len(object) \in Nat
    BY <1>1
  <2>3. QED
    BY <1>1, <2>1, <2>2
<1>4. LinesIn(object[n].rejects) \in Seq(AllLines)
  BY <1>2, <1>3 DEF RejectsLaid
<1>5. /\ door = "written" =>
            batch.documents = Append(object[n].documents, x) /\ batch.rejects = object[n].rejects
      /\ door # "written" =>
            /\ batch.documents = object[n].documents
            /\ LinesIn(batch.rejects) = Append(LinesIn(object[n].rejects), x)
  BY <1>3, <1>4, CountedAdds
<1>6. door = "written" \/ door = "rejected"
  BY RouteAbout DEF Doors
<1>7. /\ next \in Routing(mapping, input, "written") <=> door = "written"
      /\ next \in Routing(mapping, input, "rejected") <=> door = "rejected"
  BY DEF Routing, Skipped
<1>8. /\ door = "written" => written(next) = Append(written(next - 1), x)
      /\ door # "written" => written(next) = written(next - 1)
  BY <1>2, <1>7, LineRouted
<1>9. /\ door = "rejected" => rejected(next) = Append(rejected(next - 1), x)
      /\ door # "rejected" => rejected(next) = rejected(next - 1)
  BY <1>2, <1>7, LineRouted
<1> HIDE DEF batch, door
<1>10. /\ Len(heap) = n /\ heap[n] = batch
       /\ \A c \in 1..(n - 1) : heap[c] = object[c]
  <2>1. DOMAIN object = 1..n /\ DOMAIN heap = 1..n
    BY <1>1
  <2>2. QED
    BY <1>1, <1>3, <2>1
<1> HIDE DEF heap, x
<1>11. \A c \in 1..n : c \in 1..(n - 1) \/ c = n
  BY <1>3
<1> DEFINE w == written(next - 1)
           r == rejected(next - 1)
<1>12. DocsCut(w, object, n) /\ RejectsLaid(r, object, n)
  BY <1>2
<1>13. CASE door = "written"
  <2>1. written(next) = Append(w, x) /\ rejected(next) = r
    BY <1>8, <1>9, <1>13
  <2>2. heap[n].documents = Append(object[n].documents, x) /\ heap[n].rejects = object[n].rejects
    BY <1>5, <1>10, <1>13
  <2> HIDE DEF w, r
  <2>3. DocsCut(Append(w, x), heap, n)
    BY <1>1, <1>3, <1>10, <1>12, <2>2, DocsGrow
  <2>4. \A c \in 1..n : heap[c].rejects = object[c].rejects
    BY <1>10, <1>11, <2>2
  <2>5. RejectsLaid(r, heap, n)
    BY <1>3, <1>12, <2>4, SameCuts
  <2>6. QED
    BY <1>10, <2>1, <2>3, <2>5 DEF CutAt, heap, batch
<1>14. CASE door # "written"
  <2>1. written(next) = w /\ rejected(next) = Append(r, x)
    BY <1>6, <1>8, <1>9, <1>14
  <2>2. /\ heap[n].documents = object[n].documents
        /\ LinesIn(heap[n].rejects) = Append(LinesIn(object[n].rejects), x)
    BY <1>5, <1>10, <1>14
  <2> HIDE DEF w, r
  <2>3. \A c \in 1..n : heap[c].documents = object[c].documents
    BY <1>10, <1>11, <2>2
  <2>4. DocsCut(w, heap, n)
    BY <1>3, <1>12, <2>3, SameCuts
  <2>5. \A c \in 1..(n - 1) : heap[c].rejects = object[c].rejects
    BY <1>10
  <2>6. RejectsLaid(Append(r, x), heap, n)
    BY <1>3, <1>12, <2>2, <2>5, RejectsGrow
  <2>7. QED
    BY <1>10, <2>1, <2>4, <2>6 DEF CutAt, heap, batch
<1>15. QED
  BY <1>13, <1>14

(* A line is routed, and the batch handed over when it is full.            *)
LEMMA RouteCut ==
    ASSUME CutInv, RouterInv, RouteNext, UNCHANGED mapping
    PROVE  CutInv'
<1> DEFINE batch == Counted(object[current], Route(mapping, input[next]))
           heap == [object EXCEPT ![current] = batch]
<1>1. /\ generator = "running" /\ next <= Len(input) /\ ~Skipped(input[next])
      /\ next' = next + 1 /\ UNCHANGED <<mapping, input, generator>>
      /\ IF IsFull(batch) THEN Yield(batch)
         ELSE object' = heap /\ UNCHANGED <<current, yielded>>
  BY DEF RouteNext
<1>2. /\ input \in Seq(AllLines) /\ next \in 1..Len(input) /\ Len(input) \in Nat
      /\ RouterShape /\ HeldInOrder /\ Len(object) = current
  BY <1>1 DEF CutInv, RouterShape, CutAt
<1>3. next' - 1 = next /\ next' \in 1..(Len(input) + 1)
  BY <1>1, <1>2
<1>4. CutAt(mapping, input, next, heap, current)
  BY <1>1, <1>2, CountedCut
<1>5. /\ object \in Seq(Entry) /\ current \in 1..Len(object)
      /\ Len(object[current].documents) < BatchSize
      /\ yielded \in Seq([id : Nat, entry : Nat])
  BY <1>1 DEF RouterInv, HeapInv, HeldInv
<1>6. RouterShape'
  BY <1>1, <1>2, <1>3 DEF RouterShape
<1>7. Len(yielded) = current - 1 /\ \A b \in 1..Len(yielded) : yielded[b].entry = b
  BY <1>1, <1>2 DEF HeldInOrder
<1>8. heap \in Seq(Entry) /\ Len(heap) = current /\ heap[current] = batch /\ current \in Nat \ {0}
  <2>1. object[current] \in Entry /\ next \in Nat
    BY <1>2, <1>5
  <2>2. batch \in Entry
    BY <2>1, CountedIsEntry
  <2> HIDE DEF batch
  <2>3. Len(object) \in Nat
    BY <1>5
  <2>4. QED
    BY <1>2, <1>5, <2>2, <2>3
<1>9. CASE ~IsFull(batch)
  <2>1. object' = heap /\ current' = current /\ yielded' = yielded
    BY <1>1, <1>9
  <2> HIDE DEF heap, batch
  <2>2. HeldInOrder'
    BY <1>1, <1>2, <2>1 DEF HeldInOrder
  <2>3. CutAt(mapping, input, next, object', current')
    BY <1>4, <2>1
  <2>4. QED
    BY <1>1, <1>3, <1>6, <2>2, <2>3 DEF CutInv
<1>10. CASE IsFull(batch)
  <2>1. /\ yielded' = Append(yielded, [id |-> Len(yielded), entry |-> current])
        /\ object' = Append(heap, Empty)
        /\ current' = current + 1
    BY <1>1, <1>2, <1>10 DEF Yield
  <2> HIDE DEF heap
  <2>2. Len(heap[current].documents) = BatchSize
    <3>1. DocsCut(RoutedUpTo(mapping, input, "written", next), heap, current)
      BY <1>4 DEF CutAt
    <3>2. Len(heap[current].documents) <= BatchSize
      BY <3>1 DEF DocsCut
    <3>3. Len(heap[current].documents) >= BatchSize
      BY <1>8, <1>10 DEF IsFull
    <3>4. Len(heap[current].documents) \in Nat /\ BatchSize \in Nat
      <4>1. heap[current].documents \in Seq(AllLines)
        BY <1>8, <3>1 DEF DocsCut
      <4>2. QED
        BY <4>1, BatchSizeIsPositive
    <3>5. QED
      BY <3>2, <3>3, <3>4
  <2> HIDE DEF batch
  <2>3. /\ Len(object') = current + 1 /\ object'[current + 1] = Empty
        /\ \A c \in 1..current : object'[c] = heap[c]
    BY <1>8, <2>1, EmptyIsEntry
  <2>4. Empty.documents = <<>> /\ Empty.rejects = <<>>
    BY DEF Empty
  <2>5. CutAt(mapping, input, next, object', current + 1)
    <3> DEFINE w == RoutedUpTo(mapping, input, "written", next)
               r == RoutedUpTo(mapping, input, "rejected", next)
               n == current
    <3>1. DocsCut(w, heap, n) /\ RejectsLaid(r, heap, n)
      BY <1>4 DEF CutAt
    <3>2. /\ object'[n + 1].documents = <<>> /\ object'[n + 1].rejects = <<>>
          /\ \A c \in 1..n : object'[c].documents = heap[c].documents
          /\ \A c \in 1..n : object'[c].rejects = heap[c].rejects
      BY <2>3, <2>4
    <3>3. n \in Nat \ {0} /\ Len(heap[n].documents) = BatchSize
      BY <1>8, <2>2
    <3> HIDE DEF w, r, n
    <3>4. DocsCut(w, object', n + 1)
      BY <3>1, <3>2, <3>3, DocsNext
    <3>5. RejectsLaid(r, object', n + 1)
      BY <3>1, <3>2, <3>3, RejectsNext
    <3>6. QED
      BY <2>3, <3>4, <3>5 DEF CutAt, w, r, n
  <2>6. HeldInOrder'
    <3>1. /\ Len(yielded') = Len(yielded) + 1 /\ Len(yielded) \in Nat
          /\ yielded'[Len(yielded) + 1].entry = current
          /\ \A b \in 1..Len(yielded) : yielded'[b] = yielded[b]
      BY <1>5, <2>1
    <3>2. Len(yielded') = current' - 1 /\ Len(yielded) + 1 = current
      BY <1>7, <1>8, <2>1, <3>1
    <3>3. \A b \in 1..Len(yielded') : b \in 1..Len(yielded) \/ b = Len(yielded) + 1
      BY <3>1
    <3>4. \A b \in 1..Len(yielded') : yielded'[b].entry = b
      BY <1>7, <3>1, <3>2, <3>3
    <3>5. generator' # "exhausted"
      BY <1>1
    <3>6. QED
      BY <3>2, <3>4, <3>5 DEF HeldInOrder
  <2>7. QED
    BY <1>1, <1>3, <1>6, <2>1, <2>5, <2>6 DEF CutInv
<1>11. QED
  BY <1>9, <1>10

(* The tail is handed over unless nothing has come into it.                *)
LEMMA EndCut ==
    ASSUME CutInv, RouterInv, EndOfInput, UNCHANGED mapping
    PROVE  CutInv'
<1>1. /\ generator = "running" /\ generator' = "exhausted"
      /\ UNCHANGED <<mapping, input, next, object, current>>
      /\ yielded' = IF HasTail THEN Append(yielded, [id |-> Len(yielded), entry |-> current])
                               ELSE yielded
  BY DEF EndOfInput
<1>2. /\ Len(yielded) = current - 1 /\ \A b \in 1..Len(yielded) : yielded[b].entry = b
      /\ yielded \in Seq([id : Nat, entry : Nat]) /\ current \in Nat
  BY <1>1 DEF CutInv, HeldInOrder, RouterInv, HeapInv, HeldInv
<1>3. HeldInOrder'
  <2>1. CASE ~HasTail
    <3>1. yielded' = yielded /\ object'[current'].srcRead = 0 /\ current' = current
      BY <1>1, <2>1 DEF HasTail
    <3>2. QED
      BY <1>1, <1>2, <3>1 DEF HeldInOrder
  <2>2. CASE HasTail
    <3>1. yielded' = Append(yielded, [id |-> Len(yielded), entry |-> current])
      BY <1>1, <2>2
    <3>2. /\ Len(yielded') = Len(yielded) + 1 /\ Len(yielded) \in Nat
          /\ yielded'[Len(yielded) + 1].entry = current
          /\ \A b \in 1..Len(yielded) : yielded'[b] = yielded[b]
      BY <1>2, <3>1
    <3>3. Len(yielded') = current /\ Len(yielded) + 1 = current
      BY <1>2, <3>2
    <3>4. \A b \in 1..Len(yielded') : b \in 1..Len(yielded) \/ b = Len(yielded) + 1
      BY <3>2
    <3>5. \A b \in 1..Len(yielded') : yielded'[b].entry = b
      BY <1>2, <3>2, <3>3, <3>4
    <3>6. QED
      BY <1>1, <3>3, <3>5 DEF HeldInOrder
  <2>3. QED
    BY <2>1, <2>2
<1>4. RouterShape'
  BY <1>1 DEF CutInv, RouterShape
<1>5. QED
  BY <1>1, <1>3, <1>4 DEF CutInv

(* The lines that the job has read are lines.                              *)
LEMMA StartCut ==
    ASSUME CutInv, FileInv, Untouched, StartRouter
    PROVE  CutInv'
<1> DEFINE lines == LinesOf(job.bundle)
           in == [k \in DOMAIN lines |-> lines[k].line]
<1>1. /\ job.pc = "done" /\ generator = "unstarted" /\ generator' = "running"
      /\ input' = in /\ UNCHANGED <<mapping, next, object, current, yielded>>
  BY DEF StartRouter, RouterStep, StartBatches
<1>2. in \in Seq(AllLines)
  <2>1. Readable(job.bundle)
    BY <1>1, DoneHasAll
  <2>2. PICK source \in Sources : MadeOf(job.bundle, source)
    BY <2>1 DEF Readable, IsBundle
  <2>3. lines \in Seq(Numbered(AllLines))
    BY <2>1, <2>2, LinesTyped DEF Readable
  <2> HIDE DEF lines
  <2>4. Len(lines) \in Nat /\ DOMAIN lines = 1..Len(lines)
        /\ \A k \in 1..Len(lines) : lines[k] \in Numbered(AllLines)
    BY <2>3
  <2>5. \A e \in Numbered(AllLines) : e.line \in AllLines
    BY DEF Numbered
  <2>6. QED
    BY <2>4, <2>5
<1> HIDE DEF in
<1>3. next = 1 /\ input \in Seq(AllLines) /\ next - 1 = 0
  BY <1>1 DEF CutInv, RouterShape
<1>4. \A door : RoutedUpTo(mapping, in, door, 0) = RoutedUpTo(mapping, input, door, 0)
  BY <1>2, <1>3, NoneRouted
<1>5. CutAt(mapping, in, 0, object, current)
  BY <1>3, <1>4 DEF CutInv, CutAt
<1>6. RouterShape'
  <2>1. Len(in) \in Nat
    BY <1>2
  <2>2. QED
    BY <1>1, <1>2, <1>3, <2>1 DEF RouterShape
<1>7. HeldInOrder'
  BY <1>1 DEF CutInv, HeldInOrder
<1>8. QED
  BY <1>1, <1>3, <1>5, <1>6, <1>7 DEF CutInv

(* Every step keeps it.                                                    *)
LEMMA CutInvStep == CutInv /\ RouterHeap /\ FileInv /\ [Next]_vars => CutInv'
<1> SUFFICES ASSUME CutInv, RouterHeap, FileInv, [Next]_vars PROVE CutInv'
  OBVIOUS
<1>1. RouterInv /\ Untouched
  BY DEF RouterHeap
<1>2. CASE UNCHANGED <<mapping, batchVars>>
  BY <1>2 DEF batchVars, CutInv, RouterShape, HeldInOrder
<1>3. CASE StartRouter
  BY <1>1, <1>3, StartCut
<1>4. CASE SkipLine /\ RouterStep
  BY <1>4, SkipCut DEF RouterStep
<1>5. CASE RouteNext /\ RouterStep
  BY <1>1, <1>5, RouteCut DEF RouterStep
<1>6. CASE RouteRaises /\ RouterStep
  <2>1. /\ generator = "running" /\ generator' = "raised"
        /\ UNCHANGED <<mapping, input, next, object, current, yielded>>
    BY <1>6 DEF RouteRaises, RouterStep
  <2>2. QED
    BY <2>1 DEF CutInv, RouterShape, HeldInOrder
<1>7. CASE EndOfInput /\ RouterStep
  BY <1>1, <1>7, EndCut DEF RouterStep
<1>8. CASE LaneOnly
  BY <1>2, <1>8 DEF LaneOnly
<1>9. CASE UNCHANGED vars
  BY <1>2, <1>9 DEF vars
<1>10. CASE Next
  BY <1>3, <1>4, <1>5, <1>6, <1>7, <1>8, <1>10, StepIsOneOf
<1>11. QED
  BY <1>9, <1>10


-----------------------------------------------------------------------------
(* The sum of what the batches count as written.                           *)

SumWritten == MapThenSumSet(LAMBDA b : Batch(b).written, DOMAIN yielded)
StepOfWritten(f, s) == IF s = {} THEN 0 ELSE Batch(Pick(s)).written + f[s \ {Pick(s)}]
IsWritten(f) == f = [s \in SUBSET DOMAIN yielded |-> StepOfWritten(f, s)]
Writtens == [b \in DOMAIN yielded |-> Batch(b).written]

(* It is the fold of the counts.                                           *)
LEMMA WrittenIsTotal ==
    ASSUME IsFiniteSet(DOMAIN yielded), \A b \in DOMAIN yielded : Batch(b).written \in Nat
    PROVE  SumWritten = Total(Writtens)
<1> DEFINE S == DOMAIN yielded
           g == Writtens
           f == CHOOSE q : IsWritten(q)
<1>1. SumWritten = (CHOOSE q : IsWritten(q))[S]
  BY Zenon DEF SumWritten, MapThenSumSet, MapThenFoldSet, IsWritten, StepOfWritten, Pick
<1>2. \A q : \A s \in SUBSET S : StepOfWritten(q, s) = StepOfSum(g, q, s)
  <2>1. TAKE q
  <2>2. TAKE s \in SUBSET S
  <2>3. s # {} => Pick(s) \in S
    BY DEF Pick
  <2>4. s # {} => g[Pick(s)] = Batch(Pick(s)).written
    BY <2>3 DEF Writtens
  <2>5. QED
    BY <2>4 DEF StepOfWritten, StepOfSum
<1>3. DOMAIN g = S /\ \A x \in S : g[x] \in Nat
  BY DEF Writtens
<1> HIDE DEF g, f
<1>4. ASSUME NEW q PROVE IsWritten(q) <=> IsSum(q, g, S)
  <2>1. [s \in SUBSET S |-> StepOfWritten(q, s)] = [s \in SUBSET S |-> StepOfSum(g, q, s)]
    BY <1>2, Zenon
  <2>2. QED
    BY <2>1, Zenon DEF IsWritten, IsSum
<1>5. IsWritten(f)
  <2>1. PICK q : IsSum(q, g, S)
    BY SumExists
  <2>2. IsWritten(q)
    BY <1>4, <2>1
  <2>3. QED
    BY <2>2, Zenon DEF f
<1>6. f[S] = Cardinality(Copies(g, S))
  <2>1. IsSum(f, g, S)
    BY <1>4, <1>5
  <2> HIDE DEF S
  <2>2. IsFiniteSet(S)
    BY DEF S
  <2>3. QED
    BY <1>3, <2>1, <2>2, SumIsCopies
<1>7. Total(g) = Cardinality(Copies(g, S))
  <2> HIDE DEF S
  <2>1. IsFiniteSet(DOMAIN g)
    BY <1>3 DEF S
  <2>2. QED
    BY <1>3, <2>1, FoldCounts
<1>8. QED
  BY <1>1, <1>6, <1>7, Zenon DEF f, g

(* The sum of n equal counts.                                              *)
LEMMA SumOfEqual ==
    ASSUME NEW n \in Nat, NEW a \in Nat
    PROVE  Total([i \in 1..n |-> a]) = n * a
<1> DEFINE g(k) == [i \in 1..k |-> a]
           G == {k \in Nat : Total(g(k)) = k * a}
<1>1. 0 \in G
  <2>1. Total([i \in {} |-> 0]) = 0
    BY SumOfNothing, FS_EmptySet
  <2>2. g(0) = [i \in {} |-> 0]
    <3>1. 1..0 = {}
      OBVIOUS
    <3>2. [i \in {} |-> a] = [i \in {} |-> 0]
      OBVIOUS
    <3>3. QED
      BY <3>1, <3>2
  <2>3. 0 * a = 0
    OBVIOUS
  <2>4. QED
    BY <2>1, <2>2, <2>3
<1>2. ASSUME NEW k \in G PROVE k + 1 \in G
  <2>1. k \in Nat /\ Total(g(k)) = k * a
    OBVIOUS
  <2> DEFINE q == k + 1
             u == g(k)
             v == g(q)
  <2>2. q \in Nat /\ q \notin 1..k /\ 1..q = 1..k \cup {q} /\ q * a = k * a + a
    <3>1. q * a = k * a + a
      BY <2>1
    <3>2. QED
      BY <2>1, <3>1
  <2>3. /\ DOMAIN u = 1..k /\ DOMAIN v = 1..q
        /\ \A i \in 1..k : u[i] = a
        /\ \A i \in 1..q : v[i] = a
    OBVIOUS
  <2>4. q \in 1..q /\ \A i \in 1..k : i \in 1..q
    BY <2>1
  <2>5. IsFiniteSet(1..k)
    BY <2>1, FS_Interval
  <2> HIDE DEF u, v, q
  <2>6. Total(v) = Total(u) + v[q]
    <3>1. /\ IsFiniteSet(DOMAIN u) /\ \A x \in DOMAIN u : u[x] \in Nat
          /\ q \notin DOMAIN u /\ DOMAIN v = DOMAIN u \cup {q} /\ v[q] \in Nat
          /\ \A y \in DOMAIN u : v[y] = u[y]
      BY <2>2, <2>3, <2>4, <2>5
    <3>2. QED
      BY <3>1, SumOfOneMore
  <2>7. Total(v) = q * a
    BY <2>1, <2>2, <2>3, <2>4, <2>6 DEF u
  <2>8. QED
    BY <2>2, <2>7 DEF v, q
<1>3. G = Nat
  <2>1. G \in SUBSET Nat
    OBVIOUS
  <2> HIDE DEF G
  <2>2. QED
    BY <1>1, <1>2, <2>1, NatBySteps
<1>4. n \in G
  BY <1>3
<1>5. QED
  BY <1>4

(* And of one more behind them.                                            *)
LEMMA SumOfEqualAndLast ==
    ASSUME NEW n \in Nat, NEW a \in Nat, NEW b \in Nat, NEW g, DOMAIN g = 1..(n + 1),
           \A i \in 1..n : g[i] = a, g[n + 1] = b
    PROVE  Total(g) = n * a + b
<1> DEFINE u == [i \in 1..n |-> a]
           q == n + 1
<1>1. /\ DOMAIN u = 1..n /\ \A i \in 1..n : u[i] = a
      /\ q \notin 1..n /\ 1..q = 1..n \cup {q} /\ g[q] = b /\ DOMAIN g = 1..q
  OBVIOUS
<1>2. IsFiniteSet(1..n)
  BY FS_Interval
<1>3. Total(u) = n * a
  BY SumOfEqual
<1> HIDE DEF u, q
<1>4. Total(g) = Total(u) + g[q]
  BY <1>1, <1>2, SumOfOneMore
<1>5. QED
  BY <1>1, <1>3, <1>4


-----------------------------------------------------------------------------
(* What follows of the batches.                                            *)

(* The lines routed so far, in the terms of the model.                     *)
LEMMA RoutedToIs == CutInv => \A door : RoutedTo(door) = RoutedUpTo(mapping, input, door, next - 1)
<1> SUFFICES ASSUME CutInv, NEW door
             PROVE  RoutedTo(door) = RoutedUpTo(mapping, input, door, next - 1)
  OBVIOUS
<1>1. next \in 1..(Len(input) + 1) /\ Len(input) \in Nat
  BY DEF CutInv, RouterShape
<1>2. \A i \in 1..(next - 1) : i \in 1..Len(input)
  BY <1>1
<1>3. {i \in 1..(next - 1) : ~Skipped(input[i]) /\ Route(mapping, input[i]).door = door}
        = Routing(mapping, input, door) \cap (1..(next - 1))
  BY <1>2, Zenon DEF Routing, Skipped
<1>4. QED
  BY <1>3 DEF RoutedTo, RoutedUpTo

(* What is known of the entries, by their number.                          *)
LEMMA EntriesAre ==
    ASSUME RouterInv, CutInv
    PROVE  LET w == RoutedTo("written")
           IN  /\ current \in Nat \ {0} /\ current \in 1..current
               /\ DOMAIN yielded = 1..Len(yielded) /\ Len(yielded) \in Nat
               /\ Len(yielded) = current \/ Len(yielded) = current - 1
               /\ \A b \in 1..Len(yielded) : b \in 1..current /\ Batch(b) = object[b]
               /\ DocsCut(w, object, current)
               /\ RejectsLaid(RoutedTo("rejected"), object, current)
               /\ \A c \in 1..current : object[c].written = Len(object[c].documents)
<1>1. /\ object \in Seq(Entry) /\ current \in 1..Len(object) /\ Len(object) = current
      /\ yielded \in Seq([id : Nat, entry : Nat])
  BY DEF RouterInv, HeapInv, HeldInv, CutInv, CutAt
<1>2. current \in Nat \ {0} /\ DOMAIN yielded = 1..Len(yielded) /\ Len(yielded) \in Nat
  <2>1. Len(object) \in Nat
    BY <1>1
  <2>2. QED
    BY <1>1, <2>1
<1>3. Len(yielded) = current \/ Len(yielded) = current - 1
  BY DEF CutInv, HeldInOrder
<1>4. \A b \in 1..Len(yielded) : b \in 1..current /\ yielded[b].entry = b
  <2> DEFINE y == Len(yielded)
             n == current
  <2>1. y \in Nat /\ n \in Nat /\ (y = n \/ y = n - 1)
    BY <1>2, <1>3
  <2> HIDE DEF y, n
  <2>2. \A b \in 1..y : b \in 1..n
    BY <2>1
  <2>3. \A b \in 1..Len(yielded) : yielded[b].entry = b
    BY DEF CutInv, HeldInOrder
  <2>4. QED
    BY <2>2, <2>3 DEF y, n
<1>5. \A c \in 1..current : object[c] \in Entry
  BY <1>1
<1>6. \A e \in Entry : e.written = Len(e.documents)
  BY DEF Entry, Tallied
<1>7. /\ DocsCut(RoutedTo("written"), object, current)
      /\ RejectsLaid(RoutedTo("rejected"), object, current)
  BY RoutedToIs DEF CutInv, CutAt
<1>8. current \in 1..current
  BY <1>2
<1>9. \A b \in 1..Len(yielded) : Batch(b) = object[b]
  BY <1>4 DEF Batch
<1>10. \A c \in 1..current : object[c].written = Len(object[c].documents)
  BY <1>5, <1>6
<1>11. QED
  BY <1>2, <1>3, <1>4, <1>7, <1>8, <1>9, <1>10

(* A batch is a piece of the written lines.                                *)
LEMMA PieceOf ==
    ASSUME NEW w, NEW heap, NEW n \in Nat \ {0}, DocsCut(w, heap, n), NEW b \in 1..n
    PROVE  heap[b].documents = SubSeq(w, (b - 1) * BatchSize + 1, Least(b * BatchSize, Len(w)))
<1> DEFINE d == heap[b].documents
           e == Len(d)
           o == Offset(b)
           l == Len(w)
           S == BatchSize
           L == AllLines
<1>1. d \in Seq(L) /\ w \in Seq(L) /\ \A k \in 1..e : d[k] = w[o + k]
  BY DEF DocsCut
<1>2. b \in Nat \ {0} /\ o \in Nat /\ S \in Nat /\ l \in Nat /\ e \in Nat
  <2>1. b \in Nat \ {0}
    OBVIOUS
  <2>2. o \in Nat
    BY <2>1, Offsets
  <2>3. QED
    BY <1>1, <2>1, <2>2, BatchSizeIsPositive
<1>3. b * S = o + S
  <2>1. (b - 1) * S + S = b * S
    BY <1>2
  <2>2. QED
    BY <2>1 DEF Offset
<1>4. /\ o + e <= l /\ e <= S
      /\ e = S \/ l = o + e
  <2>1. CASE b = n
    BY <1>2, <2>1 DEF DocsCut
  <2>2. CASE b # n
    <3>1. b \in 1..(n - 1)
      BY <2>2
    <3>2. e = S
      BY <3>1 DEF DocsCut
    <3>3. o + S <= Offset(n) /\ Offset(n) \in Nat
      BY <3>1, Offsets
    <3>4. n \in 1..n
      OBVIOUS
    <3>5. Len(heap[n].documents) \in Nat /\ l = Offset(n) + Len(heap[n].documents)
      BY <3>4 DEF DocsCut
    <3> DEFINE p == Offset(n)
               q == Len(heap[n].documents)
    <3>6. o + S <= p /\ p \in Nat /\ q \in Nat /\ l = p + q
      BY <3>3, <3>5
    <3> HIDE DEF p, q, o, S, e, l
    <3>7. o + e <= l /\ e <= S
      BY <1>2, <3>2, <3>6
    <3>8. QED
      BY <3>2, <3>7
  <2>3. QED
    BY <2>1, <2>2
<1> DEFINE v == SubSeq(w, o + 1, o + e)
<1>5. v \in Seq(L) /\ Len(v) = e /\ \A k \in 1..e : v[k] = w[o + k]
  <2> HIDE DEF d, e, o, L
  <2>1. \A i \in (o + 1)..(o + e) : i \in 1..Len(w)
    <3> HIDE DEF l
    <3>1. \A i \in (o + 1)..(o + e) : i \in 1..l
      BY <1>2, <1>4
    <3>2. QED
      BY <3>1 DEF l
  <2>2. \A i \in (o + 1)..(o + e) : w[i] \in L
    BY <1>1, <2>1
  <2>3. o + 1 \in Int /\ o + e \in Int
    BY <1>2
  <2> DEFINE m == o + 1
             j == o + e
  <2>4. m \in Int /\ j \in Int /\ \A i \in m..j : w[i] \in L
    BY <2>2, <2>3
  <2> HIDE DEF m, j
  <2>5. /\ SubSeq(w, m, j) \in Seq(L)
        /\ Len(SubSeq(w, m, j)) = IF m <= j THEN j - m + 1 ELSE 0
        /\ \A i \in 1..(j - m + 1) : SubSeq(w, m, j)[i] = w[m + i - 1]
    BY <2>4
  <2>6. j - m + 1 = e /\ (m <= j <=> e # 0)
    BY <1>2 DEF m, j
  <2>7. \A k \in 1..e : m + k - 1 = o + k
    BY <1>2 DEF m
  <2>8. QED
    BY <2>5, <2>6, <2>7 DEF m, j
<1> HIDE DEF v, d
<1>6. d = v
  BY <1>1, <1>5, SameLengthSamePlaces
<1>7. Least(b * S, l) = o + e
  <2> HIDE DEF o, e, l, S
  <2>1. QED
    BY <1>2, <1>3, <1>4 DEF Least
<1>8. QED
  BY <1>6, <1>7 DEF v, d, o, Offset

(* The batches cut the lines that were written, and lose none of those     *)
(* that were not.                                                          *)
LEMMA PartitionFromInv == RouterInv /\ CutInv => BatchesPartition
<1> SUFFICES ASSUME RouterInv, CutInv PROVE BatchesPartition
  OBVIOUS
<1> DEFINE w == RoutedTo("written")
           r == RoutedTo("rejected")
           n == current
           y == Len(yielded)
<1>1a. /\ n \in Nat \ {0} /\ n \in 1..n /\ y \in Nat
       /\ y = n \/ y = n - 1
  BY EntriesAre
<1>1b. DOMAIN yielded = 1..y /\ \A b \in 1..y : b \in 1..n /\ Batch(b) = object[b]
  BY EntriesAre
<1>1c. DocsCut(w, object, n) /\ RejectsLaid(r, object, n)
  BY EntriesAre
<1>1d. \A c \in 1..n : object[c].written = Len(object[c].documents)
  BY EntriesAre
<1> HIDE DEF w, r, n, y
<1>2. ASSUME NEW b \in DOMAIN yielded
      PROVE  Batch(b).documents = SubSeq(w, (b - 1) * BatchSize + 1, Least(b * BatchSize, Len(w)))
  <2>1. b \in 1..n /\ Batch(b) = object[b]
    BY <1>1b
  <2>2. object[b].documents = SubSeq(w, (b - 1) * BatchSize + 1, Least(b * BatchSize, Len(w)))
    BY <1>1a, <1>1c, <2>1, PieceOf
  <2>3. QED
    BY <2>1, <2>2
<1>3. ASSUME generator = "exhausted"
      PROVE  Len(w) = SumWritten
  <2> DEFINE g == Writtens
             S == BatchSize
             e == Len(object[n].documents)
             m == n - 1
  <2>1. /\ DOMAIN g = 1..y /\ \A b \in 1..y : g[b] = Len(object[b].documents)
    <3>1. DOMAIN g = 1..y /\ \A b \in 1..y : g[b] = Batch(b).written
      BY <1>1b DEF Writtens
    <3>2. QED
      BY <1>1b, <1>1d, <3>1
  <2>2. /\ \A c \in 1..m : Len(object[c].documents) = S
        /\ Len(w) = Offset(n) + e /\ Offset(n) = m * S
        /\ e \in Nat /\ S \in Nat /\ m \in Nat /\ m + 1 = n /\ n \in 1..n
    <3>1. n \in 1..n /\ m \in Nat /\ m + 1 = n
      BY <1>1a
    <3>2. object[n].documents \in Seq(AllLines)
      BY <1>1c, <3>1 DEF DocsCut
    <3>3. e \in Nat /\ S \in Nat
      BY <3>2, BatchSizeIsPositive
    <3>4. /\ \A c \in 1..m : Len(object[c].documents) = S
          /\ Len(w) = Offset(n) + e
      BY <1>1c DEF DocsCut
    <3>5. QED
      BY <3>1, <3>3, <3>4 DEF Offset
  <2>3. IsFiniteSet(DOMAIN yielded) /\ \A b \in DOMAIN yielded : Batch(b).written \in Nat
    <3>1. IsFiniteSet(1..y)
      BY <1>1a, FS_Interval
    <3>2. \A c \in 1..n : object[c].documents \in Seq(AllLines)
      BY <1>1c DEF DocsCut
    <3>3. \A c \in 1..n : Len(object[c].documents) \in Nat
      BY <3>2
    <3>4. QED
      BY <1>1b, <1>1d, <3>1, <3>3
  <2>4. SumWritten = Total(g)
    BY <2>3, WrittenIsTotal
  <2> HIDE DEF g, S, e, m
  <2>5. CASE y = n
    <3>1. DOMAIN g = 1..(m + 1) /\ g[m + 1] = e
      BY <2>1, <2>2, <2>5 DEF e
    <3>2. \A i \in 1..m : g[i] = S
      <4>1. \A i \in 1..m : i \in 1..n
        BY <2>2
      <4>2. QED
        BY <2>1, <2>2, <2>5, <4>1
    <3>3. Total(g) = m * S + e
      BY <2>2, <3>1, <3>2, SumOfEqualAndLast
    <3>4. QED
      BY <2>2, <2>4, <3>3
  <2>6. CASE y # n
    <3>1. y = m
      BY <1>1a, <2>6 DEF m
    <3>2. object[n].srcRead = 0
      BY <1>3, <2>6 DEF CutInv, HeldInOrder, y, n
    <3>3. e = 0
      <4>1. object[n] \in Entry
        BY DEF RouterInv, HeapInv, n
      <4>2. \A u \in Entry : u.srcRead = 0 => u.written = 0
        <5>1. \A i, j \in Nat : i + j = 0 => i = 0
          OBVIOUS
        <5>2. QED
          BY <5>1 DEF Entry, Tallied, Balances
      <4>3. QED
        BY <1>1d, <2>2, <3>2, <4>1, <4>2 DEF e
    <3>4. \A i \in 1..m : g[i] = S
      BY <2>1, <2>2, <3>1
    <3>5. g = [i \in 1..m |-> S]
      <4>1. g = [i \in 1..m |-> g[i]]
        <5>1. g = [i \in DOMAIN yielded |-> g[i]]
          BY DEF g, Writtens
        <5>2. QED
          BY <1>1b, <3>1, <5>1
      <4>2. QED
        BY <3>4, <4>1
    <3>6. Total([i \in 1..m |-> S]) = m * S
      BY <2>2, SumOfEqual
    <3>7. m * S + 0 = m * S
      BY <2>2
    <3>8. QED
      BY <2>2, <2>4, <3>3, <3>5, <3>6, <3>7
  <2>7. QED
    BY <2>5, <2>6
<1>4. ASSUME generator = "exhausted"
      PROVE  r = FlattenSeq([b \in DOMAIN yielded |->
                    [k \in DOMAIN Batch(b).rejects |-> Batch(b).rejects[k].line]])
  <2>1. [b \in DOMAIN yielded |-> [k \in DOMAIN Batch(b).rejects |-> Batch(b).rejects[k].line]]
           = RejectLines(object, y)
    BY <1>1b DEF RejectLines, LinesIn
  <2>2. /\ \A c \in 1..n : LinesIn(object[c].rejects) \in Seq(AllLines)
        /\ r = FlattenSeq(RejectLines(object, n - 1)) \o LinesIn(object[n].rejects)
    BY <1>1c DEF RejectsLaid
  <2>3. /\ FlattenSeq(RejectLines(object, n))
              = FlattenSeq(RejectLines(object, n - 1)) \o LinesIn(object[n].rejects)
        /\ FlattenSeq(RejectLines(object, n - 1)) \in Seq(AllLines)
    BY <1>1a, <2>2, RejectLinesGrow
  <2>4. CASE y = n
    BY <2>1, <2>2, <2>3, <2>4
  <2>5. CASE y # n
    <3>1. y = n - 1
      BY <1>1a, <2>5
    <3>2. object[n].srcRead = 0
      BY <1>4, <2>5 DEF CutInv, HeldInOrder, y, n
    <3>3. LinesIn(object[n].rejects) = <<>>
      <4>2. object[n] \in Entry
        BY DEF RouterInv, HeapInv, n
      <4>3. \A u \in Entry : u.srcRead = 0 => Len(u.rejects) = 0 /\ u.rejects \in Seq(Rejectable)
        <5>1. \A i, j \in Nat : i + j = 0 => j = 0
          OBVIOUS
        <5>2. QED
          BY <5>1 DEF Entry, Tallied, Balances
      <4>4. object[n].rejects = <<>>
        BY <3>2, <4>2, <4>3
      <4>5. QED
        BY <4>4 DEF LinesIn
    <3> DEFINE f == FlattenSeq(RejectLines(object, n - 1))
    <3>4. f \in Seq(AllLines) /\ r = f \o <<>>
      BY <2>2, <2>3, <3>3
    <3> HIDE DEF f
    <3>5. r = f
      BY <3>4
    <3>6. QED
      BY <2>1, <3>1, <3>5 DEF f
  <2>6. QED
    BY <2>4, <2>5
<1>5. QED
  BY <1>2, <1>3, <1>4, Zenon DEF BatchesPartition, SumWritten, w, r


-----------------------------------------------------------------------------
(* The lane keeps its invariant: whatever is retried, damaged, replaced or *)
(* left behind, a job that parses is at a place of the bundle it verified, *)
(* and its counters, its buffers and the tables are those of that place.   *)
THEOREM FileInvariant == Spec => []FileInv
<1>1. QED
  BY FileInvInit, FileInvStep, PTL DEF Spec

(* What the extractor claims in the .RPT is what the ledger says was read, *)
(* and the artefacts are those of the bundle that was read.                *)
THEOREM FileClaimHolds == Spec => []ClaimHolds
<1>1. QED
  BY FileInvariant, ClaimFromInv, PTL

(* The ledger counts each line of the bundle once, whatever was retried,   *)
(* and every line it counts is in the table of its door.                   *)
THEOREM FileLedgerIsBacked == Spec => []LedgerIsBacked
<1>1. QED
  BY FileInvariant, LedgerFromInv, PTL

(* The types follow from the invariants.                                   *)
LEMMA TypesFromInv == FileInv /\ RouterInv /\ CutInv => FileLaneTypeOK
<1> SUFFICES ASSUME FileInv, RouterInv, CutInv PROVE FileLaneTypeOK
  OBVIOUS
<1>1. /\ mapping \in {LoadMapping(c) : c \in Contracts}
      /\ extractor \in {"idle", "stored"} /\ landing.flg \in BOOLEAN
      /\ tables \in RowSeqs(mapping)
  BY DEF FileInv, LaneShapes
<1>2. /\ job.pc \in Running \cup {"idle", "done"}
      /\ job.read \in Nat /\ job.written \in Nat /\ job.rejected \in Nat
      /\ job.tries \in 0..(BundleTries - 1)
  BY DEF FileInv, JobShape
<1>3. {job.read, job.written, job.rejected, job.tries} \subseteq Nat /\ job.tries < BundleTries
  BY <1>2, SizesArePositive
<1>4. job.pc \in {"rpt", "chs", "err", "lines", "done"} => Verified(job.bundle)
  BY DEF FileInv, LandingInv, Parsing, Readable
<1>5. \A t \in DOMAIN tables : \A k \in DOMAIN job.out[t] : job.pc \in {"lines", "uncaught"}
  <2>1. SUFFICES ASSUME job.pc \notin {"lines", "uncaught"}
                 PROVE  \A t \in DOMAIN tables : DOMAIN job.out[t] = {}
    OBVIOUS
  <2>2. job.out = NoRows
    BY <1>2, <2>1 DEF FileInv, FreshInv, Reading, Running
  <2>3. DOMAIN tables = {"src", "rejects", "lineage"}
    BY <1>1 DEF RowSeqs
  <2>4. QED
    BY <2>2, <2>3 DEF NoRows
<1>6. /\ generator \in {"unstarted", "running", "exhausted", "raised"}
      /\ next \in 1..(Len(input) + 1)
  BY DEF CutInv, RouterShape
<1>7. current \in DOMAIN object
  BY DEF RouterInv, HeapInv
<1>8. \A b \in DOMAIN yielded : yielded[b].entry \in 1..current
  BY DEF RouterInv, HeldInv
<1>9. QED
  BY <1>1, <1>2, <1>3, <1>4, <1>5, <1>6, <1>7, <1>8 DEF FileLaneTypeOK

(* Both together, and what the router's heap keeps.                        *)
LaneAndRouter == FileInv /\ RouterHeap /\ CutInv

(* The lane and the router over its lines keep their invariants.           *)
THEOREM RouterInvariant == Spec => []LaneAndRouter
<1>1. Init => LaneAndRouter
  BY FileInvInit, RouterHeapInit, CutInvInit DEF LaneAndRouter
<1>2. LaneAndRouter /\ [Next]_vars => LaneAndRouter'
  BY FileInvStep, RouterHeapStep, CutInvStep DEF LaneAndRouter
<1>3. QED
  BY <1>1, <1>2, PTL DEF Spec

(* Every variable keeps its type, and a job past the manifest holds a      *)
(* bundle whose files are the ones in it.                                  *)
THEOREM FileLaneTyped == Spec => []FileLaneTypeOK
<1>1. LaneAndRouter => FileLaneTypeOK
  BY TypesFromInv DEF LaneAndRouter, RouterHeap
<1>2. QED
  BY <1>1, RouterInvariant, PTL

(* run_batches cuts the written records every BatchSize of them, in order; *)
(* none is in two batches or in none, and when the lines are exhausted the *)
(* counts of the batches add up to them and every reject is in a batch.    *)
THEOREM RouterPartition == Spec => []BatchesPartition
<1>1. LaneAndRouter => BatchesPartition
  BY PartitionFromInv DEF LaneAndRouter, RouterHeap
<1>2. QED
  BY <1>1, RouterInvariant, PTL

-----------------------------------------------------------------------------
(* The engine: what it decides of one line.                                *)

(* The first of some errors is one of them.                                *)
LEMMA FirstErrorIs ==
    ASSUME NEW n \in Nat, NEW r, DOMAIN r = 1..n
    PROVE  /\ (\E i \in 1..n : r[i] \in Errors) =>
                 \E i \in 1..n : r[i] \in Errors /\ FirstError(r) = r[i]
           /\ (\A i \in 1..n : r[i] \notin Errors) => FirstError(r) = None
<1> DEFINE failed == {i \in DOMAIN r : r[i] \in Errors}
<1>1. FirstError(r) = IF failed = {} THEN None ELSE r[Min(failed)]
  BY DEF FirstError
<1>2. failed # {} => Min(failed) \in failed
  <2>1. SUFFICES ASSUME failed # {} PROVE Min(failed) \in failed
    OBVIOUS
  <2>2. failed \in SUBSET Nat
    OBVIOUS
  <2> HIDE DEF failed
  <2>3. \E m \in failed : \A i \in failed : m <= i
    BY <2>1, <2>2, LeastExists
  <2>4. QED
    BY <2>3 DEF Min
<1>3. QED
  BY <1>1, <1>2

(* Two series of results with the same errors have the same first one.     *)
LEMMA SameFirstError ==
    ASSUME NEW n \in Nat, NEW r, DOMAIN r = 1..n, NEW q, DOMAIN q = 1..n,
           \A i \in 1..n : r[i] \in Errors <=> q[i] \in Errors,
           \A i \in 1..n : r[i] \in Errors => r[i] = q[i]
    PROVE  FirstError(r) = FirstError(q)
<1> DEFINE failed == {i \in DOMAIN r : r[i] \in Errors}
           fails == {i \in DOMAIN q : q[i] \in Errors}
<1>1. failed = fails
  OBVIOUS
<1>2. FirstError(r) = IF failed = {} THEN None ELSE r[Min(failed)]
  BY DEF FirstError
<1>3. FirstError(q) = IF failed = {} THEN None ELSE q[Min(failed)]
  BY <1>1 DEF FirstError
<1>4. failed # {} => Min(failed) \in failed
  <2>1. SUFFICES ASSUME failed # {} PROVE Min(failed) \in failed
    OBVIOUS
  <2>2. failed \in SUBSET Nat
    OBVIOUS
  <2> HIDE DEF failed
  <2>3. \E m \in failed : \A i \in failed : m <= i
    BY <2>1, <2>2, LeastExists
  <2>4. QED
    BY <2>3 DEF Min
<1>5. QED
  BY <1>2, <1>3, <1>4

(* What a cell becomes is a cell, nothing, or one of the errors of parsing. *)
ParseErrors == ParseReasons \cup {Uncaught}
LEMMA Coerced ==
    ASSUME NEW f, NEW cell \in Cells
    PROVE  Coerce(f, cell) \in ParseErrors \cup Cells \cup {None}
  BY DEF Coerce, ParseErrors, ParseReasons, Cells

(* The fields of a line whose record is not stopped before its fields.     *)
LEMMA FieldsParsed ==
    ASSUME NEW m, ReadsByAlias(m), NEW line, line.cells \in Seq(Cells), LineError(m, line) = None
    PROVE  /\ DOMAIN ParsedFields(m, line) = 1..Len(m.fields) /\ Len(m.fields) \in Nat
           /\ \A i \in 1..Len(m.fields) :
                 ParsedFields(m, line)[i] \in ParseErrors \cup Cells \cup {None}
<1>1. DOMAIN m.fields = 1..Len(m.fields) /\ Len(m.fields) \in Nat
  BY DEF ReadsByAlias
<1>2. ~(m.layout.kind = "fixed" /\ Len(line.cells) < Len(m.fields))
  <2>1. "PARSE_SHORT_RECORD" # None
    BY NoneIsNoValue DEF Errors, Reasons, ParseReasons
  <2>2. QED
    BY <2>1 DEF LineError
<1>3. ASSUME NEW i \in 1..Len(m.fields)
      PROVE  ParsedFields(m, line)[i] \in ParseErrors \cup Cells \cup {None}
  <2> DEFINE f == m.fields[i]
             cells == line.cells
  <2>1. f.col \in Nat \ {0} /\ (m.layout.kind = "fixed" => f.col <= Len(m.fields))
    BY <1>1 DEF ReadsByAlias
  <2>2. cells \in Seq(Cells) /\ Len(cells) \in Nat
    OBVIOUS
  <2>3. f.col <= Len(cells) => Coerce(f, cells[f.col]) \in ParseErrors \cup Cells \cup {None}
    <3>1. f.col <= Len(cells) => cells[f.col] \in Cells
      BY <2>1, <2>2
    <3>2. QED
      BY <3>1, Coerced
  <2>4. CASE m.layout.kind = "json"
    <3>1. ParsedFields(m, line)[i] = ParseJsonField(f, line)
      BY <1>1, <2>4 DEF ParsedFields
    <3> HIDE DEF f
    <3>2. ParseJsonField(f, line) \in ParseErrors \cup Cells \cup {None}
      BY <2>1, <2>2, <2>3 DEF ParseJsonField, ParseErrors, ParseReasons
    <3>3. QED
      BY <3>1, <3>2
  <2>5. CASE m.layout.kind # "json"
    <3> DEFINE k == m.layout.kind
    <3>1. ParsedFields(m, line)[i] = ParseDatField(k, f, line)
      BY <1>1, <2>5 DEF ParsedFields
    <3> HIDE DEF f
    <3>2. ParseDatField(k, f, line) \in ParseErrors \cup Cells \cup {None}
      <4>1. CASE f.at # (IF k = "fixed" THEN "offset" ELSE "col") /\ f.at # "col"
        BY <4>1 DEF ParseDatField, ParseErrors, ParseReasons
      <4>2. CASE f.col <= Len(cells)
        BY <2>1, <2>2, <2>3, <4>2 DEF ParseDatField, ParseErrors, ParseReasons
      <4>3. CASE f.col > Len(cells) /\ k # "fixed"
        BY <2>1, <2>2, <2>3, <4>3 DEF ParseDatField, ParseErrors, ParseReasons
      <4>4. CASE f.col > Len(cells) /\ k = "fixed"
        BY <1>1, <1>2, <2>1, <2>2, <4>4
      <4>5. QED
        BY <2>1, <2>2, <4>1, <4>2, <4>3, <4>4
    <3>3. QED
      BY <3>1, <3>2
  <2>6. QED
    BY <2>4, <2>5
<1>4. DOMAIN ParsedFields(m, line) = 1..Len(m.fields)
  BY <1>1 DEF ParsedFields
<1>5. QED
  BY <1>1, <1>3, <1>4

(* A value of a dict is the last of the values under its name.             *)
LastNamed(names, n, x) == Max({i \in 1..n : names[i] = x})
LEMMA FieldIsResult ==
    ASSUME NEW n \in Nat, NEW names, DOMAIN names = 1..n, NEW r
    PROVE  \A x \in DOMAIN Fields(names, r) :
              /\ LastNamed(names, n, x) \in 1..n /\ names[LastNamed(names, n, x)] = x
              /\ Fields(names, r)[x] = r[LastNamed(names, n, x)]
<1> SUFFICES ASSUME NEW x \in DOMAIN Fields(names, r)
             PROVE  /\ LastNamed(names, n, x) \in 1..n /\ names[LastNamed(names, n, x)] = x
                    /\ Fields(names, r)[x] = r[LastNamed(names, n, x)]
  OBVIOUS
<1> DEFINE S == {i \in 1..n : names[i] = x}
<1>0. x \in {names[i] : i \in 1..n}
  BY DEF Fields
<1>1. S \in SUBSET Nat /\ S # {} /\ \A i \in S : i <= n
  BY <1>0
<1>2. Fields(names, r)[x] = r[Max(S)]
  <2>1. {i \in DOMAIN names : names[i] = x} = S /\ x \in {names[i] : i \in DOMAIN names}
    BY <1>0
  <2> HIDE DEF S
  <2>2. QED
    BY <2>1 DEF Fields
<1>3. Max(S) \in S
  <2> HIDE DEF S
  <2>1. \E i \in S : \A j \in S : j <= i
    BY <1>1, GreatestExists
  <2>2. \E i \in S : \A j \in S : i >= j
    BY <1>1, <2>1
  <2>3. QED
    BY <2>2 DEF Max
<1>4. QED
  BY <1>2, <1>3 DEF LastNamed

(* A line parses to an error of parsing, or to its cells.                  *)
LEMMA LineParsed ==
    ASSUME NEW m, ReadsByAlias(m), NEW line, line.cells \in Seq(Cells)
    PROVE  LET parsed == ParseLine(m, line)
           IN  /\ parsed.error \in ParseErrors \cup {None}
               /\ parsed.error = None =>
                     /\ \A x : Get(parsed.fields, x) \in Cells \cup {None}
                     /\ "BRANCH_NAME" \notin DOMAIN parsed.fields
<1> DEFINE results == ParsedFields(m, line)
           n == Len(m.fields)
           names == [i \in DOMAIN results |-> m.fields[i].name]
           error == IF LineError(m, line) # None THEN LineError(m, line) ELSE FirstError(results)
<1>1. /\ ParseLine(m, line).error = error
      /\ error = None => ParseLine(m, line).fields = Fields(names, results)
  BY DEF ParseLine
<1>2. LineError(m, line) \in ParseErrors \cup {None}
  BY DEF LineError, ParseErrors, ParseReasons
<1>3. CASE LineError(m, line) # None
  BY <1>1, <1>2, <1>3
<1>4. CASE LineError(m, line) = None
  <2>1. /\ DOMAIN results = 1..n /\ n \in Nat
        /\ \A i \in 1..n : results[i] \in ParseErrors \cup Cells \cup {None}
    BY <1>4, FieldsParsed
  <2>2. /\ DOMAIN names = 1..n /\ \A i \in 1..n : names[i] = m.fields[i].name
        /\ error = FirstError(results)
    BY <1>4, <2>1
  <2>3. \A i \in 1..n : names[i] # "BRANCH_NAME"
    BY <2>2 DEF ReadsByAlias
  <2>4. Cells \cap Errors = {} /\ None \notin Errors /\ ParseErrors \subseteq Errors
    BY NoneIsNoValue DEF Cells, Errors, Reasons, ParseReasons, MapReasons, SchemaReasons,
       Uncaught, ParseErrors
  <2> HIDE DEF results, names, n, error
  <2>5. error \in ParseErrors \cup {None}
    <3>1. CASE \E i \in 1..n : results[i] \in Errors
      <4>1. PICK i \in 1..n : results[i] \in Errors /\ FirstError(results) = results[i]
        BY <2>1, <3>1, FirstErrorIs
      <4>2. QED
        BY <2>1, <2>2, <2>4, <4>1
    <3>2. CASE \A i \in 1..n : results[i] \notin Errors
      BY <2>1, <2>2, <3>2, FirstErrorIs
    <3>3. QED
      BY <3>1, <3>2
  <2>6. ASSUME error = None
        PROVE  \A i \in 1..n : results[i] \in Cells \cup {None}
    <3>1. ~\E i \in 1..n : results[i] \in Errors
      <4>1. SUFFICES ASSUME \E i \in 1..n : results[i] \in Errors PROVE FALSE
        OBVIOUS
      <4>2. FirstError(results) \in Errors
        BY <2>1, <4>1, FirstErrorIs
      <4>3. QED
        BY <2>2, <2>4, <2>6, <4>2
    <3>2. QED
      BY <2>1, <2>4, <3>1
  <2>7. DOMAIN Fields(names, results) = {names[i] : i \in 1..n}
    BY <2>2 DEF Fields
  <2>8. ASSUME error = None, NEW x PROVE Get(Fields(names, results), x) \in Cells \cup {None}
    <3>1. CASE x \in {names[i] : i \in 1..n}
      <4>1. PICK i \in 1..n : Fields(names, results)[x] = results[i]
        BY <2>1, <2>2, <2>7, <3>1, FieldIsResult
      <4>2. QED
        BY <2>6, <2>7, <2>8, <3>1, <4>1 DEF Get
    <3>2. CASE x \notin {names[i] : i \in 1..n}
      BY <2>7, <3>2 DEF Get
    <3>3. QED
      BY <3>1, <3>2
  <2>9. "BRANCH_NAME" \notin DOMAIN Fields(names, results)
    BY <2>3, <2>7
  <2>10. QED
    BY <1>1, <2>5, <2>8, <2>9
<1>5. QED
  BY <1>3, <1>4

(* The branch is no source column.                                         *)
LEMMA CuratedFields ==
    ASSUME NEW m, NEW fields, NEW branch, "BRANCH_NAME" \notin DOMAIN fields
    PROVE  LET row == CuratedRowToFields(m, fields, branch)
           IN  /\ \A x \in m.aliases : x # "BRANCH_NAME" => Get(row, x) = Get(fields, x)
               /\ "BRANCH_NAME" \in m.aliases => Get(row, "BRANCH_NAME") = branch
               /\ Get(fields, "BRANCH_NAME") = None
  BY DEF CuratedRowToFields, Get

MapErrors == MapReasons \cup {Uncaught}

(* A rule applied to a cell.                                               *)
LEMMA Transformed ==
    ASSUME NEW rule, NEW value \in Cells \cup {None}
    PROVE  /\ Transform(rule, value) \in MapErrors \cup Cells \cup {None}
           /\ rule.transform \in {"const", "concat"} => Transform(rule, value) = "ok"
           /\ rule.transform \notin {"const", "concat"} /\ rule.from # None /\ value \in {None, "ok"} =>
                 Transform(rule, value) = value
<1>1. Transform(rule, value) \in MapErrors \cup Cells \cup {None}
  BY DEF Transform, MapErrors, MapReasons, Cells
<1>2. rule.transform \in {"const", "concat"} => Transform(rule, value) = "ok"
  BY DEF Transform
<1>3. rule.transform \notin {"const", "concat"} /\ rule.from # None /\ value \in {None, "ok"} =>
                 Transform(rule, value) = value
  BY NoneIsNoValue DEF Transform, Cells
<1>4. QED
  BY <1>1, <1>2, <1>3

(* Two records that differ in the branch alone are mapped to documents     *)
(* that differ in optional values alone, or fail alike.                    *)
RuleResults(m, fields) == [i \in DOMAIN m.rules |-> ApplyRule(m, m.rules[i], fields)]
LEMMA RulesAgree ==
    ASSUME NEW m, ReadsByAlias(m), NEW f, NEW g, NEW branch \in {None, "ok"},
           \A x : Get(f, x) \in Cells \cup {None},
           \A x \in m.aliases : x # "BRANCH_NAME" => Get(g, x) = Get(f, x),
           "BRANCH_NAME" \in m.aliases => Get(g, "BRANCH_NAME") = branch,
           Get(f, "BRANCH_NAME") = None,
           NEW i \in DOMAIN m.rules
    PROVE  LET r == RuleResults(m, f)[i]
               q == RuleResults(m, g)[i]
           IN  /\ r \in MapErrors \cup Cells \cup {None}
               /\ r = q \/ (r \in {None, "ok"} /\ q \in {None, "ok"} /\ m.rules[i].target \notin m.required)
<1> DEFINE rule == m.rules[i]
           v == Get(f, rule.from)
           u == Get(g, rule.from)
           r == RuleResults(m, f)[i]
           q == RuleResults(m, g)[i]
<1>1. r = ApplyRule(m, rule, f) /\ q = ApplyRule(m, rule, g)
  BY DEF RuleResults
<1>2. /\ rule.transform \in {"const", "concat"} \/ rule.from \in m.aliases \ {None}
      /\ rule.from = "BRANCH_NAME" => rule.target \notin m.required
  BY DEF ReadsByAlias
<1>3. v \in Cells \cup {None}
  OBVIOUS
<1> HIDE DEF rule, r, q
<1>4. r \in MapErrors \cup Cells \cup {None}
  <2>1. Transform(rule, v) \in MapErrors \cup Cells \cup {None}
    BY <1>3, Transformed
  <2>2. QED
    BY <1>1, <2>1 DEF ApplyRule, MapErrors, MapReasons
<1>5. CASE rule.transform \in {"const", "concat"}
  <2>1. Transform(rule, v) = "ok" /\ Transform(rule, u) = "ok"
    BY <1>5 DEF Transform
  <2>2. QED
    BY <1>1, <1>4, <2>1 DEF ApplyRule, r, q
<1>6. CASE rule.transform \notin {"const", "concat"} /\ rule.from # "BRANCH_NAME"
  <2>1. u = v
    BY <1>2, <1>6
  <2>2. r = q
    BY <1>1, <2>1 DEF ApplyRule
  <2>3. QED
    BY <1>4, <2>2 DEF r, q
<1>7. CASE rule.transform \notin {"const", "concat"} /\ rule.from = "BRANCH_NAME"
  <2>1. v = None /\ u = branch /\ rule.from # None /\ rule.target \notin m.required
    BY <1>2, <1>7
  <2>2. Transform(rule, v) = v /\ Transform(rule, u) = u
    BY <1>7, <2>1, Transformed DEF Cells
  <2>3. r = IF v \in Errors \/ rule.target \in m.targets THEN v ELSE "MAP_TYPE_ERROR"
    BY <1>1, <2>2 DEF ApplyRule
  <2>4. q = IF u \in Errors \/ rule.target \in m.targets THEN u ELSE "MAP_TYPE_ERROR"
    BY <1>1, <2>2 DEF ApplyRule
  <2>5. v \notin Errors /\ u \notin Errors
    BY <2>1, NoneIsNoValue DEF Errors, Reasons, ParseReasons, MapReasons, SchemaReasons, Uncaught
  <2>6. r = q \/ (r \in {None, "ok"} /\ q \in {None, "ok"})
    BY <2>1, <2>3, <2>4, <2>5
  <2>7. QED
    BY <1>4, <2>1, <2>6 DEF r, q, rule
<1>8. QED
  BY <1>5, <1>6, <1>7

LEMMA MappedAlike ==
    ASSUME NEW m, ReadsByAlias(m), NEW f, NEW g, NEW branch \in {None, "ok"},
           \A x : Get(f, x) \in Cells \cup {None},
           \A x \in m.aliases : x # "BRANCH_NAME" => Get(g, x) = Get(f, x),
           "BRANCH_NAME" \in m.aliases => Get(g, "BRANCH_NAME") = branch,
           Get(f, "BRANCH_NAME") = None
    PROVE  /\ MapAndValidate(m, f) = MapAndValidate(m, g)
           /\ MapAndValidate(m, f) \in MapErrors \cup SchemaReasons \cup {None}
<1> DEFINE n == Len(m.rules)
           names == [i \in DOMAIN m.rules |-> m.rules[i].target]
           r == RuleResults(m, f)
           q == RuleResults(m, g)
           doc(res) == IF FirstError(res) = None THEN Fields(names, res) ELSE <<>>
           missing(d) == (m.required \cap m.targets)
                            \ ({x \in DOMAIN d : d[x] # None} \cup Provenance)
           error(res) == IF FirstError(res) # None THEN FirstError(res)
                         ELSE IF ~(Provenance \subseteq m.targets) THEN Uncaught
                         ELSE IF missing(doc(res)) # {} THEN "MAP_MISSING_REQUIRED" ELSE None
<1>1. n \in Nat /\ DOMAIN m.rules = 1..n
  BY DEF ReadsByAlias
<1>2. DOMAIN r = 1..n /\ DOMAIN q = 1..n /\ DOMAIN names = 1..n
  BY <1>1 DEF RuleResults
<1>3. \A i \in 1..n : /\ r[i] \in MapErrors \cup Cells \cup {None}
                       /\ \/ r[i] = q[i]
                          \/ r[i] \in {None, "ok"} /\ q[i] \in {None, "ok"} /\ names[i] \notin m.required
  <2>1. TAKE i \in 1..n
  <2>2. i \in DOMAIN m.rules /\ names[i] = m.rules[i].target
    BY <1>1
  <2> HIDE DEF names, r, q
  <2>3. /\ RuleResults(m, f)[i] \in MapErrors \cup Cells \cup {None}
        /\ \/ RuleResults(m, f)[i] = RuleResults(m, g)[i]
           \/ /\ RuleResults(m, f)[i] \in {None, "ok"} /\ RuleResults(m, g)[i] \in {None, "ok"}
              /\ m.rules[i].target \notin m.required
    BY <2>2, RulesAgree
  <2>4. QED
    BY <2>2, <2>3 DEF r, q
<1>4. None \notin Errors /\ "ok" \notin Errors /\ Cells \cap Errors = {} /\ MapErrors \subseteq Errors
  BY NoneIsNoValue DEF Cells, Errors, Reasons, ParseReasons, MapReasons, SchemaReasons,
     Uncaught, MapErrors
<1>5. MapAndValidate(m, f) = IF error(r) # None THEN error(r)
                             ELSE IF Validates(doc(r)) THEN None ELSE "SCHEMA_INVALID"
  BY DEF MapAndValidate, MapRecord, RuleResults
<1>6. MapAndValidate(m, g) = IF error(q) # None THEN error(q)
                             ELSE IF Validates(doc(q)) THEN None ELSE "SCHEMA_INVALID"
  BY DEF MapAndValidate, MapRecord, RuleResults
<1> HIDE DEF names, r, q, n
<1>7. FirstError(r) = FirstError(q)
  <2>1. \A i \in 1..n : r[i] \in Errors <=> q[i] \in Errors
    BY <1>3, <1>4
  <2>2. \A i \in 1..n : r[i] \in Errors => r[i] = q[i]
    BY <1>3, <1>4
  <2>3. QED
    BY <1>1, <1>2, <2>1, <2>2, SameFirstError
<1>8. FirstError(r) \in MapErrors \cup {None}
  <2>1. CASE \E i \in 1..n : r[i] \in Errors
    <3>1. PICK i \in 1..n : r[i] \in Errors /\ FirstError(r) = r[i]
      BY <1>1, <1>2, <2>1, FirstErrorIs
    <3>2. QED
      BY <1>3, <1>4, <3>1
  <2>2. CASE \A i \in 1..n : r[i] \notin Errors
    BY <1>1, <1>2, <2>2, FirstErrorIs
  <2>3. QED
    BY <2>1, <2>2
<1>9. /\ DOMAIN doc(r) = DOMAIN doc(q)
      /\ \A x \in DOMAIN doc(r) :
            \/ doc(r)[x] = doc(q)[x]
            \/ doc(r)[x] \in {None, "ok"} /\ doc(q)[x] \in {None, "ok"} /\ x \notin m.required
  <2>1. CASE FirstError(r) # None
    BY <1>7, <2>1
  <2>2. CASE FirstError(r) = None
    <3>1. doc(r) = Fields(names, r) /\ doc(q) = Fields(names, q)
      BY <1>7, <2>2
    <3>2. DOMAIN Fields(names, r) = DOMAIN Fields(names, q)
      BY DEF Fields
    <3>3. ASSUME NEW x \in DOMAIN Fields(names, r)
          PROVE  LET a == Fields(names, r)[x]
                     b == Fields(names, q)[x]
                 IN  a = b \/ (a \in {None, "ok"} /\ b \in {None, "ok"} /\ x \notin m.required)
      <4> DEFINE i == LastNamed(names, n, x)
      <4>1. i \in 1..n /\ names[i] = x /\ Fields(names, r)[x] = r[i]
        BY <1>1, <1>2, FieldIsResult
      <4>2. Fields(names, q)[x] = q[i]
        BY <1>1, <1>2, <3>2, FieldIsResult
      <4> HIDE DEF i
      <4>3. QED
        BY <1>3, <4>1, <4>2
    <3> HIDE DEF doc
    <3>4. QED
      BY <3>1, <3>2, <3>3
  <2>3. QED
    BY <2>1, <2>2
<1> DEFINE d == doc(r)
           e == doc(q)
<1>10. missing(d) = missing(e)
  <2> HIDE DEF doc, d, e
  <2>1. \A x \in m.required : x \in DOMAIN d /\ d[x] # None <=> x \in DOMAIN e /\ e[x] # None
    BY <1>9 DEF d, e
  <2>2. QED
    BY <2>1
<1>11. Validates(d) <=> Validates(e)
  <2> HIDE DEF doc, d, e
  <2>1. \A x \in DOMAIN d : d[x] \in {None, "ok"} <=> e[x] \in {None, "ok"}
    BY <1>9 DEF d, e
  <2>2. DOMAIN d = DOMAIN e
    BY <1>9 DEF d, e
  <2>3. QED
    BY <2>1, <2>2 DEF Validates
<1>12. error(r) = error(q)
  <2> HIDE DEF doc, missing
  <2>1. QED
    BY <1>7, <1>10
<1>13. error(r) \in MapErrors \cup {None}
  <2> HIDE DEF doc, missing
  <2>1. QED
    BY <1>8 DEF MapErrors, MapReasons
<1> HIDE DEF error, doc
<1>14. QED
  BY <1>5, <1>6, <1>11, <1>12, <1>13 DEF d, e, SchemaReasons

-----------------------------------------------------------------------------
(* The router and the lane, over the same lines.                           *)

(* What the router decides begins with the parse, and what it decides of a *)
(* record that parses is what is decided of its curated row.               *)
LEMMA ParsedFirst ==
    ASSUME NEW m, ReadsByAlias(m), NEW line, line.cells \in Seq(Cells)
    PROVE  LET intake == RouteIntake(m, line)
               routed == Route(m, line)
           IN  /\ intake.line = line /\ routed.line = line
               /\ intake.reason \in ParseErrors \cup {None}
               /\ intake.door = IF intake.reason = None THEN "written" ELSE "rejected"
               /\ intake.reason # None => routed = intake
               /\ intake.reason = None =>
                     /\ routed.reason \in MapErrors \cup SchemaReasons \cup {None}
                     /\ \A branch \in {None, "ok"} : MapCurated(m, line, branch) = routed
<1> DEFINE parsed == ParseLine(m, line)
           intake == RouteIntake(m, line)
           routed == Route(m, line)
           f == parsed.fields
<1>1. /\ parsed.error \in ParseErrors \cup {None}
      /\ parsed.error = None =>
            /\ \A x : Get(f, x) \in Cells \cup {None}
            /\ "BRANCH_NAME" \notin DOMAIN f
  BY LineParsed
<1>2. \A reason : /\ Outcome(line, reason).line = line /\ Outcome(line, reason).reason = reason
                  /\ Outcome(line, reason).door = IF reason = None THEN "written" ELSE "rejected"
  BY DEF Outcome
<1>3. intake = Outcome(line, parsed.error)
  BY DEF RouteIntake
<1> HIDE DEF parsed, f
<1>4. /\ intake.line = line /\ intake.reason = parsed.error
      /\ intake.door = IF intake.reason = None THEN "written" ELSE "rejected"
  BY <1>2, <1>3
<1>5. routed = IF intake.reason # None THEN intake ELSE Outcome(line, MapAndValidate(m, f))
  BY DEF Route, f, parsed
<1>6. ASSUME parsed.error = None, NEW branch \in {None, "ok"}
      PROVE  /\ MapAndValidate(m, f) = MapAndValidate(m, CuratedRowToFields(m, f, branch))
             /\ MapAndValidate(m, f) \in MapErrors \cup SchemaReasons \cup {None}
  <2> DEFINE g == CuratedRowToFields(m, f, branch)
  <2>1. /\ \A x \in m.aliases : x # "BRANCH_NAME" => Get(g, x) = Get(f, x)
        /\ "BRANCH_NAME" \in m.aliases => Get(g, "BRANCH_NAME") = branch
        /\ Get(f, "BRANCH_NAME") = None
    BY <1>1, <1>6, CuratedFields
  <2> HIDE DEF g
  <2>2. /\ MapAndValidate(m, f) = MapAndValidate(m, g)
        /\ MapAndValidate(m, f) \in MapErrors \cup SchemaReasons \cup {None}
    BY <1>1, <1>6, <2>1, MappedAlike
  <2>3. QED
    BY <2>2 DEF g
<1>7. \A branch : MapCurated(m, line, branch)
                     = Outcome(line, MapAndValidate(m, CuratedRowToFields(m, f, branch)))
  BY DEF MapCurated, f, parsed
<1> HIDE DEF intake, routed
<1>8. ASSUME intake.reason = None
      PROVE  /\ routed.reason \in MapErrors \cup SchemaReasons \cup {None} /\ routed.line = line
             /\ \A branch \in {None, "ok"} : MapCurated(m, line, branch) = routed
  <2>1. parsed.error = None /\ routed = Outcome(line, MapAndValidate(m, f))
    BY <1>4, <1>5, <1>8
  <2>2. MapAndValidate(m, f) \in MapErrors \cup SchemaReasons \cup {None}
    BY <1>6, <2>1
  <2>3. \A branch \in {None, "ok"} : MapCurated(m, line, branch) = routed
    BY <1>6, <1>7, <2>1
  <2>4. QED
    BY <1>2, <2>1, <2>2, <2>3
<1>9. QED
  BY <1>1, <1>4, <1>5, <1>8 DEF intake, routed

(* The stage of a reject tells where the decision was taken.               *)
LEMMA StageIs ==
    ASSUME NEW m, ReadsByAlias(m), NEW line, line.cells \in Seq(Cells),
           Route(m, line).reason # Uncaught
    PROVE  LET intake == RouteIntake(m, line)
               routed == Route(m, line)
           IN  /\ StageOf(routed.reason) = "parse" <=> intake.door = "rejected"
               /\ intake.door = "rejected" => routed = intake
<1> DEFINE intake == RouteIntake(m, line)
           routed == Route(m, line)
<1>1. /\ intake.reason \in ParseErrors \cup {None}
      /\ intake.door = IF intake.reason = None THEN "written" ELSE "rejected"
      /\ intake.reason # None => routed = intake
      /\ intake.reason = None => routed.reason \in MapErrors \cup SchemaReasons \cup {None}
  BY ParsedFirst
<1> HIDE DEF intake, routed
<1>2. \A reason : StageOf(reason) = "parse" <=> reason \in ParseReasons
  BY DEF StageOf
<1>3. routed.reason # Uncaught
  BY DEF routed
<1>4. (MapErrors \cup SchemaReasons \cup {None}) \cap ParseReasons = {}
  BY NoneIsNoValue DEF MapErrors, MapReasons, SchemaReasons, ParseReasons, Uncaught, Errors, Reasons
<1>5. CASE intake.reason = None
  <2>1. intake.door = "written" /\ routed.reason \notin ParseReasons
    BY <1>1, <1>4, <1>5
  <2>2. QED
    BY <1>2, <2>1 DEF intake, routed
<1>6. CASE intake.reason # None
  <2>1. intake.door = "rejected" /\ routed = intake
    BY <1>1, <1>6
  <2>2. intake.reason \in ParseErrors /\ intake.reason # Uncaught
    BY <1>1, <1>3, <1>6, <2>1
  <2>3. intake.reason \in ParseReasons
    BY <2>2 DEF ParseErrors
  <2>4. QED
    BY <1>2, <2>1, <2>3 DEF intake, routed
<1>7. QED
  BY <1>5, <1>6

-----------------------------------------------------------------------------
(* The lines of a bundle without the numbers of their files.               *)
TextOf(b) == [k \in DOMAIN LinesOf(b) |-> LinesOf(b)[k].line]

(* The router goes over the lines of the bundle that a job has read, which *)
(* has loaded its contract; none of the lines it has passed has raised,    *)
(* and it ends when it has passed them all.                                *)
AgreeInv ==
    /\ job.pc # "idle" => mapping # None
    /\ generator # "unstarted" => job.pc = "done" /\ input = TextOf(job.bundle)
    /\ generator = "unstarted" => next = 1
    /\ \A i \in 1..(next - 1) : ~Skipped(input[i]) => Route(mapping, input[i]).reason # Uncaught
    /\ generator = "exhausted" => next > Len(input)

(* It holds before anything has run.                                       *)
LEMMA AgreeInvInit == Init => AgreeInv
<1> SUFFICES ASSUME Init PROVE AgreeInv
  OBVIOUS
<1>1. job.pc = "idle" /\ generator = "unstarted" /\ next = 1
  BY DEF Init, BatchInit, IdleJob
<1>2. 1..(next - 1) = {}
  BY <1>1
<1>3. QED
  BY <1>1, <1>2 DEF AgreeInv

(* A job that is at work has loaded its contract.                          *)
LEMMA LoadedStays ==
    ASSUME Next, LaneOnly, JobShape, job.pc # "idle" => mapping # None
    PROVE  job'.pc # "idle" => mapping # None
<1> SUFFICES ASSUME job'.pc # "idle" PROVE mapping # None
  OBVIOUS
<1>1. \A n : [IdleJob EXCEPT !.pc = "flag"].pc = "flag" /\ IdleJob.pc = "idle"
  BY DEF IdleJob
<1>2. \/ job.pc # "idle" \/ mapping # None
  <2>1. CASE UNCHANGED job
    BY <2>1
  <2>2. CASE StartAttempt
    BY <1>1, <2>2 DEF StartAttempt
  <2>3. CASE ReadBundle \/ ParseNext \/ WriteLedger
    BY <2>3 DEF ReadBundle, ParseNext, WriteLedger
  <2>4. CASE \E t \in {"src", "rejects", "lineage"} : WriteBatch(t)
    BY <2>4 DEF WriteBatch
  <2>5. CASE BundleRaises \/ BundleFails \/ PodDies
    BY <2>5 DEF BundleRaises, BundleFails, PodDies, Running
  <2>6. \A source \in Sources : Extract(source) => UNCHANGED job
    BY DEF Extract
  <2>7. RaiseFlag \/ ExtractorDies \/ Damage \/ StrayReads => UNCHANGED job
    BY DEF RaiseFlag, ExtractorDies, Damage, StrayReads
  <2>8. StartRouter \/ RouterStep => UNCHANGED job
    BY DEF StartRouter, RouterStep, fileVars
  <2>9. QED
    BY <2>1, <2>2, <2>3, <2>4, <2>5, <2>6, <2>7, <2>8 DEF Next
<1>3. QED
  BY <1>2

(* Every step keeps it.                                                    *)
LEMMA AgreeInvStep == AgreeInv /\ CutInv /\ FileInv /\ [Next]_vars => AgreeInv'
<1> SUFFICES ASSUME AgreeInv, CutInv, FileInv, [Next]_vars PROVE AgreeInv'
  OBVIOUS
<1>0. next \in 1..(Len(input) + 1) /\ Len(input) \in Nat
  BY DEF CutInv, RouterShape
<1>1. CASE Next /\ LaneOnly
  <2>1. UNCHANGED <<mapping, input, next, generator>> /\ generator = "unstarted"
    BY <1>1 DEF LaneOnly, batchVars
  <2>2. job'.pc # "idle" => mapping # None
    BY <1>1, LoadedStays DEF AgreeInv, FileInv
  <2>3. QED
    BY <2>1, <2>2 DEF AgreeInv, Skipped
<1>2. CASE StartRouter
  <2>1. /\ job.pc = "done" /\ input' = TextOf(job.bundle) /\ generator = "unstarted"
        /\ generator' = "running" /\ UNCHANGED <<mapping, next, job>>
    BY <1>2 DEF StartRouter, StartBatches, RouterStep, fileVars, TextOf
  <2>2. next = 1 /\ 1..(next - 1) = {}
    BY <2>1 DEF AgreeInv
  <2>3. QED
    BY <2>1, <2>2 DEF AgreeInv
<1>3. CASE SkipLine /\ RouterStep
  <2>1. /\ generator = "running" /\ Skipped(input[next]) /\ next' = next + 1
        /\ UNCHANGED <<mapping, input, generator, job>>
    BY <1>3 DEF SkipLine, RouterStep, fileVars
  <2>2. \A i \in 1..(next' - 1) : i \in 1..(next - 1) \/ i = next
    BY <1>0, <2>1
  <2>3. QED
    BY <2>1, <2>2 DEF AgreeInv, Skipped
<1>4. CASE RouteNext /\ RouterStep
  <2>1. /\ generator = "running" /\ Route(mapping, input[next]).reason # Uncaught /\ next' = next + 1
        /\ UNCHANGED <<mapping, input, generator, job>>
    BY <1>4 DEF RouteNext, RouterStep, fileVars
  <2>2. \A i \in 1..(next' - 1) : i \in 1..(next - 1) \/ i = next
    BY <1>0, <2>1
  <2>3. QED
    BY <2>1, <2>2 DEF AgreeInv, Skipped
<1>5. CASE RouteRaises /\ RouterStep
  <2>1. /\ generator = "running" /\ generator' = "raised"
        /\ UNCHANGED <<mapping, input, next, job>>
    BY <1>5 DEF RouteRaises, RouterStep, fileVars
  <2>2. QED
    BY <2>1 DEF AgreeInv, Skipped
<1>6. CASE EndOfInput /\ RouterStep
  <2>1. /\ generator = "running" /\ generator' = "exhausted" /\ next > Len(input)
        /\ UNCHANGED <<mapping, input, next, job>>
    BY <1>6 DEF EndOfInput, RouterStep, fileVars
  <2>2. QED
    BY <2>1 DEF AgreeInv, Skipped
<1>7. CASE UNCHANGED vars
  <2>1. UNCHANGED <<mapping, input, next, generator, job>>
    BY <1>7 DEF vars, batchVars, fileVars
  <2>2. QED
    BY <2>1 DEF AgreeInv, Skipped
<1>8. CASE Next
  BY <1>1, <1>2, <1>3, <1>4, <1>5, <1>6, <1>8, StepIsOneOf
<1>9. QED
  BY <1>7, <1>8

SumRead == MapThenSumSet(LAMBDA b : Batch(b).srcRead, DOMAIN yielded)
StepOfRead(f, s) == IF s = {} THEN 0 ELSE Batch(Pick(s)).srcRead + f[s \ {Pick(s)}]
IsRead(f) == f = [s \in SUBSET DOMAIN yielded |-> StepOfRead(f, s)]
Reads == [b \in DOMAIN yielded |-> Batch(b).srcRead]
Rejecteds == [b \in DOMAIN yielded |-> Batch(b).rejected]

(* What the batches count as read, likewise.                               *)
LEMMA ReadIsTotal ==
    ASSUME IsFiniteSet(DOMAIN yielded), \A b \in DOMAIN yielded : Batch(b).srcRead \in Nat
    PROVE  SumRead = Total(Reads)
<1> DEFINE S == DOMAIN yielded
           g == Reads
           f == CHOOSE q : IsRead(q)
<1>1. SumRead = (CHOOSE q : IsRead(q))[S]
  BY Zenon DEF SumRead, MapThenSumSet, MapThenFoldSet, IsRead, StepOfRead, Pick
<1>2. \A q : \A s \in SUBSET S : StepOfRead(q, s) = StepOfSum(g, q, s)
  <2>1. TAKE q
  <2>2. TAKE s \in SUBSET S
  <2>3. s # {} => Pick(s) \in S
    BY DEF Pick
  <2>4. s # {} => g[Pick(s)] = Batch(Pick(s)).srcRead
    BY <2>3 DEF Reads
  <2>5. QED
    BY <2>4 DEF StepOfRead, StepOfSum
<1>3. DOMAIN g = S /\ \A x \in S : g[x] \in Nat
  BY DEF Reads
<1> HIDE DEF g, f
<1>4. ASSUME NEW q PROVE IsRead(q) <=> IsSum(q, g, S)
  <2>1. [s \in SUBSET S |-> StepOfRead(q, s)] = [s \in SUBSET S |-> StepOfSum(g, q, s)]
    BY <1>2, Zenon
  <2>2. QED
    BY <2>1, Zenon DEF IsRead, IsSum
<1>5. IsRead(f)
  <2>1. PICK q : IsSum(q, g, S)
    BY SumExists
  <2>2. IsRead(q)
    BY <1>4, <2>1
  <2>3. QED
    BY <2>2, Zenon DEF f
<1>6. f[S] = Cardinality(Copies(g, S))
  <2>1. IsSum(f, g, S)
    BY <1>4, <1>5
  <2> HIDE DEF S
  <2>2. IsFiniteSet(S)
    BY DEF S
  <2>3. QED
    BY <1>3, <2>1, <2>2, SumIsCopies
<1>7. Total(g) = Cardinality(Copies(g, S))
  <2> HIDE DEF S
  <2>1. IsFiniteSet(DOMAIN g)
    BY <1>3 DEF S
  <2>2. QED
    BY <1>3, <2>1, FoldCounts
<1>8. QED
  BY <1>1, <1>6, <1>7, Zenon DEF f, g

(* The rejects of the batches, laid end to end: the lines that the router  *)
(* has rejected, each with the reason it has for it.                       *)
Rejects == FlattenSeq([b \in DOMAIN yielded |-> Batch(b).rejects])

LEMMA RejectsAre ==
    ASSUME RouterInv, CutInv, generator = "exhausted"
    PROVE  LET lines == RoutedTo("rejected")
           IN  /\ Rejects \in Seq(Rejectable) /\ Len(Rejects) = Len(lines)
               /\ Len(Rejects) = Total(Rejecteds)
               /\ \A k \in 1..Len(Rejects) :
                     Rejects[k] = [line |-> lines[k], reason |-> Route(mapping, lines[k]).reason]
<1> DEFINE s == [b \in DOMAIN yielded |-> Batch(b).rejects]
           y == Len(yielded)
           f == [x \in Rejectable |-> x.line]
           L == {x.line : x \in Rejectable}
           lines == RoutedTo("rejected")
           F == Rejects
<1>1. DOMAIN yielded = 1..y /\ y \in Nat
  BY EntriesAre
<1>2. ASSUME NEW b \in 1..y PROVE Batch(b) \in Entry
  <2>1. object \in Seq(Entry) /\ Len(object) = current
    BY DEF RouterInv, HeapInv, CutInv, CutAt
  <2>2. b \in 1..current /\ Batch(b) = object[b]
    BY EntriesAre
  <2>3. QED
    BY <2>1, <2>2
<1>3. \A b \in 1..y : Batch(b).rejects \in Seq(Rejectable) /\ Batch(b).rejected = Len(Batch(b).rejects)
  BY <1>2 DEF Entry, Tallied
<1>4. s \in Seq(Seq(Rejectable)) /\ Len(s) = y /\ \A b \in 1..y : s[b] = Batch(b).rejects
  BY <1>1, <1>3
<1>5. F = FlattenSeq(s)
  BY DEF Rejects
<1> HIDE DEF s
<1>6. F \in Seq(Rejectable) /\ Len(F) = Total(Rejecteds)
  <2>1. Rejecteds = [i \in 1..Len(s) |-> Len(s[i])]
    BY <1>1, <1>3, <1>4 DEF Rejecteds
  <2>2. QED
    BY <1>4, <1>5, <2>1, LengthOfFlat
<1> DEFINE q == [b \in DOMAIN yielded |-> [k \in DOMAIN Batch(b).rejects |-> Batch(b).rejects[k].line]]
<1>7. lines = FlattenSeq(q)
  BY PartitionFromInv DEF BatchesPartition
<1>8. Len(lines) = Len(F) /\ \A k \in 1..Len(F) : lines[k] = F[k].line
  <2>1. \A x \in Rejectable : f[x] = x.line /\ f[x] \in L
    OBVIOUS
  <2> HIDE DEF f, L
  <2>2. ASSUME NEW n \in 1..y
        PROVE  /\ q[n] \in Seq(L) /\ Len(q[n]) = Len(s[n])
               /\ \A k \in 1..Len(s[n]) : q[n][k] = f[s[n][k]]
    <3> DEFINE v == s[n]
    <3>1. v = Batch(n).rejects /\ v \in Seq(Rejectable)
      BY <1>3, <1>4
    <3>2. q[n] = [k \in DOMAIN v |-> v[k].line]
      BY <1>1, <3>1
    <3> HIDE DEF v, q
    <3>3. DOMAIN v = 1..Len(v) /\ Len(v) \in Nat /\ \A k \in 1..Len(v) : v[k] \in Rejectable
      BY <3>1
    <3>4. \A k \in 1..Len(v) : v[k].line \in L /\ f[v[k]] = v[k].line
      BY <2>1, <3>3
    <3>5. QED
      BY <3>2, <3>3, <3>4 DEF v
  <2>3. q \in Seq(Seq(L)) /\ Len(q) = y
    <3>1. DOMAIN q = 1..y /\ q = [n \in 1..y |-> q[n]]
      BY <1>1
    <3> HIDE DEF q
    <3>2. QED
      BY <1>1, <2>2, <3>1
  <2> HIDE DEF q, lines, F, y
  <2>4. Maps(f, FlattenSeq(s), FlattenSeq(q))
    <3>1. s \in Seq(Seq(Rejectable)) /\ q \in Seq(Seq(L)) /\ Len(q) = Len(s)
      BY <1>4, <2>3
    <3>2. \A n \in 1..Len(s) : Maps(f, s[n], q[n])
      BY <1>4, <2>2 DEF Maps
    <3>3. \A x \in Rejectable : f[x] \in L
      BY <2>1
    <3>4. QED
      BY <3>1, <3>2, <3>3, FlatOfImages
  <2>5. \A k \in 1..Len(F) : F[k] \in Rejectable
    BY <1>6
  <2>6. QED
    BY <1>5, <1>7, <2>1, <2>4, <2>5 DEF Maps
<1>9. ASSUME NEW k \in 1..Len(F)
      PROVE  F[k] = [line |-> lines[k], reason |-> Route(mapping, lines[k]).reason]
  <2>1. F[k] \in Rejectable /\ lines[k] = F[k].line
    BY <1>6, <1>8
  <2> HIDE DEF F, lines
  <2>2. PICK i \in Nat : F[k] = [line |-> Route(mapping, input[i]).line,
                                 reason |-> Route(mapping, input[i]).reason]
    BY <2>1 DEF Rejectable
  <2>3. Route(mapping, input[i]).line = input[i]
    BY RouteAbout
  <2>4. lines[k] = input[i]
    BY <2>1, <2>2, <2>3
  <2>5. QED
    BY <2>2, <2>3, <2>4
<1>10. QED
  BY <1>6, <1>8, <1>9

(* Every line that is not skipped leaves the router through one door.      *)
Unskipped(m, in) == {i \in 1..Len(in) : ~(IsBlank(in[i]) \/ IsHeader(m, in[i]))}

LEMMA ReadIsRouted ==
    ASSUME RouterInv, CutInv, AgreeInv, generator = "exhausted"
    PROVE  SumRead = Len(ElementsAt(input, Unskipped(mapping, input)))
<1> DEFINE y == Len(yielded)
           w == RoutedTo("written")
           r == RoutedTo("rejected")
           P == Routing(mapping, input, "written")
           R == Routing(mapping, input, "rejected")
<1>1. DOMAIN yielded = 1..y /\ y \in Nat
  BY EntriesAre
<1>2. ASSUME NEW b \in 1..y PROVE Batch(b) \in Entry
  <2>1. object \in Seq(Entry) /\ Len(object) = current
    BY DEF RouterInv, HeapInv, CutInv, CutAt
  <2>2. b \in 1..current /\ Batch(b) = object[b]
    BY EntriesAre
  <2>3. QED
    BY <2>1, <2>2
<1>3. \A b \in 1..y : /\ Batch(b).srcRead \in Nat /\ Batch(b).written \in Nat /\ Batch(b).rejected \in Nat
                      /\ Batch(b).srcRead = Batch(b).written + Batch(b).rejected
  BY <1>2 DEF Entry, Tallied, Balances
<1>4. IsFiniteSet(DOMAIN yielded)
  BY <1>1, FS_Interval
<1>5. SumRead = Total(Reads) /\ SumWritten = Total(Writtens)
  BY <1>1, <1>3, <1>4, ReadIsTotal, WrittenIsTotal
<1>6. Total(Reads) = Total(Writtens) + Total(Rejecteds)
  <2>1. Series(Reads, y) /\ Series(Writtens, y) /\ Series(Rejecteds, y)
    BY <1>1, <1>3 DEF Series, Reads, Writtens, Rejecteds
  <2>2. \A b \in 1..y : Reads[b] = Writtens[b] + Rejecteds[b]
    BY <1>1, <1>3 DEF Reads, Writtens, Rejecteds
  <2>3. QED
    BY <1>1, <2>1, <2>2, SumOfBoth
<1>7. SumWritten = Len(w)
  BY PartitionFromInv, Zenon DEF BatchesPartition, SumWritten
<1>8. Total(Rejecteds) = Len(r)
  BY RejectsAre
<1>9. /\ input \in Seq(AllLines) /\ Len(input) \in Nat /\ next - 1 = Len(input)
      /\ next \in Nat
  <2>1. input \in Seq(AllLines) /\ next \in 1..(Len(input) + 1)
    BY DEF CutInv, RouterShape
  <2>2. next > Len(input)
    BY DEF AgreeInv
  <2>3. QED
    BY <2>1, <2>2
<1>10. w = ElementsAt(input, P) /\ r = ElementsAt(input, R)
  <2>1. \A places : ElementsAt(input, places \cap (1..Len(input))) = ElementsAt(input, places)
    BY <1>9, PlacesWithin
  <2>2. \A door : RoutedTo(door) = ElementsAt(input, Routing(mapping, input, door) \cap (1..(next - 1)))
    BY RoutedToIs DEF RoutedUpTo
  <2>3. QED
    BY <1>9, <2>1, <2>2
<1>11. P \cup R = Unskipped(mapping, input) /\ \A i \in 1..Len(input) : ~(i \in P /\ i \in R)
  BY RouteAbout DEF Routing, Unskipped, Doors
<1> HIDE DEF P, R, w, r
<1>12. /\ Len(ElementsAt(input, P \cup R)) = Len(ElementsAt(input, P)) + Len(ElementsAt(input, R))
  BY <1>9, <1>11, CountApart
<1>13. QED
  BY <1>5, <1>6, <1>7, <1>8, <1>10, <1>11, <1>12

(* The lines of a bundle that are not skipped, and the numbered lines that *)
(* the parse alone sends to a door.                                        *)
Unread(m, lines) ==
    {k \in 1..Len(lines) : ~(IsBlank(lines[k].line) \/ IsHeader(m, lines[k].line))}
Intake(m, door) == {e \in Numbered(AllLines) : RouteIntake(m, e.line).door = door}
AtIntake(m, b, door) == Unread(m, LinesOf(b)) \cap Within(LinesOf(b), Intake(m, door))

(* The text of a bundle is that of its lines, one by one.                  *)
LEMMA TextIs ==
    ASSUME NEW b, LinesOf(b) \in Seq(Numbered(AllLines)), NEW f,
           \A e \in Numbered(AllLines) : f[e] = e.line
    PROVE  /\ Maps(f, LinesOf(b), TextOf(b)) /\ Len(LinesOf(b)) \in Nat
           /\ \A k \in 1..Len(LinesOf(b)) : LinesOf(b)[k] \in Numbered(AllLines)
                                            /\ TextOf(b)[k] = LinesOf(b)[k].line
           /\ \A m : Unskipped(m, TextOf(b)) = Unread(m, LinesOf(b))
<1> DEFINE s == LinesOf(b)
           t == TextOf(b)
           n == Len(s)
<1>1. /\ n \in Nat /\ DOMAIN s = 1..n /\ \A k \in 1..n : s[k] \in Numbered(AllLines)
  OBVIOUS
<1>2. t = [k \in 1..n |-> s[k].line]
  BY <1>1 DEF TextOf
<1> HIDE DEF s, t, n
<1>3. Len(t) = n /\ \A k \in 1..n : t[k] = s[k].line
  BY <1>1, <1>2
<1>4. Len(t) = Len(s) /\ \A k \in 1..Len(s) : t[k] = f[s[k]]
  BY <1>1, <1>3 DEF n
<1>5. \A m : Unskipped(m, t) = Unread(m, s)
  BY <1>3 DEF Unskipped, Unread, n
<1>6. QED
  BY <1>1, <1>3, <1>4, <1>5 DEF Maps, s, t, n

(* The records of a bundle, by the places of its lines.                    *)
LEMMA RecsByPlace ==
    ASSUME NEW m, NEW b, LinesOf(b) \in Seq(Numbered(AllLines))
    PROVE  Recs(m, b) = ElementsAt(LinesOf(b), Unread(m, LinesOf(b)))
<1> DEFINE s == LinesOf(b)
<1>1. DOMAIN s = 1..Len(s)
  OBVIOUS
<1>2. {k \in DOMAIN s : ~(IsBlank(s[k].line) \/ IsHeader(m, s[k].line))} = Unread(m, s)
  BY <1>1, Zenon DEF Unread
<1>3. QED
  BY <1>2, Zenon DEF Recs

(* The router reads as many lines as the job has counted records.          *)
LEMMA ReadAlike ==
    ASSUME NEW m, NEW b, LinesOf(b) \in Seq(Numbered(AllLines))
    PROVE  Len(ElementsAt(TextOf(b), Unskipped(m, TextOf(b)))) = Len(Recs(m, b))
<1> DEFINE f == [e \in Numbered(AllLines) |-> e.line]
           s == LinesOf(b)
           t == TextOf(b)
           p == Unread(m, s)
           u == ElementsAt(s, p)
           v == ElementsAt(t, p)
<1>1. \A e \in Numbered(AllLines) : f[e] = e.line
  OBVIOUS
<1> HIDE DEF f
<1>2. Maps(f, s, t) /\ Unskipped(m, t) = p
  BY <1>1, TextIs
<1>3. Maps(f, u, v)
  <2>1. s \in Seq(Numbered(AllLines))
    OBVIOUS
  <2> HIDE DEF s, t, p
  <2>2. QED
    BY <1>2, <2>1, PlacesOfImages
<1>4. Len(v) = Len(u)
  BY <1>3 DEF Maps
<1>5. Recs(m, b) = u
  BY RecsByPlace
<1> HIDE DEF s, t, p
<1>6. QED
  BY <1>2, <1>4, <1>5 DEF t

(* A record is a line with cells.                                          *)
Celled == {e \in Numbered(AllLines) : e.line.cells \in Seq(Cells)}
LEMMA FullIsCelled ==
    ASSUME NEW e \in Numbered(AllLines), ~IsBlank(e.line)
    PROVE  e \in Celled
<1>1. e.line # Blank
  BY SourcesAreLines
<1>2. PICK source \in Sources : e.line \in {source[k] : k \in DOMAIN source}
  BY <1>1 DEF Numbered, AllLines
<1>3. e.line.cells \in Seq(Cells)
  BY <1>2, SourcesAreLines
<1>4. QED
  BY <1>3 DEF Celled

LEMMA RecsCelled ==
    ASSUME NEW m, NEW b, LinesOf(b) \in Seq(Numbered(AllLines))
    PROVE  Recs(m, b) \in Seq(Celled)
<1> DEFINE s == LinesOf(b)
           p == Unread(m, s)
<1>1. Len(s) \in Nat /\ \A k \in 1..Len(s) : s[k] \in Numbered(AllLines)
  OBVIOUS
<1>2. \A k \in 1..Len(s) : k \in p => s[k] \in Celled
  <2>1. \A k \in p : ~IsBlank(s[k].line)
    BY DEF Unread
  <2>2. QED
    BY <1>1, <2>1, FullIsCelled
<1>3. Recs(m, b) = ElementsAt(s, p)
  BY RecsByPlace
<1> HIDE DEF s, p
<1>4. ElementsAt(s, p) \in Seq(Celled)
  BY <1>1, <1>2, PlacesTyped
<1>5. QED
  BY <1>3, <1>4

(* The rows that a bundle puts into a table are those of the records that  *)
(* the parse sends to its door.                                            *)
LEMMA RowsByPlace ==
    ASSUME NEW m, NEW b, LinesOf(b) \in Seq(Numbered(AllLines)), NEW t, NEW f,
           \A e \in Numbered(AllLines) : f[e] = RowAt(m, e, t)
    PROVE  LET u == ElementsAt(LinesOf(b), AtIntake(m, b, DoorOf(t)))
               v == RowsTo(m, b, t, Len(Recs(m, b)))
           IN  /\ u \in Seq(Celled) /\ u \in Seq(Intake(m, DoorOf(t)))
               /\ DOMAIN v = 1..Len(u) /\ Maps(f, u, v)
<1> DEFINE d == Intake(m, DoorOf(t))
           s == LinesOf(b)
           r == Recs(m, b)
           n == Len(r)
           q == RowSeq(m, b, t)
           p == Within(r, d)
           a == ElementsAt(r, p)
           v == RowsTo(m, b, t, n)
<1>1. r \in Seq(Celled) /\ r = ElementsAt(s, Unread(m, s))
  BY RecsCelled, RecsByPlace
<1>2. a = ElementsAt(s, Unread(m, s) \cap Within(s, d))
  <2>1. s \in Seq(Numbered(AllLines))
    OBVIOUS
  <2> HIDE DEF s, d
  <2> DEFINE pp == Unread(m, s)
  <2> HIDE DEF pp
  <2>2. LET e == ElementsAt(s, pp)
        IN  ElementsAt(e, Within(e, d)) = ElementsAt(s, pp \cap Within(s, d))
    BY <2>1, PlacesWithinPlaces
  <2>3. r = ElementsAt(s, pp)
    BY <1>1 DEF pp
  <2>4. QED
    BY <2>2, <2>3 DEF pp
<1>3. q = [k \in DOMAIN r |-> RowAt(m, r[k], t)]
  BY DEF RowSeq
<1>4. Through(m, b, t) = {k \in DOMAIN r : RouteIntake(m, r[k].line).door = DoorOf(t)}
  BY DEF Through
<1>5. v = ElementsAt(q, Through(m, b, t) \cap (1..n))
  BY DEF RowsTo
<1> HIDE DEF r, q, v
<1>6. /\ n \in Nat /\ DOMAIN r = 1..n /\ \A k \in 1..n : r[k] \in Celled /\ r[k] \in Numbered(AllLines)
  BY <1>1 DEF Celled
<1>7. Through(m, b, t) \cap (1..n) = p
  BY <1>4, <1>6 DEF Within, Intake
<1>8. Maps(f, r, q)
  <2>1. Len(q) = n /\ \A k \in 1..n : q[k] = RowAt(m, r[k], t)
    BY <1>3, <1>6
  <2>2. QED
    BY <1>6, <2>1 DEF Maps
<1> HIDE DEF d, p, n
<1>9. a \in Seq(Celled) /\ DOMAIN v = 1..Len(a) /\ Maps(f, a, v)
  <2>1. /\ ElementsAt(r, p) \in Seq(Celled)
        /\ DOMAIN ElementsAt(q, p) = 1..Len(ElementsAt(r, p))
        /\ Maps(f, ElementsAt(r, p), ElementsAt(q, p))
    BY <1>1, <1>8, PlacesOfImages
  <2>2. v = ElementsAt(q, p)
    BY <1>5, <1>7
  <2>3. QED
    BY <2>1, <2>2
<1>10. a \in Seq(d)
  <2>1. Len(r) \in Nat /\ \A k \in 1..Len(r) : k \in p => r[k] \in d
    BY <1>6 DEF p, Within, n
  <2>2. QED
    BY <2>1, PlacesTyped
<1> HIDE DEF a
<1>11. QED
  BY <1>2, <1>9, <1>10 DEF s, d, v, n, r, AtIntake

(* The records that the router rejects at the parse are those that the     *)
(* parse alone rejects.                                                    *)
AtParse(m) == {e \in Numbered(AllLines) : StageOf(Route(m, e.line).reason) = "parse"}
NoneUncaught(m, in) ==
    \A i \in 1..Len(in) :
       ~(IsBlank(in[i]) \/ IsHeader(m, in[i])) => Route(m, in[i]).reason # Uncaught
AtRouter(m, b) == Routing(m, TextOf(b), "rejected") \cap Within(LinesOf(b), AtParse(m))
LEMMA PlacesAlike ==
    ASSUME NEW m, ReadsByAlias(m), NEW b, LinesOf(b) \in Seq(Numbered(AllLines)),
           NoneUncaught(m, TextOf(b))
    PROVE  AtRouter(m, b) = AtIntake(m, b, "rejected")
<1> DEFINE s == LinesOf(b)
           t == TextOf(b)
           n == Len(s)
           f == [e \in Numbered(AllLines) |-> e.line]
<1>1. \A e \in Numbered(AllLines) : f[e] = e.line
  OBVIOUS
<1> HIDE DEF f
<1>2. /\ n \in Nat /\ Len(t) = n
      /\ \A k \in 1..n : s[k] \in Numbered(AllLines) /\ t[k] = s[k].line
  BY <1>1, TextIs DEF Maps
<1> HIDE DEF s, t, n
<1>3. ASSUME NEW k \in 1..n
      PROVE  k \in Routing(m, t, "rejected") /\ s[k] \in AtParse(m)
               <=> k \in Unread(m, s) /\ s[k] \in Intake(m, "rejected")
  <2> DEFINE x == s[k].line
             skipped == IsBlank(x) \/ IsHeader(m, x)
             intake == RouteIntake(m, x)
             routed == Route(m, x)
  <2>1. k \in Routing(m, t, "rejected") <=> ~skipped /\ routed.door = "rejected"
    BY <1>2 DEF Routing
  <2>2. s[k] \in AtParse(m) <=> StageOf(routed.reason) = "parse"
    BY <1>2 DEF AtParse
  <2>3. k \in Unread(m, s) <=> ~skipped
    BY DEF Unread, n
  <2>4. s[k] \in Intake(m, "rejected") <=> intake.door = "rejected"
    BY <1>2 DEF Intake
  <2>5. ASSUME ~skipped
        PROVE  /\ StageOf(routed.reason) = "parse" <=> intake.door = "rejected"
               /\ intake.door = "rejected" => routed = intake
    <3>1. s[k] \in Celled
      BY <1>2, <2>5, FullIsCelled
    <3>2. routed.reason # Uncaught
      BY <1>2, <2>5 DEF NoneUncaught, t
    <3>3. x.cells \in Seq(Cells)
      BY <3>1 DEF Celled
    <3> HIDE DEF x
    <3>4. QED
      BY <3>2, <3>3, StageIs
  <2> HIDE DEF skipped, intake, routed
  <2>6. QED
    BY <2>1, <2>2, <2>3, <2>4, <2>5
<1>4. \A k : k \in AtRouter(m, b)
              <=> k \in 1..n /\ k \in Routing(m, t, "rejected") /\ s[k] \in AtParse(m)
  BY DEF AtRouter, Within, s, t, n
<1>5. \A k : k \in AtIntake(m, b, "rejected")
              <=> k \in 1..n /\ k \in Unread(m, s) /\ s[k] \in Intake(m, "rejected")
  BY DEF AtIntake, Within, s, n
<1>6. \A k : k \in AtRouter(m, b) <=> k \in AtIntake(m, b, "rejected")
  BY <1>3, <1>4, <1>5
<1>7. QED
  BY <1>6 DEF AtRouter, AtIntake

(* On them the two say the same.                                           *)
LEMMA SameReason ==
    ASSUME NEW m, ReadsByAlias(m), NEW e \in Celled, RouteIntake(m, e.line).door = "rejected"
    PROVE  Route(m, e.line) = RouteIntake(m, e.line)
<1> DEFINE x == e.line
<1>1. x.cells \in Seq(Cells)
  BY DEF Celled
<1> HIDE DEF x
<1>2. /\ RouteIntake(m, x).door = IF RouteIntake(m, x).reason = None THEN "written" ELSE "rejected"
      /\ RouteIntake(m, x).reason # None => Route(m, x) = RouteIntake(m, x)
  BY <1>1, ParsedFirst
<1>3. RouteIntake(m, x).reason # None
  BY <1>2 DEF x
<1>4. QED
  BY <1>2, <1>3 DEF x

(* What the router rejects, from the lines of the bundle.                  *)
RejectedAs(m, line) == [line |-> line, reason |-> Route(m, line).reason]
AtTheParse(r) == {k \in DOMAIN r : StageOf(r[k].reason) = "parse"}
LEMMA RejectsAtParse ==
    ASSUME NEW m, NEW b, LinesOf(b) \in Seq(Numbered(AllLines)),
           NEW T, NEW r \in Seq(T),
           NEW q, q = ElementsAt(TextOf(b), Routing(m, TextOf(b), "rejected")),
           Len(r) = Len(q),
           \A k \in 1..Len(r) : r[k] = RejectedAs(m, q[k]),
           NEW f, \A e \in Numbered(AllLines) : f[e] = RejectedAs(m, e.line)
    PROVE  /\ ElementsAt(r, AtTheParse(r)) \in Seq(T)
           /\ Maps(f, ElementsAt(LinesOf(b), AtRouter(m, b)), ElementsAt(r, AtTheParse(r)))
<1> DEFINE s == LinesOf(b)
           t == TextOf(b)
           R == Routing(m, t, "rejected")
           g == [e \in Numbered(AllLines) |-> e.line]
           a == ElementsAt(s, R)
           p == Within(a, AtParse(m))
           w == AtTheParse(r)
           N == Numbered(AllLines)
<1>1. \A e \in N : g[e] = e.line
  OBVIOUS
<1> HIDE DEF g
<1>2. Maps(g, s, t) /\ s \in Seq(N)
  BY <1>1, TextIs
<1> HIDE DEF s, t, R, N
<1>3. a \in Seq(N) /\ Maps(g, a, q)
  <2>1. ElementsAt(s, R) \in Seq(N) /\ Maps(g, ElementsAt(s, R), ElementsAt(t, R))
    BY <1>2, PlacesOfImages
  <2>2. q = ElementsAt(t, R)
    BY DEF t, R
  <2>3. QED
    BY <2>1, <2>2
<1>4. ElementsAt(a, p) = ElementsAt(s, R \cap Within(s, AtParse(m)))
  <2> DEFINE c == AtParse(m)
  <2> HIDE DEF c
  <2>1. LET e == ElementsAt(s, R)
        IN  ElementsAt(e, Within(e, c)) = ElementsAt(s, R \cap Within(s, c))
    BY <1>2, PlacesWithinPlaces
  <2>2. QED
    BY <2>1 DEF c
<1> DEFINE n == Len(a)
<1> HIDE DEF a
<1>5. n \in Nat /\ DOMAIN a = 1..n /\ \A k \in 1..n : a[k] \in N
  BY <1>3
<1>6. Len(q) = n /\ \A k \in 1..n : q[k] = a[k].line
  BY <1>1, <1>3, <1>5 DEF Maps
<1>7. DOMAIN r = 1..n /\ \A k \in 1..n : r[k] = RejectedAs(m, a[k].line)
  BY <1>6
<1>8. Maps(f, a, r)
  BY <1>5, <1>6, <1>7 DEF Maps, N
<1>9. w = p
  <2>1. \A k \in 1..n : StageOf(r[k].reason) = "parse" <=> a[k] \in AtParse(m)
    BY <1>5, <1>7 DEF RejectedAs, AtParse, N
  <2>2. p = {k \in 1..n : a[k] \in AtParse(m)}
    BY DEF Within
  <2>3. w = {k \in 1..n : StageOf(r[k].reason) = "parse"}
    BY <1>7 DEF AtTheParse
  <2> HIDE DEF w, p
  <2>4. QED
    BY <2>1, <2>2, <2>3
<1> HIDE DEF p, w, n
<1>10. Maps(f, ElementsAt(a, p), ElementsAt(r, p))
  BY <1>3, <1>8, PlacesOfImages
<1>11. ElementsAt(r, p) \in Seq(T)
  <2>1. Len(r) \in Nat /\ \A k \in 1..Len(r) : k \in p => r[k] \in T
    OBVIOUS
  <2>2. QED
    BY <2>1, PlacesTyped
<1>12. QED
  BY <1>4, <1>9, <1>10, <1>11 DEF s, t, R, w, AtRouter

(* When the generator is exhausted, what the router has decided agrees     *)
(* with the ledger, with the rejects of the bundle and with the producer.  *)
LEMMA Exhausted ==
    ASSUME FileInv, RouterInv, CutInv, AgreeInv, generator = "exhausted"
    PROVE  /\ mapping # None /\ job.pc = "done" /\ input = TextOf(job.bundle)
           /\ Readable(job.bundle) /\ LinesOf(job.bundle) \in Seq(Numbered(AllLines))
           /\ Len(input) \in Nat /\ next - 1 = Len(input) /\ NoneUncaught(mapping, input)
           /\ ledger.srcRead = Len(Recs(mapping, job.bundle))
<1>1. mapping # None /\ job.pc = "done" /\ input = TextOf(job.bundle) /\ next > Len(input)
  BY DEF AgreeInv
<1>2. next \in 1..(Len(input) + 1) /\ Len(input) \in Nat
  BY DEF CutInv, RouterShape
<1>3. next - 1 = Len(input)
  BY <1>1, <1>2
<1>4. NoneUncaught(mapping, input)
  BY <1>3 DEF AgreeInv, Skipped, NoneUncaught
<1>5. Readable(job.bundle) /\ ledger.srcRead = Len(Recs(mapping, job.bundle))
  BY <1>1, DoneHasAll
<1>6. LinesOf(job.bundle) \in Seq(Numbered(AllLines))
  BY <1>5, LinesTyped DEF Readable, IsBundle
<1>7. QED
  BY <1>1, <1>2, <1>3, <1>4, <1>5, <1>6

LEMMA LedgerAgrees ==
    ASSUME FileInv, RouterInv, CutInv, AgreeInv, generator = "exhausted"
    PROVE  ledger.srcRead = SumRead
<1>1. SumRead = Len(ElementsAt(input, Unskipped(mapping, input)))
  BY ReadIsRouted
<1>2. /\ input = TextOf(job.bundle) /\ LinesOf(job.bundle) \in Seq(Numbered(AllLines))
      /\ ledger.srcRead = Len(Recs(mapping, job.bundle))
  BY Exhausted
<1>3. Len(ElementsAt(TextOf(job.bundle), Unskipped(mapping, TextOf(job.bundle))))
        = Len(Recs(mapping, job.bundle))
  BY <1>2, ReadAlike
<1>4. QED
  BY <1>1, <1>2, <1>3

(* The rejects of the parse, here and there.                               *)
RejectsAlike ==
    LET rows == RowsOf(job.bundle)
    IN  ElementsAt(Rejects, {k \in DOMAIN Rejects : StageOf(Rejects[k].reason) = "parse"})
          = [k \in DOMAIN rows.rejects |->
                [line |-> rows.rejects[k].raw, reason |-> rows.rejects[k].reason]]
LEMMA RejectsAgree ==
    ASSUME FileInv, RouterInv, CutInv, AgreeInv, generator = "exhausted", ReadsByAlias(mapping)
    PROVE  RejectsAlike
<1> DEFINE b == job.bundle
           m == mapping
           s == LinesOf(b)
           q == RoutedTo("rejected")
           R == Routing(m, TextOf(b), "rejected")
           d == Intake(m, "rejected")
           u == ElementsAt(s, AtIntake(m, b, "rejected"))
           v == RowsTo(m, b, "rejects", Len(Recs(m, b)))
           w == ElementsAt(Rejects, AtTheParse(Rejects))
           N == Numbered(AllLines)
           f == [e \in N |-> RowAt(m, e, "rejects")]
           g == [e \in N |-> RejectedAs(m, e.line)]
<1>1. /\ input = TextOf(b) /\ Readable(b) /\ s \in Seq(N)
      /\ Len(input) \in Nat /\ next - 1 = Len(input) /\ NoneUncaught(m, TextOf(b))
  BY Exhausted
<1>2. RowsOf(b).rejects = v
  BY <1>1, RowsOfIs
<1>3. q = ElementsAt(TextOf(b), R)
  <2>1. q = ElementsAt(input, Routing(m, input, "rejected") \cap (1..(next - 1)))
    BY RoutedToIs DEF RoutedUpTo
  <2>2. ElementsAt(input, Routing(m, input, "rejected") \cap (1..Len(input)))
          = ElementsAt(input, Routing(m, input, "rejected"))
    BY <1>1, PlacesWithin
  <2>3. QED
    BY <1>1, <2>1, <2>2
<1>4. /\ Rejects \in Seq(Rejectable) /\ Len(Rejects) = Len(q)
      /\ \A k \in 1..Len(Rejects) : Rejects[k] = RejectedAs(m, q[k])
  BY RejectsAre DEF RejectedAs
<1>5. (\A e \in N : f[e] = RowAt(m, e, "rejects")) /\ \A e \in N : g[e] = RejectedAs(m, e.line)
  OBVIOUS
<1> HIDE DEF f, g, q
<1>6. w \in Seq(Rejectable) /\ Maps(g, ElementsAt(s, AtRouter(m, b)), w)
  <2>1. q = ElementsAt(TextOf(b), Routing(m, TextOf(b), "rejected"))
    BY <1>3
  <2> DEFINE r == Rejects
             T == Rejectable
  <2>2. /\ r \in Seq(T) /\ Len(r) = Len(q)
        /\ \A k \in 1..Len(r) : r[k] = RejectedAs(m, q[k])
    BY <1>4
  <2>3. \A e \in Numbered(AllLines) : g[e] = RejectedAs(m, e.line)
    BY <1>5
  <2>4. LinesOf(b) \in Seq(Numbered(AllLines))
    BY <1>1
  <2> HIDE DEF b, m, r, T
  <2>5. /\ ElementsAt(r, AtTheParse(r)) \in Seq(T)
        /\ Maps(g, ElementsAt(LinesOf(b), AtRouter(m, b)), ElementsAt(r, AtTheParse(r)))
    BY <2>1, <2>2, <2>3, <2>4, RejectsAtParse
  <2>6. QED
    BY <2>5 DEF r, T
<1>7. AtRouter(m, b) = AtIntake(m, b, "rejected")
  <2>1. /\ ReadsByAlias(m) /\ LinesOf(b) \in Seq(Numbered(AllLines))
        /\ NoneUncaught(m, TextOf(b))
    BY <1>1
  <2> HIDE DEF b, m
  <2>2. QED
    BY <2>1, PlacesAlike
<1>8. u \in Seq(Celled) /\ u \in Seq(d) /\ DOMAIN v = 1..Len(u) /\ Maps(f, u, v)
  <2>1. \A e \in Numbered(AllLines) : f[e] = RowAt(m, e, "rejects")
    BY <1>5
  <2>2. LinesOf(b) \in Seq(Numbered(AllLines)) /\ DoorOf("rejects") = "rejected"
    BY <1>1 DEF DoorOf
  <2> HIDE DEF b, m
  <2>3. QED
    BY <2>1, <2>2, RowsByPlace
<1> HIDE DEF u, v, w, R, s
<1>9. Maps(g, u, w)
  BY <1>6, <1>7 DEF u
<1> DEFINE n == Len(u)
<1>10. n \in Nat /\ \A k \in 1..n : u[k] \in Celled /\ u[k] \in d
  BY <1>8
<1>11. ASSUME NEW k \in 1..n
       PROVE  w[k] = [line |-> v[k].raw, reason |-> v[k].reason]
  <2>1. u[k] \in N /\ u[k] \in Celled /\ RouteIntake(m, u[k].line).door = "rejected"
    BY <1>10 DEF Celled, Intake
  <2>2. Route(m, u[k].line) = RouteIntake(m, u[k].line)
    BY <2>1, SameReason
  <2>3. w[k] = RejectedAs(m, u[k].line) /\ v[k] = RowAt(m, u[k], "rejects")
    BY <1>5, <1>8, <1>9, <2>1 DEF Maps
  <2>4. RouteIntake(m, u[k].line).line = u[k].line
    BY DEF RouteIntake, Outcome
  <2>5. v[k] = [raw |-> u[k].line, reason |-> RouteIntake(m, u[k].line).reason]
    BY <2>3, <2>4 DEF RowAt, RejectRow
  <2>6. QED
    BY <2>2, <2>3, <2>5 DEF RejectedAs
<1>12. Len(w) = n /\ DOMAIN v = 1..n /\ DOMAIN w = 1..n
  BY <1>6, <1>8, <1>9, <1>10 DEF Maps
<1>13. w = [k \in 1..n |-> w[k]]
  BY <1>6, <1>12
<1> HIDE DEF n
<1>14. w = [k \in DOMAIN v |-> [line |-> v[k].raw, reason |-> v[k].reason]]
  <2>1. [k \in 1..n |-> w[k]] = [k \in 1..n |-> [line |-> v[k].raw, reason |-> v[k].reason]]
    BY <1>11
  <2>2. QED
    BY <1>12, <1>13, <2>1
<1>15. QED
  BY <1>2, <1>14 DEF RejectsAlike, AtTheParse, w

(* What the router decides of the records that the File Processor wrote.   *)
LEMMA WrittenAgree ==
    ASSUME FileInv, RouterInv, CutInv, AgreeInv, generator = "exhausted", ReadsByAlias(mapping),
           NEW k \in DOMAIN RowsOf(job.bundle).src, NEW branch \in {None, "ok"}
    PROVE  LET key == RowsOf(job.bundle).src[k].key
           IN  MapCurated(mapping, key, branch) = Route(mapping, key)
<1> DEFINE b == job.bundle
           m == mapping
           s == LinesOf(b)
           N == Numbered(AllLines)
           d == Intake(m, "written")
           u == ElementsAt(s, AtIntake(m, b, "written"))
           v == RowsTo(m, b, "src", Len(Recs(m, b)))
           f == [e \in N |-> RowAt(m, e, "src")]
<1>1. Readable(b) /\ s \in Seq(N)
  BY Exhausted
<1>2. RowsOf(b).src = v
  BY <1>1, RowsOfIs
<1>3. \A e \in N : f[e] = RowAt(m, e, "src")
  OBVIOUS
<1> HIDE DEF f
<1>4. u \in Seq(Celled) /\ u \in Seq(d) /\ DOMAIN v = 1..Len(u) /\ Maps(f, u, v)
  <2>1. LinesOf(b) \in Seq(Numbered(AllLines)) /\ DoorOf("src") = "written"
    BY <1>1 DEF DoorOf
  <2>2. \A e \in Numbered(AllLines) : f[e] = RowAt(m, e, "src")
    BY <1>3
  <2> HIDE DEF b, m
  <2>3. QED
    BY <2>1, <2>2, RowsByPlace
<1>5. k \in DOMAIN v
  BY <1>2
<1> HIDE DEF u, v
<1>6. u[k] \in Celled /\ u[k] \in d /\ v[k] = f[u[k]]
  BY <1>4, <1>5 DEF Maps
<1> DEFINE x == u[k].line
<1>7. v[k].key = x
  <2>1. u[k] \in N
    BY <1>6 DEF Celled
  <2> DEFINE e == u[k]
  <2>2. v[k] = RowAt(m, e, "src")
    BY <1>3, <1>6, <2>1
  <2>3. RowAt(m, e, "src") = SrcRow(e)
    BY DEF RowAt
  <2>4. SrcRow(e).key = e.line
    BY DEF SrcRow
  <2>5. QED
    BY <2>2, <2>3, <2>4
<1>8. x.cells \in Seq(Cells) /\ RouteIntake(m, x).door = "written"
  BY <1>6 DEF Celled, Intake
<1> HIDE DEF x
<1>9. MapCurated(m, x, branch) = Route(m, x)
  <2>1. RouteIntake(m, x).reason = None
    BY <1>8, ParsedFirst
  <2>2. QED
    BY <1>8, <2>1, ParsedFirst
<1>10. QED
  BY <1>2, <1>7, <1>9

LEMMA AgreesFromInv ==
    ASSUME \A c \in Contracts : LoadMapping(c) # None => ReadsByAlias(LoadMapping(c))
    PROVE  LaneAndRouter /\ AgreeInv => RouterAgrees
<1> SUFFICES ASSUME LaneAndRouter, AgreeInv, generator = "exhausted" PROVE RouterAgrees
  BY Zenon DEF RouterAgrees
<1>1. FileInv /\ RouterInv /\ CutInv
  BY DEF LaneAndRouter, RouterHeap
<1>2. ReadsByAlias(mapping)
  <2>1. mapping # None
    BY DEF AgreeInv
  <2>2. mapping \in {LoadMapping(c) : c \in Contracts}
    BY <1>1 DEF FileInv, LaneShapes
  <2>3. QED
    BY <2>1, <2>2
<1>3. ledger.srcRead = SumRead /\ RejectsAlike
  BY <1>1, <1>2, LedgerAgrees, RejectsAgree
<1>4. \A k \in DOMAIN RowsOf(job.bundle).src, branch \in {None, "ok"} :
         MapCurated(mapping, RowsOf(job.bundle).src[k].key, branch)
           = Route(mapping, RowsOf(job.bundle).src[k].key)
  BY <1>1, <1>2, WrittenAgree
<1>5. QED
  BY <1>3, <1>4, Zenon DEF RouterAgrees, SumRead, RejectsAlike, Rejects

(* The router agrees with the lane, for every contract whose rules see the *)
(* same record in both.                                                    *)
THEOREM RouterAgreement ==
    ASSUME \A c \in Contracts : LoadMapping(c) # None => ReadsByAlias(LoadMapping(c))
    PROVE  Spec => []RouterAgrees
<1>1. Init => LaneAndRouter /\ AgreeInv
  BY FileInvInit, RouterHeapInit, CutInvInit, AgreeInvInit DEF LaneAndRouter
<1>2. LaneAndRouter /\ AgreeInv /\ [Next]_vars => (LaneAndRouter /\ AgreeInv)'
  BY FileInvStep, RouterHeapStep, CutInvStep, AgreeInvStep DEF LaneAndRouter
<1>3. LaneAndRouter /\ AgreeInv => RouterAgrees
  BY AgreesFromInv
<1>4. QED
  BY <1>1, <1>2, <1>3, PTL DEF Spec
=============================================================================
