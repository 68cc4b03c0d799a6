------------------------- MODULE CallRecords_proofs -------------------------
(***************************************************************************)
(* The records.  RunInv ties a run's items to its rows: no row is ahead of *)
(* its item, the one of the last attempt says how that ended, every number *)
(* that is not being dialed has one unless a row was lost, and no two rows *)
(* are of the same attempt.  CallInv ties logs, dispositions under way and *)
(* recordings to the calls: a call that is not odd has no earlier one to   *)
(* its number that is still open, so what a disposition finds by the number*)
(* is its own.  CountInv is the sum that CountsAddUp states, with the rows *)
(* on their way, and a bound on who waits.                                 *)
(***************************************************************************)
EXTENDS Records_proofs, WellFoundedInduction

RowSet   == [run : Passes, number : Dialed, status : {"queued", "answered", "failed", "skipped"},
             attempt : 0..MaxAttempts, rec : Chosen]
CallSet  == [number : Dialed, at : {"queue", "agent", "over", "logged", "gone"}, disp : {"due", "sent"}, rec : Chosen]
LogSet   == [of : Talks, tagged : BOOLEAN, disp : Chosen, rec : Chosen]
Summary  == [dialed : 0..Cardinality(Dialed), connected : {-1} \cup 0..Cardinality(Dialed),
             failed : 0..Cardinality(Dialed)]

\* The rows that are written or on their way.
AllRows == ToSet(CallAttempt) \cup persisting

RunTyped ==
  /\ dial \in [no : 0..MaxPasses, live : BOOLEAN, records : BOOLEAN] /\ item \in [Dialed -> Items]
  /\ CallAttempt \in Seq(RowSet) /\ persisting \in SUBSET RowSet
  /\ CampaignRun \in [Passes -> Summary]
  /\ ended \in [Passes -> [Dialed -> Items]] /\ lost \in SUBSET Passes

CallTyped ==
  /\ talk \in Seq(CallSet) /\ Len(talk) <= MaxTalks
  /\ CallLog \in Seq(LogSet)
  /\ annotating \in [at : {"idle", "finding", "writing"}, of : Chosen, log : Chosen, rec : Chosen]
  /\ odd \in SUBSET Talks

\* What a run's items and its rows have to do with each other.
AsShown(s) == IF s = "stopped" THEN "queued" ELSE s

ItemsFit(items) ==
  \A n \in Dialed : /\ items[n].status = "skipped" => items[n].attempts = 0
                    /\ items[n].status \in {"answered", "failed", "dialing"} => items[n].attempts > 0

FitIn(rows, gone, r, items) ==
  /\ \A row \in rows : row.run = r =>
       /\ row.attempt <= items[row.number].attempts
       /\ row.attempt = items[row.number].attempts => row.status = AsShown(items[row.number].status)
  /\ r \notin gone => \A n \in Dialed :
       items[n].status # "dialing" /\ (items[n].attempts > 0 \/ items[n].status = "skipped") =>
         \E row \in rows : row.run = r /\ row.number = n /\ row.attempt = items[n].attempts

RowsFit(r, items) == FitIn(AllRows, lost, r, items)

\* The items in memory.
ItemInv ==
  /\ dial.live => dial.no \in Passes
  /\ ItemsFit(item)
  /\ \A n \in Dialed : /\ item[n].status = "queued" => item[n].attempts < MaxAttempts
                       /\ item[n].status = "dialing" => dial.live
                       /\ item[n].status = "stopped" => ~dial.live
                       /\ ~dial.live /\ dial.no > 0 => item[n].status # "queued"

\* The rows of all runs.
RowInv ==
  /\ \A row \in AllRows : row.run <= dial.no /\ (row.attempt = 0 <=> row.status = "skipped")
  /\ \A row, other \in AllRows :
       row.run = other.run /\ row.number = other.number /\ row.attempt = other.attempt => row = other
  /\ \A row \in persisting : dial.live /\ row.run = dial.no

\* The live run and the finished ones.
LiveInv == dial.live => RowsFit(dial.no, item) /\ dial.no \notin campaignRuns
DoneInv ==
  \A r \in campaignRuns :
    /\ r <= dial.no /\ CampaignRun[r] = persistRunSummary(ended[r])
    /\ ItemsFit(ended[r]) /\ RowsFit(r, ended[r])
    /\ \A n \in Dialed : ended[r][n].status \notin {"queued", "dialing"}

RunInv == RunTyped /\ ItemInv /\ RowInv /\ LiveInv /\ DoneInv

-----------------------------------------------------------------------------
LEMMA RecordsConstants == MaxAttempts \in Nat /\ MaxAttempts > 0 /\ MaxPasses \in Nat /\ MaxTalks \in Nat /\ IsFiniteSet(Dialed)
BY RecordsAssumption

LEMMA SomeOfDialed ==
  \A S \in SUBSET Dialed : IsFiniteSet(S) /\ Cardinality(S) \in 0..Cardinality(Dialed)
<1> SUFFICES ASSUME NEW S \in SUBSET Dialed
             PROVE  IsFiniteSet(S) /\ Cardinality(S) \in 0..Cardinality(Dialed)
  OBVIOUS
<1>1. IsFiniteSet(S) /\ Cardinality(S) <= Cardinality(Dialed)
  BY RecordsConstants, FS_Subset
<1>2. Cardinality(S) \in Nat /\ Cardinality(Dialed) \in Nat
  BY <1>1, RecordsConstants, FS_CardinalityType
<1>3. QED
  BY <1>1, <1>2

LEMMA RowsTyped == RunTyped => AllRows \subseteq RowSet
<1>1. RunTyped => ToSet(CallAttempt) \subseteq RowSet
  BY DEF RunTyped, ToSet
<1>2. QED
  BY <1>1 DEF RunTyped, AllRows

LEMMA SummaryTyped ==
  \A items : persistRunSummary(items) \in Summary /\ persistRunSummary(items) # NoSummary
<1> SUFFICES ASSUME NEW items
             PROVE  persistRunSummary(items) \in Summary /\ persistRunSummary(items) # NoSummary
  OBVIOUS
<1>1. /\ {n \in Dialed : items[n].attempts > 0} \in SUBSET Dialed
      /\ \A s : {n \in Dialed : items[n].status = s} \in SUBSET Dialed
  OBVIOUS
<1>2. /\ Cardinality({n \in Dialed : items[n].attempts > 0}) \in 0..Cardinality(Dialed)
      /\ \A s : countItems(items, s) \in 0..Cardinality(Dialed)
  BY <1>1, SomeOfDialed DEF countItems
<1>3. countItems(items, "answered") # -1
  BY <1>2
<1>4. QED
  BY <1>2, <1>3 DEF persistRunSummary, Summary, NoSummary

\* A row is written at the end.
LEMMA RowAppended ==
  ASSUME NEW s \in Seq(RowSet), NEW row \in RowSet
  PROVE  /\ Append(s, row) \in Seq(RowSet) /\ Len(Append(s, row)) = Len(s) + 1
         /\ DOMAIN Append(s, row) = DOMAIN s \cup {Len(s) + 1}
         /\ Append(s, row)[Len(s) + 1] = row /\ \A i \in DOMAIN s : Append(s, row)[i] = s[i]
         /\ ToSet(Append(s, row)) = ToSet(s) \cup {row}
<1>1. /\ Append(s, row) \in Seq(RowSet) /\ Len(Append(s, row)) = Len(s) + 1
      /\ Append(s, row)[Len(s) + 1] = row /\ \A i \in 1..Len(s) : Append(s, row)[i] = s[i]
  BY AppendProperties
<1>2. DOMAIN s = 1..Len(s) /\ DOMAIN Append(s, row) = 1..Len(s) + 1 /\ Len(s) \in Nat
  BY <1>1
<1>3. DOMAIN Append(s, row) = DOMAIN s \cup {Len(s) + 1}
  BY <1>2
<1>4. QED
  BY <1>1, <1>2, <1>3 DEF ToSet

\* AllRows of other runs do not matter to a run, and a lost one only to its own.
LEMMA FitKept ==
  ASSUME NEW rows, NEW rows2, NEW gone, NEW gone2, NEW r, NEW items,
         FitIn(rows, gone, r, items), r \in gone => r \in gone2,
         \A row \in rows2 : row.run = r => row \in rows,
         r \notin gone2 => \A row \in rows : row.run = r => row \in rows2
  PROVE  FitIn(rows2, gone2, r, items)
BY DEF FitIn

\* The finished runs stay as they are.
LEMMA DoneKept ==
  ASSUME RunInv, UNCHANGED <<CampaignRun, ended>>, dial'.no \in {dial.no, dial.no + 1}, lost \subseteq lost',
         \A r \in campaignRuns : \A row \in AllRows' : row.run = r => row \in AllRows,
         \A r \in campaignRuns : r \notin lost' => \A row \in AllRows : row.run = r => row \in AllRows'
  PROVE  DoneInv'
<1>1. campaignRuns' = campaignRuns
  BY DEF campaignRuns
<1>2. ASSUME NEW r \in campaignRuns
      PROVE  (r <= dial.no)' /\ RowsFit(r, ended[r])'
  <2>1. FitIn(AllRows, lost, r, ended[r])
    BY DEF RunInv, DoneInv, RowsFit
  <2>2. FitIn(AllRows', lost', r, ended[r])
    BY <2>1, FitKept
  <2>3. r <= dial.no /\ r \in Nat /\ dial.no \in Int
    BY RecordsConstants DEF RunInv, DoneInv, RunTyped, campaignRuns, Passes
  <2>4. QED
    BY <2>2, <2>3 DEF RowsFit
<1>3. QED
  BY <1>1, <1>2 DEF RunInv, DoneInv, ItemsFit, persistRunSummary, countItems

\* An attempt ends with the item it, and leaves its row.
Ends(n, it) ==
  /\ item[n].status = "dialing" /\ it \in Items /\ it.attempts = item[n].attempts
  /\ it.status \in {"queued", "failed", "answered"} /\ (it.status = "queued" => it.attempts < MaxAttempts)
  /\ item' = [item EXCEPT ![n] = it] /\ persisting' = persisting \cup {attemptRow(n, it)}
  /\ UNCHANGED <<dial, CallAttempt, CampaignRun, ended, lost>>

\* While a number is dialed, it has no row of this attempt.
LEMMA NoRowYet ==
  ASSUME RunInv, NEW n \in Dialed, item[n].status = "dialing", NEW row \in AllRows,
         row.run = dial.no, row.number = n
  PROVE  row.attempt < item[n].attempts
<1>1. dial.live /\ FitIn(AllRows, lost, dial.no, item)
  BY DEF RunInv, ItemInv, LiveInv, RowsFit
<1>2. row \in RowSet
  BY DEF RunInv, RunTyped, AllRows, ToSet
<1>3. row.attempt <= item[n].attempts /\ row.attempt # item[n].attempts
  BY <1>1, <1>2 DEF FitIn, AsShown, RowSet
<1>4. row.attempt \in Int /\ item[n].attempts \in Int
  BY <1>2, RecordsConstants DEF RowSet, RunInv, RunTyped, Items
<1>5. QED
  BY <1>3, <1>4

LEMMA AttemptEnds ==
  ASSUME RunInv, NEW n \in Dialed, NEW it, Ends(n, it)
  PROVE  RunInv' /\ AllRows' = AllRows \cup {attemptRow(n, it)} /\ attemptRow(n, it) \notin AllRows /\ attemptRow(n, it) \in RowSet
<1> DEFINE new == attemptRow(n, it)
<1>0. dial.live /\ dial.no \in Passes /\ dial.no \notin campaignRuns /\ item[n].attempts > 0 /\ item[n].attempts \in Int
  BY RecordsConstants DEF Ends, RunInv, ItemInv, ItemsFit, LiveInv, RunTyped, Items
<1>1. /\ new.run = dial.no /\ new.number = n /\ new.status = it.status /\ new.attempt = item[n].attempts
      /\ new \in RowSet
  BY <1>0 DEF Ends, attemptRow, RowSet, Items
<1>2. AllRows' = AllRows \cup {new}
  BY DEF Ends, AllRows
<1>3. \A row \in AllRows : row.run = dial.no /\ row.number = n => row.attempt < item[n].attempts
  BY NoRowYet DEF Ends
<1>4. \A row \in AllRows : row \in RowSet
  BY DEF RunInv, RunTyped, AllRows, ToSet
<1>5. item' = [item EXCEPT ![n] = it] /\ item \in [Dialed -> Items] /\ it \in Items
  BY DEF Ends, RunInv, RunTyped
<1>6. RunTyped'
  BY <1>1, <1>5 DEF RunInv, RunTyped, Ends
<1>7. ItemInv'
  BY <1>0, <1>5 DEF RunInv, ItemInv, ItemsFit, Ends
<1> HIDE DEF new
<1>8. RowInv'
  <2>1. \A row \in AllRows' : row.run <= dial.no /\ (row.attempt = 0 <=> row.status = "skipped")
    BY <1>0, <1>1, <1>2 DEF RunInv, RowInv, Ends, Passes
  <2>2. \A row \in AllRows : ~(row.run = new.run /\ row.number = new.number /\ row.attempt = new.attempt)
    BY <1>0, <1>1, <1>3
  <2>3. \A row, other \in AllRows' :
          row.run = other.run /\ row.number = other.number /\ row.attempt = other.attempt => row = other
    BY <1>2, <2>2 DEF RunInv, RowInv
  <2>4. \A row \in persisting' : dial.live /\ row.run = dial.no
    BY <1>0, <1>1 DEF RunInv, RowInv, Ends, new
  <2>5. QED
    BY <2>1, <2>3, <2>4 DEF RowInv, Ends
<1>9. LiveInv'
  <2>1. FitIn(AllRows, lost, dial.no, item)
    BY <1>0 DEF RunInv, LiveInv, RowsFit
  <2>2. ASSUME NEW row \in AllRows', row.run = dial.no
        PROVE  /\ row.attempt <= item'[row.number].attempts
               /\ row.attempt = item'[row.number].attempts => row.status = AsShown(item'[row.number].status)
    <3>1. CASE row = new
      BY <1>0, <1>1, <1>5, <3>1 DEF Ends, AsShown
    <3>2. CASE row \in AllRows /\ row.number = n
      BY <1>0, <1>3, <1>4, <1>5, <2>2, <3>2, RecordsConstants DEF Ends, RowSet
    <3>3. CASE row \in AllRows /\ row.number # n
      BY <1>4, <1>5, <2>1, <2>2, <3>3 DEF FitIn, RowSet
    <3>4. QED
      BY <1>2, <3>1, <3>2, <3>3
  <2>3. ASSUME dial.no \notin lost, NEW m \in Dialed, item'[m].status # "dialing",
               item'[m].attempts > 0 \/ item'[m].status = "skipped"
        PROVE  \E row \in AllRows' : row.run = dial.no /\ row.number = m /\ row.attempt = item'[m].attempts
    <3>1. CASE m = n
      <4>1. new \in AllRows' /\ new.attempt = item'[m].attempts
        BY <1>1, <1>2, <1>5, <3>1 DEF Ends
      <4>2. QED
        BY <4>1, <1>1, <3>1
    <3>2. CASE m # n
      BY <1>2, <1>5, <2>1, <2>3, <3>2 DEF FitIn
    <3>3. QED
      BY <3>1, <3>2
  <2>4. FitIn(AllRows', lost, dial.no, item')
    BY <2>2, <2>3 DEF FitIn
  <2>5. QED
    BY <2>4, <1>0 DEF LiveInv, RowsFit, Ends, campaignRuns
<1>10. DoneInv'
  <2>1. \A r \in campaignRuns : r # dial.no
    BY <1>0
  <2>2. dial'.no = dial.no
    BY DEF Ends
  <2>3. QED
    BY <2>1, <2>2, <1>1, <1>2, DoneKept DEF Ends
<1>11. new \notin AllRows
  BY <1>1, <1>3, <1>0
<1>12. QED
  BY <1>1, <1>2, <1>6, <1>7, <1>8, <1>9, <1>10, <1>11 DEF RunInv, new

\* A failed attempt, and an answered one.
LEMMA FailureEnds ==
  ASSUME RunInv, NEW n \in Dialed, NEW retryable \in BOOLEAN, attemptFails(n, retryable)
  PROVE  \E it \in Items : Ends(n, it) /\ it.status # "answered" /\ it.rec = item[n].rec
<1> DEFINE it == [item[n] EXCEPT !.status = IF retryable /\ item[n].attempts < MaxAttempts THEN "queued" ELSE "failed"]
<1>1. item[n] \in Items /\ item \in [Dialed -> Items]
  BY DEF RunInv, RunTyped
<1>2. it \in Items /\ it.attempts = item[n].attempts /\ it.status \in {"queued", "failed"} /\ it.rec = item[n].rec
  BY <1>1 DEF Items
<1>3. it.status = "queued" => it.attempts < MaxAttempts
  BY <1>1 DEF Items
<1>4. item' = [item EXCEPT ![n] = it] /\ item'[n] = it
  BY <1>1 DEF attemptFails
<1> HIDE DEF it
<1>5. Ends(n, it)
  BY <1>2, <1>3, <1>4 DEF attemptFails, Ends, callRecs
<1>6. QED
  BY <1>2, <1>5

LEMMA AnswerEnds ==
  ASSUME RunInv, CallTyped, NEW n \in Dialed, customerAnswers(n)
  PROVE  LET t == Len(talk) + 1
             rec == IF dial.records THEN t ELSE 0
         IN  /\ t \in Talks
             /\ talk' = Append(talk, [number |-> n, at |-> "queue", disp |-> "due", rec |-> rec])
             /\ \E it \in Items : Ends(n, it) /\ it.status = "answered" /\ it.rec = rec
<1> DEFINE t == Len(talk) + 1
           rec == IF dial.records THEN t ELSE 0
           it == [item[n] EXCEPT !.status = "answered", !.rec = rec]
<1>1. item[n] \in Items /\ item \in [Dialed -> Items] /\ Len(talk) \in Nat /\ Len(talk) < MaxTalks
  BY DEF RunInv, RunTyped, CallTyped, customerAnswers
<1>2. t \in Talks /\ rec \in Chosen
  BY <1>1, RecordsConstants DEF Talks, Chosen
<1>3. it \in Items /\ it.attempts = item[n].attempts /\ it.status = "answered" /\ it.rec = rec
  BY <1>1, <1>2 DEF Items
<1>4. /\ item' = [item EXCEPT ![n] = it] /\ item'[n] = it
      /\ talk' = Append(talk, [number |-> n, at |-> "queue", disp |-> "due", rec |-> rec])
  BY <1>1 DEF customerAnswers
<1> HIDE DEF it
<1>5. Ends(n, it)
  BY <1>3, <1>4 DEF customerAnswers, Ends
<1>6. QED
  BY <1>2, <1>3, <1>4, <1>5

LEMMA RunStarts ==
  ASSUME RunInv, NEW skipped \in SUBSET Dialed, NEW records \in BOOLEAN, startsRun(skipped, records)
  PROVE  /\ RunInv' /\ persisting = {} /\ persisting' \subseteq RowSet
         /\ \A n \in Dialed : item'[n].status \in {"queued", "skipped"}
         /\ \A row \in persisting' : row.status = "skipped" /\ row.rec = 0 /\ row.run \notin {r \in Int : r <= dial.no}
<1> DEFINE new(n) == [attemptRow(n, item'[n]) EXCEPT !.run = dial'.no]
<1>1. ~dial.live /\ dial.no + 1 \in Passes /\ dial.no \in Nat
  BY RecordsConstants DEF startsRun, RunInv, RunTyped, Passes
<1>2. dial' = [no |-> dial.no + 1, live |-> TRUE, records |-> records]
  BY DEF startsRun
<1>3. item' = [n \in Dialed |-> IF n \in skipped THEN [Fresh EXCEPT !.status = "skipped"] ELSE Fresh]
  BY DEF startsRun
<1>4. Fresh \in Items /\ [Fresh EXCEPT !.status = "skipped"] \in Items
  BY RecordsConstants DEF Fresh, Items, Chosen
<1>5. \A n \in Dialed : /\ item'[n].attempts = 0 /\ item'[n].rec = 0
                        /\ item'[n].status = IF n \in skipped THEN "skipped" ELSE "queued"
  BY <1>3 DEF Fresh
<1>6. \A n \in skipped : new(n) = [run |-> dial.no + 1, number |-> n, status |-> "skipped", attempt |-> 0, rec |-> 0]
  BY <1>2, <1>5 DEF attemptRow
<1>7. \A n \in skipped : new(n) \in RowSet
  <2>1. ASSUME NEW n \in skipped
        PROVE  [run |-> dial.no + 1, number |-> n, status |-> "skipped", attempt |-> 0, rec |-> 0] \in RowSet
    <3>1. n \in Dialed /\ 0 \in 0..MaxAttempts /\ 0 \in Chosen
      BY RecordsConstants DEF Chosen
    <3>2. QED
      BY <3>1, <1>1 DEF RowSet
  <2>2. QED
    BY <2>1, <1>6
<1>8. persisting = {} /\ persisting' = {new(n) : n \in skipped} /\ CallAttempt' = CallAttempt
  BY <1>1 DEF startsRun, RunInv, RowInv
<1> HIDE DEF new
<1>9. AllRows' = AllRows \cup {new(n) : n \in skipped}
  BY <1>8 DEF AllRows
<1>10. \A row \in AllRows : row \in RowSet /\ row.run <= dial.no /\ row.run \in Int
  <2>1. \A row \in AllRows : row \in RowSet
    BY DEF RunInv, RunTyped, AllRows, ToSet
  <2>2. \A row \in RowSet : row.run \in Passes
    BY DEF RowSet
  <2>3. \A row \in AllRows : row.run <= dial.no
    BY DEF RunInv, RowInv
  <2>4. QED
    BY <2>1, <2>2, <2>3, RecordsConstants DEF Passes
<1>11. RunTyped'
  <2>1. persisting' \in SUBSET RowSet
    BY <1>7, <1>8
  <2>2. item' \in [Dialed -> Items]
    BY <1>3, <1>4
  <2>3. dial' \in [no : 0..MaxPasses, live : BOOLEAN, records : BOOLEAN]
    BY <1>1, <1>2, RecordsConstants DEF Passes
  <2>4. QED
    BY <2>1, <2>2, <2>3 DEF startsRun, RunInv, RunTyped
<1>12. ItemInv'
  BY <1>1, <1>2, <1>5, RecordsConstants DEF ItemInv, ItemsFit
<1>13. RowInv'
  <2>1. ASSUME NEW row \in AllRows'
        PROVE  row.run <= dial'.no /\ (row.attempt = 0 <=> row.status = "skipped")
    <3>1. CASE row \in AllRows
      BY <1>1, <1>2, <1>10, <3>1 DEF RunInv, RowInv
    <3>2. CASE row \notin AllRows
      BY <1>1, <1>2, <1>6, <1>9, <3>2
    <3>3. QED
      BY <3>1, <3>2
  <2>2. \A row \in AllRows, n \in skipped : row.run # new(n).run
    BY <1>1, <1>6, <1>10
  <2>3. \A n, m \in skipped : new(n).number = new(m).number => n = m
    BY <1>6
  <2>4. \A row, other \in AllRows' :
          row.run = other.run /\ row.number = other.number /\ row.attempt = other.attempt => row = other
    BY <1>9, <2>2, <2>3 DEF RunInv, RowInv
  <2>5. QED
    BY <2>1, <2>4, <1>2, <1>6, <1>8 DEF RowInv
<1>14. LiveInv'
  <2>1. \A row \in AllRows' : row.run = dial.no + 1 => \E n \in skipped : row = new(n)
    BY <1>1, <1>9, <1>10
  <2>2. \A row \in AllRows' : row.run = dial.no + 1 =>
          /\ row.attempt <= item'[row.number].attempts
          /\ row.attempt = item'[row.number].attempts => row.status = AsShown(item'[row.number].status)
    BY <2>1, <1>5, <1>6 DEF AsShown
  <2>3. ASSUME NEW m \in Dialed, item'[m].attempts > 0 \/ item'[m].status = "skipped"
        PROVE  \E row \in AllRows' : row.run = dial.no + 1 /\ row.number = m /\ row.attempt = item'[m].attempts
    <3>1. m \in skipped
      BY <1>5, <2>3
    <3>2. new(m) \in AllRows'
      BY <3>1, <1>9
    <3>3. QED
      BY <3>1, <3>2, <1>5, <1>6
  <2>4. FitIn(AllRows', lost', dial.no + 1, item')
    BY <2>2, <2>3 DEF FitIn
  <2>5. dial.no + 1 \notin campaignRuns
    BY <1>1 DEF RunInv, DoneInv
  <2>6. QED
    BY <2>4, <2>5, <1>2 DEF LiveInv, RowsFit, campaignRuns, startsRun
<1>15. DoneInv'
  <2>1. \A r \in campaignRuns : r # dial.no + 1
    BY <1>1 DEF RunInv, DoneInv
  <2>2. \A n \in skipped : new(n).run = dial.no + 1
    BY <1>6
  <2>3. dial'.no = dial.no + 1
    BY <1>2
  <2>4. QED
    BY <2>1, <2>2, <2>3, <1>9, DoneKept DEF startsRun
<1>16. QED
  <2>1. \A row \in persisting' : row.status = "skipped" /\ row.rec = 0 /\ row.run = dial.no + 1
    BY <1>6, <1>8
  <2>2. persisting' \subseteq RowSet
    BY <1>7, <1>8
  <2>3. QED
    BY <2>1, <2>2, <1>1, <1>5, <1>8, <1>11, <1>12, <1>13, <1>14, <1>15 DEF RunInv

LEMMA Launches ==
  ASSUME RunInv, NEW n \in Dialed, launches(n)
  PROVE  RunInv'
<1> DEFINE it == [item[n] EXCEPT !.status = "dialing", !.attempts = @ + 1]
<1>1. item \in [Dialed -> Items] /\ item[n] \in Items
  BY DEF RunInv, RunTyped
<1>2. dial.live /\ item[n].status = "queued" /\ item[n].attempts < MaxAttempts /\ item[n].attempts \in Nat
  BY <1>1, RecordsConstants DEF launches, RunInv, ItemInv, Items
<1>3. it \in Items /\ it.status = "dialing" /\ it.attempts = item[n].attempts + 1
  <2>1. item[n].attempts + 1 \in 0..MaxAttempts
    BY <1>2, RecordsConstants
  <2>2. it.attempts = item[n].attempts + 1 /\ it.status = "dialing" /\ it.rec = item[n].rec
    BY <1>1 DEF Items
  <2>3. QED
    BY <1>1, <2>1, <2>2 DEF Items
<1>4. item' = [item EXCEPT ![n] = it] /\ UNCHANGED <<dial, tables, ended, lost>>
  BY DEF launches
<1> HIDE DEF it
<1>5. AllRows' = AllRows /\ campaignRuns' = campaignRuns
  BY <1>4 DEF AllRows, tables, campaignRuns
<1>6. RunTyped' /\ ItemInv' /\ RowInv'
  BY <1>1, <1>2, <1>3, <1>4, <1>5 DEF RunInv, RunTyped, ItemInv, ItemsFit, RowInv, tables
<1>7. LiveInv'
  <2>1. FitIn(AllRows, lost, dial.no, item) /\ dial.no \notin campaignRuns
    BY <1>2 DEF RunInv, LiveInv, RowsFit
  <2>2. \A row \in AllRows : row \in RowSet
    BY DEF RunInv, RunTyped, AllRows, ToSet
  <2>3. ASSUME NEW row \in AllRows, row.run = dial.no
        PROVE  /\ row.attempt <= item'[row.number].attempts
               /\ row.attempt = item'[row.number].attempts => row.status = AsShown(item'[row.number].status)
    <3>1. row.attempt <= item[row.number].attempts /\ row.attempt \in Int /\ row.number \in Dialed
      BY <2>1, <2>2, <2>3, RecordsConstants DEF FitIn, RowSet
    <3>2. CASE row.number = n
      BY <3>1, <3>2, <1>1, <1>2, <1>3, <1>4
    <3>3. CASE row.number # n
      BY <3>1, <3>3, <1>1, <1>4, <2>1, <2>3 DEF FitIn
    <3>4. QED
      BY <3>2, <3>3
  <2>4. ASSUME dial.no \notin lost, NEW m \in Dialed, item'[m].status # "dialing",
               item'[m].attempts > 0 \/ item'[m].status = "skipped"
        PROVE  \E row \in AllRows : row.run = dial.no /\ row.number = m /\ row.attempt = item'[m].attempts
    BY <1>1, <1>3, <1>4, <2>1, <2>4 DEF FitIn
  <2>5. FitIn(AllRows, lost, dial.no, item')
    BY <2>3, <2>4 DEF FitIn
  <2>6. QED
    BY <2>1, <2>5, <1>4, <1>5 DEF LiveInv, RowsFit
<1>8. DoneInv'
  BY <1>4, <1>5, DoneKept DEF tables
<1>9. QED
  BY <1>6, <1>7, <1>8 DEF RunInv

LEMMA Persists ==
  ASSUME RunInv, NEW row \in persisting, persist(row)
  PROVE  RunInv' /\ AllRows' = AllRows
<1>1. /\ row \in RowSet /\ CallAttempt \in Seq(RowSet)
      /\ CallAttempt' = Append(CallAttempt, row) /\ persisting' = persisting \ {row}
      /\ UNCHANGED <<dial, item, CampaignRun, ended, lost>>
  BY DEF persist, memory, RunInv, RunTyped
<1>2. CallAttempt' \in Seq(RowSet) /\ ToSet(CallAttempt') = ToSet(CallAttempt) \cup {row}
  BY <1>1, RowAppended
<1>3. AllRows' = AllRows /\ campaignRuns' = campaignRuns
  BY <1>1, <1>2 DEF AllRows, campaignRuns
<1>4. RunTyped' /\ ItemInv' /\ RowInv' /\ LiveInv'
  BY <1>1, <1>2, <1>3 DEF RunInv, RunTyped, ItemInv, ItemsFit, RowInv, LiveInv, RowsFit
<1>5. DoneInv'
  BY <1>1, <1>3, DoneKept
<1>6. QED
  BY <1>3, <1>4, <1>5 DEF RunInv

LEMMA PersistFails ==
  ASSUME RunInv, NEW row \in persisting, persistFails(row)
  PROVE  RunInv' /\ AllRows' \subseteq AllRows /\ AllRows \ {row} \subseteq AllRows' /\ lost' = {row.run}
<1>1. /\ row \in RowSet /\ lost = {} /\ lost' = {row.run} /\ persisting' = persisting \ {row}
      /\ UNCHANGED <<dial, item, CallAttempt, CampaignRun, ended>>
  BY DEF persistFails, memory, RunInv, RunTyped
<1>2. AllRows' \subseteq AllRows /\ AllRows \ {row} \subseteq AllRows' /\ campaignRuns' = campaignRuns
  BY <1>1 DEF AllRows, campaignRuns
<1>3. RunTyped' /\ ItemInv'
  BY <1>1 DEF RunInv, RunTyped, ItemInv, ItemsFit, RowSet
<1>4. RowInv'
  BY <1>1, <1>2 DEF RunInv, RowInv
<1>5. \A r : r \notin lost' => \A other \in AllRows : other.run = r => other \in AllRows'
  BY <1>1, <1>2
<1>6. LiveInv'
  <2>1. dial.live /\ FitIn(AllRows, lost, dial.no, item) /\ dial.no \notin campaignRuns
    BY DEF RunInv, LiveInv, RowsFit, RowInv
  <2>2. FitIn(AllRows', lost', dial.no, item)
    BY <1>1, <1>2, <1>5, <2>1, FitKept
  <2>3. QED
    BY <1>1, <1>2, <2>1, <2>2 DEF LiveInv, RowsFit
<1>7. DoneInv'
  BY <1>1, <1>2, <1>5, DoneKept
<1>8. QED
  BY <1>1, <1>2, <1>3, <1>4, <1>6, <1>7 DEF RunInv

LEMMA RunFinishes ==
  ASSUME RunInv, NEW stopping \in BOOLEAN, runFinishes(stopping)
  PROVE  /\ RunInv' /\ AllRows' = AllRows /\ dial.no \in Passes \ campaignRuns /\ campaignRuns' = campaignRuns \cup {dial.no}
         /\ CampaignRun' = [CampaignRun EXCEPT ![dial.no] = persistRunSummary(item)]
<1>1. /\ dial.live /\ dial.no \in Passes /\ dial.no \notin campaignRuns
      /\ dial \in [no : 0..MaxPasses, live : BOOLEAN, records : BOOLEAN] /\ FitIn(AllRows, lost, dial.no, item)
  BY DEF runFinishes, RunInv, ItemInv, LiveInv, RunTyped, RowsFit
<1>2. /\ dial' = [dial EXCEPT !.live = FALSE] /\ persisting = {} /\ \A n \in Dialed : item[n].status # "dialing"
      /\ item' = [n \in Dialed |-> IF item[n].status = "queued" THEN [item[n] EXCEPT !.status = "stopped"] ELSE item[n]]
      /\ CampaignRun' = [CampaignRun EXCEPT ![dial.no] = persistRunSummary(item')]
      /\ ended' = [ended EXCEPT ![dial.no] = item']
      /\ UNCHANGED <<CallAttempt, persisting, lost>>
  BY DEF runFinishes
<1>3. dial'.no = dial.no /\ dial'.live = FALSE /\ dial' \in [no : 0..MaxPasses, live : BOOLEAN, records : BOOLEAN]
  BY <1>1, <1>2
<1>4. \A n \in Dialed : /\ item[n] \in Items /\ item'[n] \in Items /\ item'[n].attempts = item[n].attempts
                        /\ item'[n].status = IF item[n].status = "queued" THEN "stopped" ELSE item[n].status
  <2>1. \A n \in Dialed : item[n] \in Items
    BY DEF RunInv, RunTyped
  <2>2. QED
    BY <1>2, <2>1 DEF Items
<1>5. persistRunSummary(item') = persistRunSummary(item)
  <2>1. {n \in Dialed : item'[n].attempts > 0} = {n \in Dialed : item[n].attempts > 0}
    BY <1>4
  <2>2. \A s \in {"answered", "failed"} : {n \in Dialed : item'[n].status = s} = {n \in Dialed : item[n].status = s}
    BY <1>4
  <2>3. QED
    BY <2>1, <2>2 DEF persistRunSummary, countItems
<1>6. AllRows' = AllRows
  BY <1>2 DEF AllRows
<1>7. campaignRuns' = campaignRuns \cup {dial.no}
  BY <1>1, <1>2, SummaryTyped DEF campaignRuns, RunInv, RunTyped
<1>8. RunTyped'
  <2>1. item' \in [Dialed -> Items]
    BY <1>2, <1>4
  <2>2. CampaignRun' \in [Passes -> Summary] /\ ended' \in [Passes -> [Dialed -> Items]]
    BY <1>1, <1>2, <2>1, SummaryTyped DEF RunInv, RunTyped
  <2>3. QED
    BY <1>2, <1>3, <2>1, <2>2 DEF RunInv, RunTyped
<1>9. ItemInv'
  BY <1>2, <1>3, <1>4 DEF RunInv, ItemInv, ItemsFit
<1>10. RowInv'
  BY <1>2, <1>3, <1>6 DEF RunInv, RowInv
<1>11. LiveInv'
  BY <1>3 DEF LiveInv
<1>12. DoneInv'
  <2>1. ASSUME NEW r \in campaignRuns'
        PROVE  /\ r <= dial.no /\ CampaignRun'[r] = persistRunSummary(ended'[r])
               /\ ItemsFit(ended'[r]) /\ FitIn(AllRows, lost, r, ended'[r])
               /\ \A n \in Dialed : ended'[r][n].status \notin {"queued", "dialing"}
    <3>1. CASE r = dial.no
      <4>1. ended'[r] = item' /\ CampaignRun'[r] = persistRunSummary(item')
        BY <1>1, <1>2, <3>1 DEF RunInv, RunTyped
      <4>2. FitIn(AllRows, lost, r, item')
        <5>1. \A row \in AllRows : row.number \in Dialed
          BY RowsTyped DEF RunInv, RowSet
        <5>2. \A n \in Dialed : AsShown(item'[n].status) = AsShown(item[n].status)
          BY <1>4 DEF AsShown
        <5>3. \A n \in Dialed : /\ item'[n].attempts = item[n].attempts
                                /\ item'[n].status = "skipped" => item[n].status = "skipped"
          BY <1>4
        <5>4. QED
          BY <1>1, <1>2, <3>1, <5>1, <5>2, <5>3 DEF FitIn
      <4>3. ItemsFit(item') /\ \A n \in Dialed : item'[n].status \notin {"queued", "dialing"}
        BY <1>2, <1>4 DEF RunInv, ItemInv, ItemsFit
      <4>4. r <= dial.no
        BY <1>1, <3>1, RecordsConstants DEF Passes
      <4>5. QED
        BY <4>1, <4>2, <4>3, <4>4
    <3>2. CASE r # dial.no
      <4>1. r \in campaignRuns /\ r \in Passes
        BY <1>7, <2>1, <3>2 DEF campaignRuns
      <4>2. ended'[r] = ended[r] /\ CampaignRun'[r] = CampaignRun[r]
        BY <1>1, <1>2, <3>2, <4>1 DEF RunInv, RunTyped
      <4>3. QED
        BY <4>1, <4>2 DEF RunInv, DoneInv, RowsFit
    <3>3. QED
      BY <3>1, <3>2
  <2>2. QED
    BY <2>1, <1>2, <1>3, <1>6 DEF DoneInv, RowsFit, ItemsFit, persistRunSummary, countItems
<1>13. QED
  BY <1>1, <1>2, <1>5, <1>6, <1>7, <1>8, <1>9, <1>10, <1>11, <1>12 DEF RunInv

\* The agent's call leaves the run alone.
RunAlone == UNCHANGED <<memory, tables, ended, lost>>

LEMMA RunKept ==
  ASSUME RunInv, RunAlone
  PROVE  RunInv' /\ AllRows' = AllRows
<1>1. UNCHANGED <<dial, item, CallAttempt, persisting, CampaignRun, ended, lost>>
  BY DEF RunAlone, memory, tables
<1>2. AllRows' = AllRows /\ campaignRuns' = campaignRuns
  BY <1>1 DEF AllRows, campaignRuns
<1>3. RunTyped' /\ ItemInv' /\ RowInv' /\ LiveInv'
  BY <1>1, <1>2 DEF RunInv, RunTyped, ItemInv, ItemsFit, RowInv, LiveInv, RowsFit
<1>4. DoneInv'
  <2>1. dial'.no \in {dial.no, dial.no + 1}
    BY <1>1
  <2>2. QED
    BY <1>1, <1>2, <2>1, DoneKept
<1>5. QED
  BY <1>2, <1>3, <1>4 DEF RunInv

-----------------------------------------------------------------------------
\* A set of rows with one for each number counts as its numbers do.
LEMMA RowsAsNumbers ==
  ASSUME NEW S, NEW N \in SUBSET Dialed,
         \A row \in S : row.number \in N,
         \A row, other \in S : row.number = other.number => row = other,
         \A n \in N : \E row \in S : row.number = n
  PROVE  IsFiniteSet(S) /\ Cardinality(S) = Cardinality(N)
<1> DEFINE f == [n \in N |-> CHOOSE row \in S : row.number = n]
<1>1. \A n \in N : f[n] \in S /\ f[n].number = n
  OBVIOUS
<1>2. f \in [N -> S] /\ \A n, m \in N : f[n] = f[m] => n = m
  BY <1>1
<1>3. \A row \in S : f[row.number] = row
  BY <1>1
<1>4. f \in Bijection(N, S)
  BY <1>2, <1>3 DEF Bijection, Injection, Surjection, IsInjective
<1>5. IsFiniteSet(N) /\ ExistsBijection(N, S)
  BY <1>4, SomeOfDialed DEF ExistsBijection
<1>6. QED
  BY <1>5, FS_Bijection

\* The history of a finished run, from its items and its rows.
LEMMA HistoryHolds == RunInv => HistoryIsTheRun
<1> SUFFICES ASSUME RunInv, NEW r \in Passes, Kept(r)
             PROVE  LET told == campaignRunCalls(r)
                        of(s) == Cardinality({row \in told : row.status = s})
                    IN  /\ {<<row.number, row.attempt, row.status>> : row \in told} =
                             {<<n, ended[r][n].attempts, IF ended[r][n].status = "stopped" THEN "queued" ELSE ended[r][n].status>> :
                                n \in {m \in Dialed : ended[r][m].attempts > 0 \/ ended[r][m].status = "skipped"}}
                        /\ CampaignRun[r] = [dialed |-> Cardinality(told) - of("skipped"),
                                             connected |-> of("answered"), failed |-> of("failed")]
  BY DEF HistoryIsTheRun
<1> DEFINE items == ended[r]
           told == campaignRunCalls(r)
           Tried == {n \in Dialed : items[n].attempts > 0}
           With(s) == {n \in Dialed : items[n].status = s}
           N == {m \in Dialed : items[m].attempts > 0 \/ items[m].status = "skipped"}
<1>1. /\ r \in campaignRuns /\ r \notin lost /\ items \in [Dialed -> Items] /\ ItemsFit(items)
      /\ FitIn(AllRows, lost, r, items) /\ \A n \in Dialed : items[n].status \notin {"queued", "dialing"}
      /\ CampaignRun[r] = persistRunSummary(items)
  BY DEF Kept, RunInv, DoneInv, RunTyped, RowsFit
<1>2. \A n \in Dialed : items[n].attempts \in Nat
  BY <1>1, RecordsConstants DEF Items
<1>3. \A row \in AllRows : row \in RowSet /\ row.attempt \in Nat /\ row.number \in Dialed
  BY RowsTyped, RecordsConstants DEF RunInv, RowSet
<1>4. {row \in ToSet(CallAttempt) : row.run = r} = {row \in AllRows : row.run = r}
  <2>1. \A row \in persisting : row.run # r
    BY <1>1 DEF RunInv, RowInv, LiveInv
  <2>2. QED
    BY <2>1 DEF AllRows
<1> HIDE DEF items
<1>5. told = {row \in AllRows : row.run = r /\ row.attempt = items[row.number].attempts}
  <2>1. ASSUME NEW row \in told
        PROVE  row \in AllRows /\ row.run = r /\ row.attempt = items[row.number].attempts
    <3>1. /\ row \in AllRows /\ row.run = r
          /\ \A other \in AllRows : other.run = r /\ other.number = row.number => other.attempt <= row.attempt
      BY <1>4 DEF campaignRunCalls
    <3>2. row.attempt <= items[row.number].attempts
      BY <1>1, <3>1 DEF FitIn
    <3>3. CASE items[row.number].attempts = 0
      BY <1>2, <1>3, <3>1, <3>2, <3>3
    <3>4. CASE items[row.number].attempts > 0
      <4>1. PICK other \in AllRows : other.run = r /\ other.number = row.number /\ other.attempt = items[row.number].attempts
        BY <1>1, <1>3, <3>1, <3>4 DEF FitIn
      <4>2. QED
        BY <1>2, <1>3, <3>1, <3>2, <4>1
    <3>5. QED
      BY <1>2, <1>3, <3>1, <3>3, <3>4
  <2>2. ASSUME NEW row \in AllRows, row.run = r, row.attempt = items[row.number].attempts
        PROVE  row \in told
    <3>1. \A other \in AllRows : other.run = r /\ other.number = row.number => other.attempt <= row.attempt
      BY <1>1, <2>2 DEF FitIn
    <3>2. QED
      BY <1>4, <2>2, <3>1 DEF campaignRunCalls
  <2>3. QED
    BY <2>1, <2>2
<1> HIDE DEF told
<1>6. \A row \in told : /\ row.number \in N /\ row.attempt = items[row.number].attempts
                         /\ row.status = AsShown(items[row.number].status)
  <2>1. ASSUME NEW row \in told
        PROVE  /\ row.number \in N /\ row.attempt = items[row.number].attempts
               /\ row.status = AsShown(items[row.number].status)
    <3>1. row \in AllRows /\ row.run = r /\ row.attempt = items[row.number].attempts
      BY <1>5
    <3>2. row.status = AsShown(items[row.number].status) /\ (row.attempt = 0 <=> row.status = "skipped")
      BY <1>1, <3>1 DEF FitIn, RunInv, RowInv
    <3>3. row.number \in N
      BY <1>2, <1>3, <3>1, <3>2 DEF AsShown
    <3>4. QED
      BY <3>1, <3>2, <3>3
  <2>2. QED
    BY <2>1
<1>7. \A row, other \in told : row.number = other.number => row = other
  BY <1>5 DEF RunInv, RowInv
<1>8. \A n \in N : \E row \in told : row.number = n
  <2>1. ASSUME NEW n \in N
        PROVE  \E row \in told : row.number = n
    <3>1. PICK row \in AllRows : row.run = r /\ row.number = n /\ row.attempt = items[n].attempts
      BY <1>1 DEF FitIn
    <3>2. row \in told
      BY <1>5, <3>1
    <3>3. QED
      BY <3>1, <3>2
  <2>2. QED
    BY <2>1
<1>9. {<<row.number, row.attempt, row.status>> : row \in told} =
        {<<n, items[n].attempts, AsShown(items[n].status)>> : n \in N}
  BY <1>6, <1>8
<1>10. Cardinality(told) = Cardinality(N)
  <2>1. N \in SUBSET Dialed /\ \A row \in told : row.number \in N
    BY <1>6
  <2> HIDE DEF N
  <2>2. QED
    BY <2>1, <1>7, <1>8, RowsAsNumbers
<1>11. ASSUME NEW s \in {"answered", "failed", "skipped"}
       PROVE  Cardinality({row \in told : row.status = s}) = Cardinality(With(s))
  <2> DEFINE S == {row \in told : row.status = s}
  <2>1. With(s) \subseteq N
    BY <1>1 DEF ItemsFit
  <2>2. \A row \in S : row.number \in With(s)
    BY <1>6 DEF AsShown
  <2>3. \A n \in With(s) : \E row \in S : row.number = n
    <3>1. ASSUME NEW n \in With(s)
          PROVE  \E row \in S : row.number = n
      <4>1. PICK row \in told : row.number = n
        BY <1>8, <2>1
      <4>2. row \in S
        BY <1>6, <4>1 DEF AsShown
      <4>3. QED
        BY <4>1, <4>2
    <3>2. QED
      BY <3>1
  <2>4. With(s) \in SUBSET Dialed /\ \A row, other \in S : row.number = other.number => row = other
    BY <1>7
  <2> HIDE DEF S, With
  <2>5. Cardinality(S) = Cardinality(With(s))
    BY <2>2, <2>3, <2>4, RowsAsNumbers
  <2>6. QED
    BY <2>5 DEF S
<1>12. Cardinality(N) - Cardinality(With("skipped")) = Cardinality(Tried)
  <2>1. N = Tried \cup With("skipped") /\ Tried \cap With("skipped") = {}
    BY <1>1, <1>2 DEF ItemsFit
  <2>2. Tried \in SUBSET Dialed /\ With("skipped") \in SUBSET Dialed
    OBVIOUS
  <2> HIDE DEF N, Tried, With
  <2>3. Cardinality(N) = Cardinality(Tried) + Cardinality(With("skipped")) - Cardinality({})
    BY <2>1, <2>2, SomeOfDialed, FS_Union
  <2>4. Cardinality(Tried) \in Nat /\ Cardinality(With("skipped")) \in Nat
    BY <2>2, SomeOfDialed, FS_CardinalityType
  <2>5. QED
    BY <2>3, <2>4, FS_EmptySet
<1>13. CampaignRun[r] = [dialed |-> Cardinality(told) - Cardinality({row \in told : row.status = "skipped"}),
                         connected |-> Cardinality({row \in told : row.status = "answered"}),
                         failed |-> Cardinality({row \in told : row.status = "failed"})]
  BY <1>1, <1>10, <1>11, <1>12 DEF persistRunSummary, countItems
<1>14. QED
  BY <1>9, <1>13 DEF told, items, AsShown

-----------------------------------------------------------------------------
\* The calls: who is mixed up with whom, ...
Same(t, o) == talk[t].number = talk[o].number

TalkInv ==
  /\ \A t \in DOMAIN talk : talk[t].rec \in {0, t}
  /\ \A t, o \in DOMAIN talk : t < o /\ Same(t, o) => (t \in Open => t \in odd /\ o \in odd) /\ (o \notin odd => talk[o].rec # 0)
  /\ \A t \in DOMAIN talk \ odd : talk[t].disp = "sent" => talk[t].at \in {"logged", "gone"}

\* ... one log of each, and what a disposition under way has found, ...
LogInv ==
  /\ \A l \in DOMAIN CallLog : CallLog[l].of \in DOMAIN talk /\ talk[CallLog[l].of].at = "logged"
  /\ \A l, k \in DOMAIN CallLog : CallLog[l].of = CallLog[k].of => l = k

FindInv ==
  /\ annotating.at # "idle" => annotating.of \in DOMAIN talk /\ talk[annotating.of].disp = "sent"
  /\ annotating.at = "idle" => annotating = Silent
  /\ annotating.at = "finding" =>
       \/ \E l \in DOMAIN CallLog : CallLog[l].of = annotating.of /\ CallLog[l].tagged
       \/ \A t \in DOMAIN talk : Same(t, annotating.of) => t \in odd
  /\ annotating.at = "writing" =>
       /\ annotating.log \in DOMAIN CallLog \cup {0}
       /\ annotating.log # 0 => CallLog[annotating.log].of \in {annotating.of} \cup odd
       /\ annotating.of \notin odd =>
            /\ annotating.log # 0 /\ CallLog[annotating.log].of = annotating.of
            /\ annotating.rec = talk[annotating.of].rec

\* ... the recordings of the rows, in their order, ...
RecInv ==
  /\ \A n \in Dialed : item[n].status # "answered" => item[n].rec = 0
  /\ \A row \in AllRows : row.rec # 0 =>
       /\ row.rec \in DOMAIN talk /\ talk[row.rec].number = row.number /\ talk[row.rec].rec = row.rec
       /\ dial.live /\ row.run = dial.no => item[row.number].status = "answered"
  /\ \A row \in persisting, t \in DOMAIN talk :
       row.rec # 0 /\ t > row.rec /\ talk[t].number = row.number => talk[t].rec = 0
  /\ \A i, j \in DOMAIN CallAttempt :
       i < j /\ CallAttempt[i].number = CallAttempt[j].number /\ CallAttempt[i].rec # 0 /\ CallAttempt[j].rec # 0 =>
         CallAttempt[i].rec <= CallAttempt[j].rec
  /\ \A t \in DOMAIN talk \ odd : talk[t].rec # 0 => \E row \in AllRows : row.rec = t
  /\ annotating.at = "finding" /\ annotating.of \notin odd => \A row \in persisting : row.rec # annotating.of

\* ... and what a log carries.
OwnInv ==
  \A l \in DOMAIN CallLog : LET t == CallLog[l].of IN
    t \notin odd =>
      /\ CallLog[l].disp \in {0, t} /\ CallLog[l].rec \in {0, talk[t].rec}
      /\ talk[t].disp = "sent" /\ annotating.of # t => CallLog[l].disp = t /\ CallLog[l].rec = talk[t].rec

CallInv == CallTyped /\ TalkInv /\ LogInv /\ FindInv /\ RecInv /\ OwnInv

\* A call moves on, with its number and its recording.
Moves(t, c) ==
  /\ c \in CallSet /\ c.number = talk[t].number /\ c.rec = talk[t].rec
  /\ talk' = [talk EXCEPT ![t] = c]

LEMMA MovesOn ==
  ASSUME CallTyped, NEW t \in DOMAIN talk, NEW c, Moves(t, c)
  PROVE  /\ talk' \in Seq(CallSet) /\ Len(talk') = Len(talk) /\ DOMAIN talk' = DOMAIN talk
         /\ \A o \in DOMAIN talk \ {t} : talk'[o] = talk[o]
         /\ talk'[t] = c
         /\ \A o \in DOMAIN talk : talk'[o].number = talk[o].number /\ talk'[o].rec = talk[o].rec
<1>1. /\ talk' \in Seq(CallSet) /\ Len(talk') = Len(talk) /\ DOMAIN talk' = DOMAIN talk
      /\ \A o \in DOMAIN talk \ {t} : talk'[o] = talk[o]
      /\ talk'[t] = c
  BY DEF CallTyped, Moves
<1>2. QED
  BY <1>1 DEF Moves

LEMMA TalkPlaces ==
  ASSUME CallTyped
  PROVE  /\ Len(talk) \in Nat /\ DOMAIN talk = 1..Len(talk) /\ DOMAIN talk \subseteq Talks /\ DOMAIN talk \subseteq Nat \ {0}
         /\ \A t \in DOMAIN talk : talk[t] \in CallSet
         /\ \A l \in DOMAIN CallLog : CallLog[l] \in LogSet
         /\ Len(CallLog) \in Nat /\ DOMAIN CallLog = 1..Len(CallLog)
BY RecordsConstants DEF CallTyped, Talks

\* While the calls keep their numbers and recordings, so do the rows theirs.
LEMMA RecordingsKept ==
  ASSUME RecInv, RunAlone, odd \subseteq odd', DOMAIN talk' = DOMAIN talk,
         \A t \in DOMAIN talk : talk'[t].number = talk[t].number /\ talk'[t].rec = talk[t].rec,
         annotating'.at = "finding" /\ annotating'.of \notin odd' => \A row \in persisting : row.rec # annotating'.of
  PROVE  RecInv'
<1>1. UNCHANGED <<dial, item, CallAttempt, persisting>>
  BY DEF RunAlone, memory, tables
<1>2. AllRows' = AllRows
  BY <1>1 DEF AllRows
<1>3. QED
  BY <1>1, <1>2 DEF RecInv

LEMMA AgentReached ==
  ASSUME RunInv, CallInv, NEW t \in DOMAIN talk, reachesAgent(t) \/ callEnds(t)
  PROVE  CallInv' /\ RunAlone
<1>0. RunAlone /\ UNCHANGED <<CallLog, annotating, odd>>
  BY DEF reachesAgent, callEnds, RunAlone
<1>1. talk[t] \in CallSet /\ CallTyped /\ talk \in Seq(CallSet) /\ 0 \notin DOMAIN talk
  BY TalkPlaces DEF CallInv, CallTyped
<1>2. PICK c : /\ Moves(t, c) /\ c.at \notin {"queue", "logged"} /\ talk[t].at \in {"queue", "agent"}
               /\ c.disp = talk[t].disp \/ (c.disp = "sent" /\ c.at = "gone")
  <2>1. CASE talk' = [talk EXCEPT ![t] = [talk[t] EXCEPT !.at = "agent"]] /\ talk[t].at = "queue"
    <3>1. Moves(t, [talk[t] EXCEPT !.at = "agent"]) /\ [talk[t] EXCEPT !.at = "agent"].at = "agent"
          /\ [talk[t] EXCEPT !.at = "agent"].disp = talk[t].disp
      BY <1>1, <2>1 DEF Moves, CallSet
    <3>2. QED
      BY <2>1, <3>1
  <2>2. CASE talk' = [talk EXCEPT ![t] = [talk[t] EXCEPT !.at = "gone", !.disp = "sent"]] /\ talk[t].at = "queue"
    <3>1. Moves(t, [talk[t] EXCEPT !.at = "gone", !.disp = "sent"])
          /\ [talk[t] EXCEPT !.at = "gone", !.disp = "sent"].at = "gone"
          /\ [talk[t] EXCEPT !.at = "gone", !.disp = "sent"].disp = "sent"
      BY <1>1, <2>2 DEF Moves, CallSet
    <3>2. QED
      BY <2>2, <3>1
  <2>3. CASE talk' = [talk EXCEPT ![t] = [talk[t] EXCEPT !.at = "over"]] /\ talk[t].at = "agent"
    <3>1. Moves(t, [talk[t] EXCEPT !.at = "over"]) /\ [talk[t] EXCEPT !.at = "over"].at = "over"
          /\ [talk[t] EXCEPT !.at = "over"].disp = talk[t].disp
      BY <1>1, <2>3 DEF Moves, CallSet
    <3>2. QED
      BY <2>3, <3>1
  <2>4. QED
    BY <2>1, <2>2, <2>3 DEF reachesAgent, callEnds
<1>3. /\ talk' \in Seq(CallSet) /\ Len(talk') = Len(talk) /\ DOMAIN talk' = DOMAIN talk
      /\ \A o \in DOMAIN talk \ {t} : talk'[o] = talk[o]
      /\ talk'[t] = c
      /\ \A o \in DOMAIN talk : talk'[o].number = talk[o].number /\ talk'[o].rec = talk[o].rec
  BY <1>1, <1>2, MovesOn
<1>4. CallTyped'
  BY <1>0, <1>3 DEF CallInv, CallTyped
<1>5. Open' \subseteq Open
  BY <1>0, <1>2, <1>3 DEF Open
<1>6. TalkInv'
  BY <1>0, <1>2, <1>3, <1>5 DEF CallInv, TalkInv, Same
<1>7. \A l \in DOMAIN CallLog : CallLog[l].of # t
  BY <1>2 DEF CallInv, LogInv
<1>8. LogInv' /\ OwnInv'
  BY <1>0, <1>3, <1>7 DEF CallInv, LogInv, OwnInv
<1>9. FindInv'
  BY <1>0, <1>2, <1>3 DEF CallInv, FindInv, Same
<1>10. RecInv'
  BY <1>0, <1>3, RecordingsKept DEF CallInv, RecInv
<1>11. QED
  BY <1>0, <1>4, <1>6, <1>8, <1>9, <1>10 DEF CallInv

LEMMA CreatesLog ==
  ASSUME RunInv, CallInv, NEW t \in DOMAIN talk, NEW knows \in BOOLEAN, NEW recent \in BOOLEAN, createLog(t, knows, recent)
  PROVE  CallInv' /\ RunAlone
<1> DEFINE new(x) == [of |-> t, tagged |-> x, disp |-> 0, rec |-> 0]
           c == [talk[t] EXCEPT !.at = "logged"]
<1>0. RunAlone /\ UNCHANGED <<annotating, odd>> /\ talk[t].at = "over"
  BY DEF createLog, RunAlone
<1>1. talk[t] \in CallSet /\ CallTyped /\ t \in Talks /\ DOMAIN talk \subseteq Nat \ {0} /\ CallLog \in Seq(LogSet)
  BY TalkPlaces DEF CallInv, CallTyped
<1>2. Moves(t, c) /\ c.at = "logged" /\ c.disp = talk[t].disp
  BY <1>1 DEF Moves, CallSet, createLog
<1>3. /\ talk' \in Seq(CallSet) /\ Len(talk') = Len(talk) /\ DOMAIN talk' = DOMAIN talk
      /\ \A o \in DOMAIN talk \ {t} : talk'[o] = talk[o]
      /\ talk'[t] = c
      /\ \A o \in DOMAIN talk : talk'[o].number = talk[o].number /\ talk'[o].rec = talk[o].rec
  BY <1>1, <1>2, MovesOn
<1>4. PICK x \in BOOLEAN : CallLog' = Append(CallLog, new(x))
  <2>1. \E x : x = (knows \/ (recent /\ \E i \in DOMAIN CallAttempt : CallAttempt[i].number = talk[t].number))
    OBVIOUS
  <2>2. PICK x : x = (knows \/ (recent /\ \E i \in DOMAIN CallAttempt : CallAttempt[i].number = talk[t].number))
    BY <2>1
  <2>3. x \in BOOLEAN
    BY <2>2, Zenon
  <2>4. CallLog' = Append(CallLog, new(x))
    BY <2>2 DEF createLog
  <2>5. QED
    BY <2>3, <2>4
<1>5. /\ CallLog' \in Seq(LogSet) /\ Len(CallLog') = Len(CallLog) + 1 /\ Len(CallLog) \in Nat
      /\ DOMAIN CallLog' = 1..Len(CallLog) + 1 /\ DOMAIN CallLog = 1..Len(CallLog)
      /\ CallLog'[Len(CallLog) + 1] = new(x) /\ \A l \in DOMAIN CallLog : CallLog'[l] = CallLog[l]
  <2>1. 0 \in Chosen
    BY DEF Chosen
  <2>2. new(x) \in LogSet
    BY <1>1, <2>1 DEF LogSet
  <2> HIDE DEF new
  <2>3. QED
    BY <1>1, <1>4, <2>2, AppendProperties
<1> HIDE DEF c
<1>6. CallTyped'
  BY <1>0, <1>3, <1>5 DEF CallInv, CallTyped
<1>7. Open' \subseteq Open
  BY <1>0, <1>2, <1>3 DEF Open
<1>8. TalkInv'
  BY <1>0, <1>2, <1>3, <1>7 DEF CallInv, TalkInv, Same
<1>9. \A l \in DOMAIN CallLog : CallLog[l].of # t
  BY <1>0 DEF CallInv, LogInv
<1>10. \A l \in DOMAIN CallLog' : l = Len(CallLog) + 1 \/ l \in DOMAIN CallLog
  BY <1>5
<1>11. LogInv'
  BY <1>2, <1>3, <1>5, <1>9, <1>10 DEF CallInv, LogInv
<1>12. OwnInv'
  <2>1. t \notin odd => talk[t].disp # "sent"
    BY <1>0 DEF CallInv, TalkInv
  <2>2. QED
    BY <1>0, <1>2, <1>3, <1>5, <1>9, <1>10, <2>1 DEF CallInv, OwnInv, LogInv
<1>13. FindInv'
  <2>1. DOMAIN CallLog \subseteq DOMAIN CallLog' /\ 0 \notin DOMAIN CallLog
    BY <1>5
  <2>2. QED
    BY <1>0, <1>2, <1>3, <1>5, <2>1 DEF CallInv, FindInv, Same
<1>14. RecInv'
  BY <1>0, <1>3, RecordingsKept DEF CallInv, RecInv
<1>15. QED
  BY <1>0, <1>6, <1>8, <1>11, <1>12, <1>13, <1>14 DEF CallInv

LEMMA DispositionSent ==
  ASSUME RunInv, CallInv, NEW t \in DOMAIN talk, dispositionSent(t)
  PROVE  CallInv' /\ RunAlone
<1> DEFINE c == [talk[t] EXCEPT !.disp = "sent"]
           found == \E l \in DOMAIN CallLog : CallLog[l].of = t /\ CallLog[l].tagged
<1>0. /\ RunAlone /\ CallLog' = CallLog /\ annotating = Silent
      /\ talk[t].disp = "due" /\ annotating' = [at |-> "finding", of |-> t, log |-> 0, rec |-> 0]
  BY DEF dispositionSent, RunAlone, CallInv, FindInv, Silent
<1>1. talk[t] \in CallSet /\ CallTyped /\ t \in Talks /\ DOMAIN talk \subseteq Nat \ {0} /\ DOMAIN talk \subseteq Talks
  BY TalkPlaces DEF CallInv
<1>2. Moves(t, c) /\ c.at = talk[t].at /\ c.disp = "sent"
  BY <1>1 DEF Moves, CallSet, dispositionSent
<1>3. /\ talk' \in Seq(CallSet) /\ Len(talk') = Len(talk) /\ DOMAIN talk' = DOMAIN talk
      /\ \A o \in DOMAIN talk \ {t} : talk'[o] = talk[o]
      /\ talk'[t] = c
      /\ \A o \in DOMAIN talk : talk'[o].number = talk[o].number /\ talk'[o].rec = talk[o].rec
  BY <1>1, <1>2, MovesOn
<1>4. /\ odd \subseteq odd' /\ odd' \subseteq odd \cup DOMAIN talk
      /\ \/ found /\ \A row \in persisting : row.rec # t
         \/ \A o \in DOMAIN talk : talk[o].number = talk[t].number => o \in odd'
  BY DEF dispositionSent
<1> HIDE DEF c
<1>5. CallTyped'
  <2>1. annotating' \in [at : {"idle", "finding", "writing"}, of : Chosen, log : Chosen, rec : Chosen]
    BY <1>0, <1>1 DEF Chosen
  <2>2. odd' \in SUBSET Talks
    BY <1>1, <1>4 DEF CallTyped
  <2>3. QED
    BY <1>0, <1>1, <1>3, <2>1, <2>2 DEF CallTyped
<1>6. Open' = Open
  BY <1>0, <1>1, <1>2, <1>3 DEF Open, Silent
<1>7. t \notin odd' => talk[t].at = "logged"
  <2>1. found => talk[t].at = "logged"
    BY DEF CallInv, LogInv
  <2>2. QED
    BY <1>4, <2>1
<1>8. TalkInv'
  BY <1>0, <1>2, <1>3, <1>4, <1>6, <1>7 DEF CallInv, TalkInv, Same
<1>9. LogInv'
  BY <1>0, <1>2, <1>3 DEF CallInv, LogInv
<1>10. OwnInv'
  BY <1>0, <1>1, <1>2, <1>3, <1>4 DEF CallInv, OwnInv, LogInv, Silent
<1>11. FindInv'
  <2>1. found \/ \A o \in DOMAIN talk : talk[o].number = talk[t].number => o \in odd'
    BY <1>4
  <2>2. found' \/ \A o \in DOMAIN talk' : Same(o, t)' => o \in odd'
    BY <1>0, <1>3, <2>1 DEF Same
  <2>3. QED
    BY <1>0, <1>2, <1>3, <2>2 DEF FindInv, Same
<1>12. RecInv'
  <2>1. annotating'.at = "finding" /\ annotating'.of \notin odd' => \A row \in persisting : row.rec # annotating'.of
    BY <1>0, <1>4
  <2>2. QED
    BY <1>0, <1>3, <1>4, <2>1, RecordingsKept DEF CallInv
<1>13. QED
  BY <1>0, <1>5, <1>8, <1>9, <1>10, <1>11, <1>12 DEF CallInv

\* No call has two logs.
LEMMA FewLogs ==
  ASSUME CallInv
  PROVE  Len(CallLog) <= MaxTalks
<1> DEFINE f == [l \in 1..Len(CallLog) |-> CallLog[l].of]
<1>1. /\ CallLog \in Seq(LogSet) /\ Len(CallLog) \in Nat /\ DOMAIN CallLog = 1..Len(CallLog)
      /\ Len(talk) \in Nat /\ Len(talk) <= MaxTalks /\ DOMAIN talk = 1..Len(talk)
  BY TalkPlaces DEF CallInv, CallTyped
<1>2. f \in [1..Len(CallLog) -> 1..Len(talk)] /\ \A l, k \in 1..Len(CallLog) : f[l] = f[k] => l = k
  BY <1>1 DEF CallInv, LogInv
<1>3. f \in Injection(1..Len(CallLog), 1..Len(talk))
  BY <1>2 DEF Injection, IsInjective
<1> HIDE DEF f
<1>4. IsFiniteSet(1..Len(talk)) /\ Cardinality(1..Len(talk)) = Len(talk) /\ Cardinality(1..Len(CallLog)) = Len(CallLog)
  <2>1. \A k \in Nat : IsFiniteSet(1..k) /\ Cardinality(1..k) = k
    <3>1. SUFFICES ASSUME NEW k \in Nat
                   PROVE  IsFiniteSet(1..k) /\ Cardinality(1..k) = k
      OBVIOUS
    <3>2. 1 \in Int /\ k \in Int
      OBVIOUS
    <3>3. IsFiniteSet(1..k) /\ Cardinality(1..k) = IF 1 > k THEN 0 ELSE k - 1 + 1
      BY <3>2, FS_Interval
    <3>4. QED
      BY <3>3
  <2>2. QED
    BY <1>1, <2>1
<1>5. Cardinality(1..Len(CallLog)) <= Cardinality(1..Len(talk))
  BY <1>3, <1>4, FS_Injection
<1>6. QED
  BY <1>1, <1>4, <1>5, RecordsConstants

\* A set of numbers with a bound has a largest.
LEMMA LargestOf ==
  \A k \in Nat : \A S : S \subseteq 0..k /\ S # {} => \E x \in S : \A y \in S : y <= x
<1> SUFFICES ASSUME NEW k \in Nat, NEW S, S \subseteq 0..k, S # {}
             PROVE  \E x \in S : \A y \in S : y <= x
  OBVIOUS
<1> DEFINE T == {k - x : x \in S}
<1>1. T \subseteq Nat /\ T # {}
  OBVIOUS
<1> HIDE DEF T
<1>2. PICK n \in T : \A m \in T : <<m, n>> \notin OpToRel(<, Nat)
  BY <1>1, NatLessThanWellFounded, WFMin
<1>3. \A m \in T : ~(m < n)
  BY <1>1, <1>2 DEF OpToRel
<1>4. PICK x \in S : n = k - x
  BY DEF T
<1>5. \A y \in S : k - y \in T
  BY DEF T
<1>6. ASSUME NEW y \in S
      PROVE  y <= x
  <2>1. ~(k - y < k - x) /\ x \in 0..k /\ y \in 0..k
    BY <1>3, <1>4, <1>5
  <2>2. QED
    BY <2>1
<1>7. QED
  BY <1>6

LEMMA LatestLogIs ==
  ASSUME CallInv, NEW n
  PROVE  LET hits == {l \in LogsOf(n) : CallLog[l].tagged}
             k == latestLog(n)
         IN  /\ hits = {} => k = 0
             /\ hits # {} => k \in hits /\ \A l \in hits : CallLog[l].of <= CallLog[k].of
<1> DEFINE hits == {l \in LogsOf(n) : CallLog[l].tagged}
           S == {CallLog[l].of : l \in hits}
<1>1. hits \subseteq DOMAIN CallLog /\ \A l \in hits : CallLog[l] \in LogSet
  BY TalkPlaces DEF CallInv, LogsOf
<1>2. S \subseteq 0..MaxTalks
  BY <1>1, RecordsConstants DEF LogSet, Talks
<1>3. ASSUME hits # {}
      PROVE  \E l \in hits : \A m \in hits : CallLog[m].of <= CallLog[l].of
  <2>1. S # {}
    BY <1>3
  <2>2. PICK x \in S : \A y \in S : y <= x
    BY <1>2, <2>1, LargestOf, RecordsConstants
  <2>3. QED
    BY <2>2
<1>4. latestLog(n) = IF hits = {} THEN 0 ELSE CHOOSE l \in hits : \A k \in hits : CallLog[k].of <= CallLog[l].of
  BY DEF latestLog
<1>5. QED
  BY <1>3, <1>4

LEMMA LatestRecordingIs ==
  ASSUME RunInv, NEW n
  PROVE  LET hits == {i \in DOMAIN CallAttempt : CallAttempt[i].number = n /\ CallAttempt[i].rec # 0}
         IN  /\ hits = {} => latestRecording(n) = 0
             /\ hits # {} => \E k \in hits : latestRecording(n) = CallAttempt[k].rec /\ \A i \in hits : i <= k
<1> DEFINE hits == {i \in DOMAIN CallAttempt : CallAttempt[i].number = n /\ CallAttempt[i].rec # 0}
<1>1. hits \subseteq 0..Len(CallAttempt) /\ Len(CallAttempt) \in Nat
  BY DEF RunInv, RunTyped
<1>2. ASSUME hits # {}
      PROVE  Max(hits) \in hits /\ \A i \in hits : i <= Max(hits)
  <2> HIDE DEF hits
  <2>1. \E x \in hits : \A y \in hits : y <= x
    BY <1>1, <1>2, LargestOf
  <2>2. \E x \in hits : \A y \in hits : x >= y
    BY <1>1, <2>1
  <2>3. Max(hits) \in hits /\ \A y \in hits : Max(hits) >= y
    BY <2>2 DEF Max
  <2>4. QED
    BY <1>1, <2>3
<1>3. latestRecording(n) = IF hits = {} THEN 0 ELSE CallAttempt[Max(hits)].rec
  BY DEF latestRecording
<1>4. QED
  BY <1>2, <1>3

LEMMA FindsLog ==
  ASSUME RunInv, CallInv, findsLog
  PROVE  CallInv' /\ RunAlone
<1> DEFINE t == annotating.of
           n == talk[t].number
           k == latestLog(n)
           v == latestRecording(n)
           tagged == {l \in LogsOf(n) : CallLog[l].tagged}
           hits == {i \in DOMAIN CallAttempt : CallAttempt[i].number = n /\ CallAttempt[i].rec # 0}
<1>0. /\ RunAlone /\ UNCHANGED <<talk, CallLog, odd>> /\ annotating.at = "finding"
      /\ annotating' = [annotating EXCEPT !.at = "writing", !.log = k, !.rec = v]
  BY DEF findsLog, RunAlone
<1>1. /\ CallTyped /\ t \in DOMAIN talk /\ t \in Nat \ {0} /\ t \in Open /\ DOMAIN talk \subseteq Nat \ {0}
      /\ Len(CallLog) \in Nat /\ DOMAIN CallLog = 1..Len(CallLog) /\ Len(CallLog) <= MaxTalks
      /\ \A o \in DOMAIN talk : talk[o] \in CallSet
  BY <1>0, TalkPlaces, FewLogs DEF CallInv, FindInv, Open
<1>2. \A l \in tagged : /\ l \in DOMAIN CallLog /\ CallLog[l].of \in DOMAIN talk /\ Same(CallLog[l].of, t)
  BY DEF LogsOf, CallInv, LogInv, Same
<1>3. \A l \in DOMAIN CallLog : CallLog[l].tagged /\ CallLog[l].of = t => l \in tagged
  BY DEF LogsOf
<1>4. /\ tagged = {} => k = 0
      /\ tagged # {} => k \in tagged /\ \A l \in tagged : CallLog[l].of <= CallLog[k].of
  BY LatestLogIs
<1>5. /\ hits = {} => v = 0
      /\ hits # {} => \E i \in hits : v = CallAttempt[i].rec /\ \A j \in hits : j <= i
  BY LatestRecordingIs
<1>6. \A i \in hits : CallAttempt[i] \in AllRows /\ CallAttempt[i] \in RowSet
  BY DEF RunInv, RunTyped, AllRows, ToSet
<1>7. annotating' = [at |-> "writing", of |-> t, log |-> k, rec |-> v]
  BY <1>0, <1>1 DEF CallTyped
<1> HIDE DEF k, v, tagged, hits
<1>8. CallTyped'
  <2>1. k \in Chosen
    BY <1>1, <1>2, <1>4, RecordsConstants DEF Chosen, Talks
  <2>2. v \in Chosen
    BY <1>5, <1>6 DEF Chosen, RowSet
  <2>3. t \in Chosen
    BY <1>0 DEF CallInv, CallTyped
  <2>4. QED
    BY <1>0, <1>7, <2>1, <2>2, <2>3 DEF CallInv, CallTyped
<1>9. t \notin odd => \E l \in tagged : CallLog[l].of = t
  BY <1>0, <1>1, <1>3 DEF CallInv, FindInv, Same
<1>10. \A o \in DOMAIN talk : Same(o, t) /\ o > t => t \in odd /\ o \in odd
  BY <1>1 DEF CallInv, TalkInv, Same
<1>11. tagged # {} => CallLog[k].of \in {t} \cup odd
  <2>1. CASE \E l \in tagged : CallLog[l].of = t
    BY <1>1, <1>2, <1>4, <1>10, <2>1
  <2>2. CASE ~\E l \in tagged : CallLog[l].of = t
    <3>1. \A o \in DOMAIN talk : Same(o, t) => o \in odd
      BY <1>0, <1>3, <2>2 DEF CallInv, FindInv
    <3>2. QED
      BY <1>2, <1>4, <3>1
  <2>3. QED
    BY <2>1, <2>2
<1>12. ASSUME t \notin odd
       PROVE  k \in tagged /\ CallLog[k].of = t
  <2>1. PICK l \in tagged : CallLog[l].of = t
    BY <1>9, <1>12
  <2>2. k \in tagged /\ t <= CallLog[k].of /\ CallLog[k].of \in DOMAIN talk /\ Same(CallLog[k].of, t)
    BY <1>2, <1>4, <2>1
  <2>3. QED
    BY <1>1, <1>10, <1>12, <2>2
<1>13. ASSUME NEW i \in hits
       PROVE  LET r == CallAttempt[i].rec IN r \in DOMAIN talk /\ Same(r, t) /\ talk[r].rec = r /\ r # 0
  BY <1>6 DEF hits, CallInv, RecInv, Same
<1>14. ASSUME t \notin odd
       PROVE  v = talk[t].rec
  <2>1. CASE talk[t].rec = 0
    <3>1. SUFFICES ASSUME NEW i \in hits
                   PROVE  FALSE
      BY <1>5, <2>1
    <3> DEFINE r == CallAttempt[i].rec
    <3>2. r \in DOMAIN talk /\ Same(r, t) /\ talk[r].rec = r /\ r # 0 /\ r # t
      BY <1>13, <2>1
    <3>3. r < t => talk[t].rec # 0
      BY <1>1, <1>14, <3>2 DEF CallInv, TalkInv
    <3>4. QED
      BY <1>1, <1>10, <1>14, <2>1, <3>2, <3>3
  <2>2. CASE talk[t].rec # 0
    <3>1. talk[t].rec = t
      BY <1>1, <2>2 DEF CallInv, TalkInv
    <3>2. PICK row \in AllRows : row.rec = t
      BY <1>1, <1>14, <2>2 DEF CallInv, RecInv
    <3>3. row \notin persisting
      BY <1>0, <1>14, <3>2 DEF CallInv, RecInv
    <3>4. PICK i \in DOMAIN CallAttempt : CallAttempt[i] = row
      BY <3>3 DEF AllRows, ToSet
    <3>5. i \in hits
      BY <1>1, <3>2, <3>4 DEF hits, CallInv, RecInv
    <3>6. PICK j \in hits : v = CallAttempt[j].rec /\ i <= j
      BY <1>5, <3>5
    <3>7. v \in DOMAIN talk /\ Same(v, t) /\ v # 0
      BY <1>13, <3>6
    <3>8. t <= v
      <4>1. CASE i = j
        BY <1>1, <3>2, <3>4, <3>6, <4>1
      <4>2. CASE i < j
        <5>1. CallAttempt[i].rec <= CallAttempt[j].rec
          BY <3>5, <3>6, <4>2 DEF hits, CallInv, RecInv
        <5>2. QED
          BY <3>2, <3>4, <3>6, <5>1
      <4>3. i \in Int /\ j \in Int
        BY <3>5 DEF hits, RunInv, RunTyped
      <4>4. QED
        BY <3>6, <4>1, <4>2, <4>3
    <3>9. QED
      BY <1>1, <1>10, <1>14, <3>1, <3>7, <3>8
  <2>3. QED
    BY <2>1, <2>2
<1>15. FindInv'
  <2>1. k \in DOMAIN CallLog \cup {0} /\ (k # 0 => CallLog[k].of \in {t} \cup odd)
    BY <1>2, <1>4, <1>11
  <2>2. t \notin odd => k # 0
    BY <1>1, <1>2, <1>12
  <2>3. talk[t].disp = "sent"
    BY <1>0 DEF CallInv, FindInv
  <2>4. QED
    BY <1>0, <1>1, <1>7, <1>12, <1>14, <2>1, <2>2, <2>3 DEF FindInv
<1>16. Open' = Open
  BY <1>0, <1>7 DEF Open
<1>17. TalkInv' /\ LogInv' /\ OwnInv'
  BY <1>0, <1>7, <1>16 DEF CallInv, TalkInv, LogInv, OwnInv, Same
<1>18. RecInv'
  BY <1>0, <1>7, RecordingsKept DEF CallInv
<1>19. QED
  BY <1>0, <1>8, <1>15, <1>17, <1>18 DEF CallInv

LEMMA AnnotatesLog ==
  ASSUME RunInv, CallInv, annotatesLog
  PROVE  CallInv' /\ RunAlone
<1> DEFINE a == annotating
           w == [CallLog[a.log] EXCEPT !.disp = a.of, !.rec = IF a.rec = 0 THEN @ ELSE a.rec]
<1>0. /\ RunAlone /\ UNCHANGED <<talk, odd>> /\ a.at = "writing" /\ annotating' = Silent
      /\ CallLog' = IF a.log = 0 THEN CallLog ELSE [CallLog EXCEPT ![a.log] = w]
  BY DEF annotatesLog, RunAlone
<1>1. /\ CallTyped /\ a.of \in DOMAIN talk /\ a.of # 0 /\ 0 \notin DOMAIN talk /\ CallLog \in Seq(LogSet)
      /\ 0 \notin DOMAIN CallLog /\ a.log \in DOMAIN CallLog \cup {0} /\ a.of \in Chosen /\ a.rec \in Chosen
      /\ \A l \in DOMAIN CallLog : CallLog[l] \in LogSet
  BY <1>0, TalkPlaces DEF CallInv, CallTyped, FindInv
<1>2. ASSUME a.log # 0
      PROVE  w \in LogSet /\ w.of = CallLog[a.log].of /\ w.disp = a.of
             /\ w.rec = IF a.rec = 0 THEN CallLog[a.log].rec ELSE a.rec
  BY <1>1, <1>2 DEF LogSet
<1>3. /\ CallLog' \in Seq(LogSet) /\ DOMAIN CallLog' = DOMAIN CallLog
      /\ a.log # 0 => CallLog'[a.log] = w
      /\ \A l \in DOMAIN CallLog : l # a.log => CallLog'[l] = CallLog[l]
  <2> HIDE DEF w
  <2>1. CASE a.log = 0
    BY <1>0, <1>1, <2>1
  <2>2. CASE a.log # 0
    <3>1. CallLog' = [CallLog EXCEPT ![a.log] = w] /\ w \in LogSet /\ a.log \in DOMAIN CallLog
      BY <1>0, <1>1, <1>2, <2>2
    <3>2. QED
      BY <1>1, <3>1
  <2>3. QED
    BY <2>1, <2>2
<1> HIDE DEF w
<1>4. \A l \in DOMAIN CallLog : CallLog'[l].of = CallLog[l].of
  BY <1>1, <1>2, <1>3
<1>5. Silent \in [at : {"idle", "finding", "writing"}, of : Chosen, log : Chosen, rec : Chosen]
      /\ Silent.of = 0 /\ Silent.at = "idle"
  BY DEF Silent, Chosen
<1>6. CallTyped' /\ FindInv'
  BY <1>0, <1>3, <1>5 DEF CallInv, CallTyped, FindInv
<1>7. Open' \subseteq Open
  BY <1>0, <1>1, <1>5 DEF Open
<1>8. TalkInv' /\ LogInv'
  BY <1>0, <1>3, <1>4, <1>7 DEF CallInv, TalkInv, LogInv, Same
<1>9. OwnInv'
  <2>1. ASSUME NEW l \in DOMAIN CallLog, CallLog[l].of \notin odd
        PROVE  LET t == CallLog[l].of
               IN  /\ CallLog'[l].disp \in {0, t} /\ CallLog'[l].rec \in {0, talk[t].rec}
                   /\ talk[t].disp = "sent" => CallLog'[l].disp = t /\ CallLog'[l].rec = talk[t].rec
    <3>1. CASE l = a.log
      <4>1. CallLog[l].of = a.of /\ a.of \notin odd /\ a.log # 0
        BY <1>0, <1>1, <2>1, <3>1 DEF CallInv, FindInv
      <4>2. a.rec = talk[a.of].rec
        BY <1>0, <4>1 DEF CallInv, FindInv
      <4>3. CallLog[l].rec \in {0, talk[a.of].rec}
        BY <2>1, <4>1 DEF CallInv, OwnInv
      <4>4. QED
        BY <1>2, <1>3, <3>1, <4>1, <4>2, <4>3
    <3>2. CASE l # a.log
      <4>1. CallLog[l].of # a.of
        BY <1>0, <1>1, <2>1, <3>2 DEF CallInv, FindInv, LogInv
      <4>2. QED
        BY <1>3, <2>1, <3>2, <4>1 DEF CallInv, OwnInv
    <3>3. QED
      BY <3>1, <3>2
  <2>2. QED
    BY <1>0, <1>3, <1>4, <2>1 DEF OwnInv
<1>10. RecInv'
  BY <1>0, <1>5, RecordingsKept DEF CallInv
<1>11. QED
  BY <1>0, <1>6, <1>8, <1>9, <1>10 DEF CallInv

LEMMA DeletesRecording ==
  ASSUME RunInv, CallInv, NEW l \in DOMAIN CallLog, deleteRecording(l)
  PROVE  CallInv' /\ RunAlone
<1> DEFINE w == [CallLog[l] EXCEPT !.rec = 0]
<1>0. /\ RunAlone /\ UNCHANGED <<talk, annotating>> /\ odd' = odd \cup {CallLog[l].of}
      /\ CallLog' = [CallLog EXCEPT ![l] = w]
  BY DEF deleteRecording, RunAlone
<1>1. /\ CallTyped /\ CallLog \in Seq(LogSet) /\ CallLog[l] \in LogSet
  BY TalkPlaces DEF CallInv, CallTyped
<1>2. w \in LogSet /\ w.of = CallLog[l].of /\ w.tagged = CallLog[l].tagged
  <2>1. 0 \in Chosen
    BY DEF Chosen
  <2>2. QED
    BY <1>1, <2>1 DEF LogSet
<1>3. /\ CallLog' \in Seq(LogSet) /\ DOMAIN CallLog' = DOMAIN CallLog
      /\ CallLog'[l] = w /\ \A k \in DOMAIN CallLog \ {l} : CallLog'[k] = CallLog[k]
  BY <1>0, <1>1, <1>2
<1> HIDE DEF w
<1>4. \A k \in DOMAIN CallLog : CallLog'[k].of = CallLog[k].of /\ CallLog'[k].tagged = CallLog[k].tagged
  BY <1>2, <1>3
<1>5. odd' \in SUBSET Talks /\ odd \subseteq odd'
  BY <1>0, <1>1 DEF CallTyped, LogSet
<1>6. CallTyped' /\ LogInv' /\ Open' = Open
  BY <1>0, <1>3, <1>4, <1>5 DEF CallInv, CallTyped, LogInv, Open
<1>7. TalkInv' /\ OwnInv'
  BY <1>0, <1>3, <1>4, <1>5, <1>6 DEF CallInv, TalkInv, OwnInv, Same
<1>8. FindInv'
  BY <1>0, <1>3, <1>4, <1>5 DEF CallInv, FindInv, Same
<1>9. RecInv'
  BY <1>0, <1>5, RecordingsKept DEF CallInv, RecInv
<1>10. QED
  BY <1>0, <1>6, <1>7, <1>8, <1>9 DEF CallInv

\* One more call: one that is still open is mixed up, and an unrecorded one after another.
NewCall(n, c) ==
  /\ c \in CallSet /\ c.number = n /\ Len(talk) < MaxTalks /\ talk' = Append(talk, c)
  /\ c.rec \in {0, Len(talk) + 1}
  /\ odd \subseteq odd' /\ odd' \subseteq odd \cup DOMAIN talk \cup {Len(talk) + 1}
  /\ \A o \in DOMAIN talk : talk[o].number = n =>
       /\ o \in Open => o \in odd' /\ Len(talk) + 1 \in odd'
       /\ c.rec = 0 => Len(talk) + 1 \in odd'
  /\ c.disp = "sent" => Len(talk) + 1 \in odd'
  /\ UNCHANGED <<CallLog, annotating>>

LEMMA CallMade ==
  ASSUME RunInv, CallInv, NEW n \in Dialed, NEW c, NewCall(n, c)
  PROVE  /\ (CallTyped /\ TalkInv /\ LogInv /\ FindInv /\ OwnInv)'
         /\ DOMAIN talk' = DOMAIN talk \cup {Len(talk) + 1} /\ talk'[Len(talk) + 1] = c
         /\ \A t \in DOMAIN talk : talk'[t] = talk[t] /\ t \in Nat /\ t < Len(talk) + 1
         /\ Len(talk) + 1 \in Talks
<1> DEFINE u == Len(talk) + 1
<1>1. /\ CallTyped /\ Len(talk) \in Nat /\ DOMAIN talk = 1..Len(talk) /\ talk \in Seq(CallSet) /\ c \in CallSet
      /\ DOMAIN talk \subseteq Talks /\ u \in Talks
  BY TalkPlaces, RecordsConstants DEF CallInv, CallTyped, NewCall, Talks
<1>2. /\ talk' \in Seq(CallSet) /\ Len(talk') = u /\ talk'[u] = c
      /\ \A t \in 1..Len(talk) : talk'[t] = talk[t]
  BY <1>1, AppendProperties DEF NewCall
<1>3. DOMAIN talk' = DOMAIN talk \cup {u} /\ \A t \in DOMAIN talk : talk'[t] = talk[t] /\ t \in Nat /\ t < u
  BY <1>1, <1>2
<1>4. /\ odd \subseteq odd' /\ UNCHANGED <<CallLog, annotating>> /\ odd' \subseteq Talks
      /\ \A o \in DOMAIN talk : talk[o].number = n => (o \in Open => o \in odd' /\ u \in odd') /\ (c.rec = 0 => u \in odd')
      /\ c.disp = "sent" => u \in odd'
      /\ c.number = n /\ c.rec \in {0, u}
  BY <1>1 DEF NewCall, CallTyped
<1>5. CallTyped'
  BY <1>1, <1>2, <1>4, RecordsConstants DEF CallTyped, Talks
<1> HIDE DEF u
<1>6. Open' \subseteq Open \cup {u} /\ u \notin DOMAIN talk
  BY <1>3, <1>4 DEF Open, u
<1>7. TalkInv'
  <2>1. \A t \in DOMAIN talk' : talk'[t].rec \in {0, t}
    BY <1>2, <1>3, <1>4 DEF CallInv, TalkInv
  <2>2. ASSUME NEW t \in DOMAIN talk', NEW o \in DOMAIN talk', t < o, talk'[t].number = talk'[o].number
        PROVE  (t \in Open' => t \in odd' /\ o \in odd') /\ (o \notin odd' => talk'[o].rec # 0)
    <3>1. CASE o \in DOMAIN talk
      <4>1. t \in DOMAIN talk /\ (t \in Open' => t \in Open)
        BY <1>1, <1>3, <1>6, <2>2, <3>1 DEF u
      <4>2. QED
        BY <1>3, <1>4, <2>2, <3>1, <4>1 DEF CallInv, TalkInv, Same
    <3>2. CASE o = u
      <4>1. t \in DOMAIN talk /\ (t \in Open' => t \in Open) /\ talk[t].number = n
        BY <1>1, <1>2, <1>3, <1>4, <1>6, <2>2, <3>2 DEF u
      <4>2. QED
        BY <1>2, <1>4, <3>2, <4>1
    <3>3. QED
      BY <1>3, <3>1, <3>2
  <2>3. \A t \in DOMAIN talk' \ odd' : talk'[t].disp = "sent" => talk'[t].at \in {"logged", "gone"}
    BY <1>2, <1>3, <1>4 DEF CallInv, TalkInv
  <2>4. QED
    BY <2>1, <2>2, <2>3 DEF TalkInv, Same
<1>8. LogInv' /\ OwnInv'
  BY <1>3, <1>4 DEF CallInv, LogInv, OwnInv
<1>9. FindInv'
  <2>1. ASSUME annotating.at = "finding", \A t \in DOMAIN talk : Same(t, annotating.of) => t \in odd
        PROVE  \A t \in DOMAIN talk' : talk'[t].number = talk'[annotating.of].number => t \in odd'
    <3>1. annotating.of \in DOMAIN talk /\ annotating.of \in Open
      BY <2>1 DEF CallInv, FindInv, Open
    <3>2. QED
      BY <1>2, <1>3, <1>4, <2>1, <3>1 DEF Same
  <2>2. ASSUME annotating.at # "idle"
        PROVE  annotating.of \in DOMAIN talk /\ talk'[annotating.of] = talk[annotating.of]
    BY <1>3, <2>2 DEF CallInv, FindInv
  <2>3. QED
    BY <1>3, <1>4, <2>1, <2>2 DEF CallInv, FindInv, Same
<1>10. QED
  BY <1>1, <1>2, <1>3, <1>5, <1>7, <1>8, <1>9 DEF u

LEMMA PlacesByHand ==
  ASSUME RunInv, CallInv, NEW n \in Dialed, placesByHand(n)
  PROVE  CallInv' /\ RunAlone
<1> DEFINE c == [number |-> n, at |-> "over", disp |-> "sent", rec |-> 0]
<1>1. c \in CallSet
  BY DEF CallSet, Chosen
<1>2. NewCall(n, c) /\ RunAlone
  BY <1>1 DEF placesByHand, NewCall, RunAlone, Open
<1>3. /\ (CallTyped /\ TalkInv /\ LogInv /\ FindInv /\ OwnInv)'
      /\ DOMAIN talk' = DOMAIN talk \cup {Len(talk) + 1} /\ talk'[Len(talk) + 1] = c
      /\ \A t \in DOMAIN talk : talk'[t] = talk[t]
  BY <1>2, CallMade
<1>4. UNCHANGED <<dial, item, CallAttempt, persisting, annotating>> /\ odd \subseteq odd'
  BY <1>2 DEF RunAlone, memory, tables, NewCall
<1>5. AllRows' = AllRows
  BY <1>4 DEF AllRows
<1>6. c.rec = 0
  OBVIOUS
<1> HIDE DEF c
<1>7. RecInv'
  BY <1>3, <1>4, <1>5, <1>6 DEF CallInv, RecInv
<1>8. QED
  BY <1>2, <1>3, <1>7 DEF CallInv

LEMMA CustomerAnswers ==
  ASSUME RunInv, CallInv, NEW n \in Dialed, customerAnswers(n)
  PROVE  RunInv' /\ CallInv'
<1> DEFINE t == Len(talk) + 1
           rec == IF dial.records THEN t ELSE 0
           c == [number |-> n, at |-> "queue", disp |-> "due", rec |-> rec]
<1>1. t \in Talks /\ talk' = Append(talk, c) /\ Len(talk) < MaxTalks
  BY AnswerEnds DEF CallInv, customerAnswers
<1>2. PICK it \in Items : Ends(n, it) /\ it.status = "answered" /\ it.rec = rec
  BY AnswerEnds DEF CallInv
<1>3. c \in CallSet /\ c.rec = rec /\ c.number = n
  BY <1>1 DEF CallSet, Chosen
<1>4. NewCall(n, c)
  <2> DEFINE others == {o \in DOMAIN talk : talk[o].number = n}
  <2>1. odd' = odd \cup (others \cap Open)
                  \cup IF others \cap Open # {} \/ (rec = 0 /\ others # {}) THEN {t} ELSE {}
    BY DEF customerAnswers
  <2>2. UNCHANGED <<CallLog, annotating>>
    BY DEF customerAnswers
  <2>3. c.rec \in {0, t} /\ c.disp = "due"
    BY <1>3
  <2> HIDE DEF c, rec
  <2>4. odd \subseteq odd' /\ odd' \subseteq odd \cup DOMAIN talk \cup {t}
    BY <2>1
  <2>5. \A o \in others : (o \in Open => o \in odd' /\ t \in odd') /\ (c.rec = 0 => t \in odd')
    BY <1>3, <2>1
  <2>6. QED
    BY <1>1, <1>3, <2>2, <2>3, <2>4, <2>5 DEF NewCall
<1>5. /\ (CallTyped /\ TalkInv /\ LogInv /\ FindInv /\ OwnInv)'
      /\ DOMAIN talk' = DOMAIN talk \cup {t} /\ talk'[t] = c
      /\ \A o \in DOMAIN talk : talk'[o] = talk[o] /\ o \in Nat /\ o < t
  BY <1>4, CallMade
<1> DEFINE new == attemptRow(n, it)
<1>6. RunInv' /\ AllRows' = AllRows \cup {new}
  BY <1>2, AttemptEnds
<1>7. /\ new.run = dial.no /\ new.number = n /\ new.rec = rec
      /\ persisting' = persisting \cup {new}
      /\ UNCHANGED <<dial, CallAttempt, annotating>> /\ odd \subseteq odd'
      /\ dial.live /\ item' = [item EXCEPT ![n] = it] /\ item[n].status = "dialing"
  BY <1>2, <1>4 DEF Ends, attemptRow, NewCall, RunInv, ItemInv
<1>8. item \in [Dialed -> Items] /\ \A row \in AllRows : row \in RowSet
  BY RowsTyped DEF RunInv, RunTyped
<1>9. rec \in {0, t} /\ t \in Nat
  BY <1>1, RecordsConstants DEF Talks
<1> HIDE DEF new, c, rec, t
<1>10. RecInv'
  <2>1. \A m \in Dialed : item'[m].status # "answered" => item'[m].rec = 0
    BY <1>2, <1>7, <1>8 DEF CallInv, RecInv
  <2>2. \A row \in AllRows' : row.rec # 0 =>
          /\ row.rec \in DOMAIN talk' /\ talk'[row.rec].number = row.number /\ talk'[row.rec].rec = row.rec
          /\ dial.live /\ row.run = dial.no => item'[row.number].status = "answered"
    <3>1. ASSUME NEW row \in AllRows, row.rec # 0
          PROVE  /\ row.rec \in DOMAIN talk' /\ talk'[row.rec].number = row.number /\ talk'[row.rec].rec = row.rec
                 /\ dial.live /\ row.run = dial.no => item'[row.number].status = "answered"
      <4>1. row.rec \in DOMAIN talk /\ talk[row.rec].number = row.number /\ talk[row.rec].rec = row.rec
        BY <3>1 DEF CallInv, RecInv
      <4>2. dial.live /\ row.run = dial.no => item[row.number].status = "answered"
        BY <3>1 DEF CallInv, RecInv
      <4>3. QED
        BY <4>1, <4>2, <1>5, <1>7, <1>8 DEF RowSet
    <3>2. new.rec # 0 => /\ new.rec \in DOMAIN talk' /\ talk'[new.rec].number = new.number
                         /\ talk'[new.rec].rec = new.rec /\ item'[new.number].status = "answered"
      BY <1>2, <1>3, <1>5, <1>7, <1>8, <1>9
    <3>3. QED
      BY <1>6, <3>1, <3>2
  <2>3. \A row \in persisting : row.rec # 0 => row.number # n
    <3>1. \A row \in persisting : row \in AllRows /\ row.run = dial.no
      BY DEF AllRows, RunInv, RowInv
    <3>2. QED
      BY <1>7, <3>1 DEF CallInv, RecInv
  <2>4. ASSUME NEW row \in persisting', NEW o \in DOMAIN talk', row.rec # 0, o > row.rec, talk'[o].number = row.number
        PROVE  talk'[o].rec = 0
    <3>1. row \in persisting
      BY <1>5, <1>7, <1>9, <2>4
    <3>2. o \in DOMAIN talk
      BY <1>3, <1>5, <2>3, <2>4, <3>1
    <3>3. QED
      BY <1>5, <2>4, <3>1, <3>2 DEF CallInv, RecInv
  <2>5. ASSUME NEW o \in DOMAIN talk' \ odd', talk'[o].rec # 0
        PROVE  \E row \in AllRows' : row.rec = o
    <3>1. CASE o = t
      BY <1>3, <1>5, <1>6, <1>7, <1>9, <2>5, <3>1
    <3>2. CASE o \in DOMAIN talk
      BY <1>5, <1>6, <1>7, <2>5, <3>2 DEF CallInv, RecInv
    <3>3. QED
      BY <1>5, <3>1, <3>2
  <2>6. annotating.at = "finding" /\ annotating.of \notin odd' => \A row \in persisting' : row.rec # annotating.of
    <3>1. annotating.at = "finding" => annotating.of \in DOMAIN talk /\ annotating.of # t /\ annotating.of # 0
      BY <1>5, TalkPlaces DEF CallInv, FindInv
    <3>2. QED
      BY <3>1, <1>7, <1>9 DEF CallInv, RecInv
  <2>7. QED
    BY <2>1, <2>2, <2>4, <2>5, <2>6, <1>7 DEF CallInv, RecInv
<1>11. QED
  BY <1>5, <1>6, <1>10 DEF CallInv

\* The calls stay as they are while the run takes a step.
LEMMA CallsAlone ==
  ASSUME CallInv, UNCHANGED <<callRecs, odd>>, RecInv'
  PROVE  CallInv'
<1>1. UNCHANGED <<talk, CallLog, annotating, odd>>
  BY DEF callRecs
<1>2. Open' = Open
  BY <1>1 DEF Open
<1>3. (CallTyped /\ TalkInv /\ LogInv /\ FindInv /\ OwnInv)'
  BY <1>1, <1>2 DEF CallInv, CallTyped, TalkInv, LogInv, FindInv, OwnInv, Same
<1>4. QED
  BY <1>3 DEF CallInv

\* The dialer's steps that no call takes part in.
LEMMA DialerCalls ==
  ASSUME RunInv, CallInv,
         \/ \E skipped \in SUBSET Dialed, records \in BOOLEAN : startsRun(skipped, records)
         \/ \E n \in Dialed : launches(n) \/ \E retryable \in BOOLEAN : attemptFails(n, retryable)
         \/ \E stopping \in BOOLEAN : runFinishes(stopping)
  PROVE  RunInv' /\ CallInv'
<1>0. UNCHANGED <<callRecs, odd>> /\ UNCHANGED CallAttempt
  BY DEF startsRun, launches, attemptFails, runFinishes, tables
<1>1. UNCHANGED <<talk, CallLog, annotating, odd>>
  BY <1>0 DEF callRecs
<1>2. item \in [Dialed -> Items] /\ AllRows \subseteq RowSet
  BY RowsTyped DEF RunInv, RunTyped
<1>3. CASE \E skipped \in SUBSET Dialed, records \in BOOLEAN : startsRun(skipped, records)
  <2>1. PICK skipped \in SUBSET Dialed, records \in BOOLEAN : startsRun(skipped, records)
    BY <1>3
  <2>2. /\ RunInv' /\ persisting = {} /\ \A row \in persisting' : row.rec = 0
    BY <2>1, RunStarts
  <2>3. AllRows' = AllRows \cup persisting' /\ dial'.no = dial.no + 1
    BY <1>0, <2>1, <2>2 DEF AllRows, startsRun
  <2>4. \A n \in Dialed : item'[n].rec = 0
    BY <2>1 DEF startsRun, Fresh
  <2>5. \A row \in AllRows : row.run # dial'.no
    BY <1>2, <2>3, RecordsConstants DEF RunInv, RowInv, RunTyped, RowSet, Passes
  <2>6. \A t \in DOMAIN talk : t # 0
    BY TalkPlaces DEF CallInv
  <2>7. annotating.at = "finding" => annotating.of # 0
    BY <2>6 DEF CallInv, FindInv
  <2>8. RecInv'
    BY <1>0, <1>1, <2>2, <2>3, <2>4, <2>5, <2>7 DEF CallInv, RecInv
  <2>9. QED
    BY <1>0, <2>2, <2>8, CallsAlone
<1>4. CASE \E n \in Dialed : launches(n)
  <2>1. PICK n \in Dialed : launches(n)
    BY <1>4
  <2>2. /\ UNCHANGED <<dial, persisting>> /\ item[n].status = "queued" /\ dial.live
        /\ item' = [item EXCEPT ![n] = [item[n] EXCEPT !.status = "dialing", !.attempts = @ + 1]]
    BY <2>1 DEF launches, tables
  <2>3. item[n] \in Items
    BY <1>2
  <2>4. item'[n].status = "dialing" /\ item'[n].rec = item[n].rec /\ \A m \in Dialed \ {n} : item'[m] = item[m]
    BY <1>2, <2>2, <2>3 DEF Items
  <2>5. AllRows' = AllRows /\ \A row \in AllRows : row.number \in Dialed
    BY <1>0, <1>2, <2>2 DEF AllRows, RowSet
  <2>6. item'[n].rec = 0 /\ \A m \in Dialed : item[m].status = "answered" => item'[m] = item[m]
    BY <2>2, <2>4 DEF CallInv, RecInv
  <2>7. RecInv'
    BY <1>0, <1>1, <2>2, <2>4, <2>5, <2>6 DEF CallInv, RecInv
  <2>8. QED
    BY <1>0, <2>1, <2>7, CallsAlone, Launches
<1>5. CASE \E n \in Dialed, retryable \in BOOLEAN : attemptFails(n, retryable)
  <2>1. PICK n \in Dialed, retryable \in BOOLEAN : attemptFails(n, retryable)
    BY <1>5
  <2>2. PICK it \in Items : Ends(n, it) /\ it.status # "answered" /\ it.rec = item[n].rec
    BY <2>1, FailureEnds
  <2> DEFINE new == attemptRow(n, it)
  <2>3. RunInv' /\ AllRows' = AllRows \cup {new}
    BY <2>2, AttemptEnds
  <2>4. /\ persisting' = persisting \cup {new} /\ UNCHANGED dial /\ item[n].status = "dialing"
        /\ item' = [item EXCEPT ![n] = it] /\ new.rec = it.rec
    BY <2>2 DEF Ends, attemptRow
  <2>5. it.rec = 0 /\ new.rec = 0
    BY <2>2, <2>4 DEF CallInv, RecInv
  <2> HIDE DEF new
  <2>6. /\ \A m \in Dialed : item[m].status = "answered" => item'[m] = item[m]
        /\ \A m \in Dialed : item'[m].status # "answered" => item'[m].rec = 0
    BY <1>2, <2>4, <2>5 DEF CallInv, RecInv
  <2>7. \A row \in AllRows : row.number \in Dialed
    BY <1>2 DEF RowSet
  <2>8. annotating.at = "finding" => annotating.of # 0
    BY TalkPlaces DEF CallInv, FindInv
  <2>9. RecInv'
    BY <1>0, <1>1, <2>3, <2>4, <2>5, <2>6, <2>7, <2>8 DEF CallInv, RecInv
  <2>10. QED
    BY <1>0, <2>3, <2>9, CallsAlone
<1>6. CASE \E stopping \in BOOLEAN : runFinishes(stopping)
  <2>1. PICK stopping \in BOOLEAN : runFinishes(stopping)
    BY <1>6
  <2>2. RunInv' /\ AllRows' = AllRows
    BY <2>1, RunFinishes
  <2>3. /\ dial' = [dial EXCEPT !.live = FALSE] /\ UNCHANGED persisting
        /\ item' = [n \in Dialed |-> IF item[n].status = "queued" THEN [item[n] EXCEPT !.status = "stopped"] ELSE item[n]]
    BY <2>1 DEF runFinishes
  <2>4. \A n \in Dialed : item'[n].rec = item[n].rec /\ (item[n].status = "answered" => item'[n] = item[n])
    BY <1>2, <2>3 DEF Items
  <2>5. dial'.live = FALSE
    BY <2>3 DEF RunInv, RunTyped
  <2>6. \A n \in Dialed : item'[n].status # "answered" => item'[n].rec = 0
    BY <2>4 DEF CallInv, RecInv
  <2>7. RecInv'
    BY <1>0, <1>1, <2>2, <2>3, <2>5, <2>6 DEF CallInv, RecInv
  <2>8. QED
    BY <1>0, <2>2, <2>7, CallsAlone
<1>7. QED
  BY <1>3, <1>4, <1>5, <1>6

LEMMA PersistCalls ==
  ASSUME RunInv, CallInv, NEW row \in persisting, persist(row) \/ persistFails(row)
  PROVE  RunInv' /\ CallInv'
<1>1. UNCHANGED <<dial, item, talk, CallLog, annotating>> /\ persisting' = persisting \ {row} /\ row \in RowSet
  BY DEF persist, persistFails, memory, callRecs, RunInv, RunTyped
<1>2. CASE persist(row)
  <2>1. RunInv' /\ AllRows' = AllRows
    BY <1>2, Persists
  <2>2. UNCHANGED <<callRecs, odd>>
    BY <1>2 DEF persist
  <2>3. /\ Len(CallAttempt) \in Nat /\ DOMAIN CallAttempt = 1..Len(CallAttempt)
        /\ DOMAIN CallAttempt' = DOMAIN CallAttempt \cup {Len(CallAttempt) + 1}
        /\ CallAttempt'[Len(CallAttempt) + 1] = row /\ \A i \in DOMAIN CallAttempt : CallAttempt'[i] = CallAttempt[i]
    BY <1>1, <1>2, RowAppended DEF persist, RunInv, RunTyped
  <2>4. ASSUME NEW i \in DOMAIN CallAttempt, CallAttempt[i].number = row.number, CallAttempt[i].rec # 0, row.rec # 0
        PROVE  CallAttempt[i].rec <= row.rec
    <3> DEFINE r == CallAttempt[i].rec
    <3>1. CallAttempt[i] \in AllRows /\ row \in AllRows
      BY DEF AllRows, ToSet
    <3>2. r \in DOMAIN talk /\ talk[r].number = row.number /\ talk[r].rec = r /\ row.rec \in DOMAIN talk
      BY <2>4, <3>1 DEF CallInv, RecInv
    <3>3. ~(r > row.rec)
      BY <2>4, <3>2 DEF CallInv, RecInv
    <3>4. QED
      BY <3>2, <3>3, TalkPlaces DEF CallInv
  <2>5. ASSUME NEW i \in DOMAIN CallAttempt', NEW j \in DOMAIN CallAttempt', i < j,
               CallAttempt'[i].number = CallAttempt'[j].number, CallAttempt'[i].rec # 0, CallAttempt'[j].rec # 0
        PROVE  CallAttempt'[i].rec <= CallAttempt'[j].rec
    <3>1. i \in DOMAIN CallAttempt
      BY <2>3, <2>5
    <3>2. CASE j \in DOMAIN CallAttempt
      BY <2>3, <2>5, <3>1, <3>2 DEF CallInv, RecInv
    <3>3. CASE j = Len(CallAttempt) + 1
      BY <2>3, <2>4, <2>5, <3>1, <3>3
    <3>4. QED
      BY <2>3, <3>2, <3>3
  <2>6. odd' = odd
    BY <1>2 DEF persist
  <2>7. RecInv'
    BY <1>1, <2>1, <2>5, <2>6 DEF CallInv, RecInv
  <2>8. QED
    BY <2>1, <2>2, <2>7, CallsAlone
<1>3. CASE persistFails(row)
  <2>1. RunInv' /\ AllRows' \subseteq AllRows /\ AllRows \ {row} \subseteq AllRows' /\ CallAttempt' = CallAttempt
    BY <1>3, PersistFails DEF persistFails
  <2>2. odd' = odd \cup {t \in DOMAIN talk : talk[t].number = row.number}
    BY <1>3 DEF persistFails
  <2>3. odd \subseteq odd' /\ odd' \subseteq Talks /\ Open' = Open
    BY <1>1, <2>2, TalkPlaces DEF CallInv, CallTyped, Open
  <2>4. CallTyped' /\ LogInv' /\ OwnInv' /\ TalkInv' /\ FindInv'
    BY <1>1, <2>3 DEF CallInv, CallTyped, LogInv, OwnInv, TalkInv, FindInv, Same
  <2>5. \A t \in DOMAIN talk \ odd' : talk[t].rec # 0 => \E other \in AllRows' : other.rec = t
    <3>1. row \in AllRows
      BY DEF AllRows
    <3>2. row.rec # 0 => row.rec \in odd'
      BY <2>2, <3>1 DEF CallInv, RecInv
    <3>3. QED
      BY <2>1, <2>3, <3>2, TalkPlaces DEF CallInv, RecInv
  <2>6. RecInv'
    BY <1>1, <2>1, <2>3, <2>5 DEF CallInv, RecInv
  <2>7. QED
    BY <2>1, <2>4, <2>6 DEF CallInv
<1>4. QED
  BY <1>2, <1>3

LEMMA RecordsKept ==
  ASSUME RunInv, CallInv, RecordsNext
  PROVE  RunInv' /\ CallInv'
<1>1. CASE \E n \in Dialed : customerAnswers(n)
  BY <1>1, CustomerAnswers
<1>2. CASE \E n \in Dialed : placesByHand(n)
  BY <1>2, PlacesByHand, RunKept
<1>3. CASE \E row \in persisting : persist(row) \/ persistFails(row)
  BY <1>3, PersistCalls
<1>4. CASE \E t \in DOMAIN talk : reachesAgent(t) \/ callEnds(t)
  BY <1>4, AgentReached, RunKept
<1>5. CASE \E t \in DOMAIN talk : dispositionSent(t)
  BY <1>5, DispositionSent, RunKept
<1>6. CASE \E t \in DOMAIN talk, knows, recent \in BOOLEAN : createLog(t, knows, recent)
  BY <1>6, CreatesLog, RunKept
<1>7. CASE findsLog
  BY <1>7, FindsLog, RunKept
<1>8. CASE annotatesLog
  BY <1>8, AnnotatesLog, RunKept
<1>9. CASE \E l \in DOMAIN CallLog : deleteRecording(l)
  BY <1>9, DeletesRecording, RunKept
<1>10. CASE \/ \E skipped \in SUBSET Dialed, records \in BOOLEAN : startsRun(skipped, records)
            \/ \E n \in Dialed : launches(n) \/ \E retryable \in BOOLEAN : attemptFails(n, retryable)
            \/ \E stopping \in BOOLEAN : runFinishes(stopping)
  BY <1>10, DialerCalls
<1>11. QED
  BY <1>1, <1>2, <1>3, <1>4, <1>5, <1>6, <1>7, <1>8, <1>9, <1>10 DEF RecordsNext

-----------------------------------------------------------------------------
\* The rows with a status, written and on their way, and the customers who wait.
WrittenAs(s) == {i \in DOMAIN CallAttempt : CallAttempt[i].status = s}
Coming(s)  == {row \in persisting : row.status = s}
With(s)    == {n \in Dialed : item[n].status = s}
QueuedCalls    == {t \in DOMAIN talk : talk[t].at = "queue"}
Tally(s)   == Cardinality(WrittenAs(s)) + Cardinality(Coming(s))

\* A status of the summary that counts it.
Counted    == {<<"connected", "answered">>, <<"failed", "failed">>}
LiveOf(s)  == IF dial.live THEN Cardinality(With(s)) ELSE 0

CountInv ==
  /\ IsFiniteSet(persisting)
  /\ lost = {} =>
       /\ \A p \in Counted : summed(p[1]) + LiveOf(p[2]) = Tally(p[2])
       /\ Cardinality(QueuedCalls) <= Tally("answered")

LEMMA Sizes ==
  ASSUME RunTyped, CallTyped, IsFiniteSet(persisting)
  PROVE  /\ \A s : /\ IsFiniteSet(WrittenAs(s)) /\ Cardinality(WrittenAs(s)) \in Nat
                   /\ IsFiniteSet(Coming(s)) /\ Cardinality(Coming(s)) \in Nat
                   /\ IsFiniteSet(With(s)) /\ Cardinality(With(s)) \in Nat
         /\ IsFiniteSet(QueuedCalls) /\ Cardinality(QueuedCalls) \in Nat
<1>1. IsFiniteSet(DOMAIN CallAttempt) /\ IsFiniteSet(DOMAIN talk)
  <2>1. \A k \in Nat : IsFiniteSet(1..k)
    <3>1. SUFFICES ASSUME NEW k \in Nat
                   PROVE  IsFiniteSet(1..k)
      OBVIOUS
    <3>2. 1 \in Int /\ k \in Int
      OBVIOUS
    <3>3. QED
      BY <3>2, FS_Interval
  <2>2. Len(CallAttempt) \in Nat /\ DOMAIN CallAttempt = 1..Len(CallAttempt) /\ Len(talk) \in Nat /\ DOMAIN talk = 1..Len(talk)
    BY DEF RunTyped, CallTyped
  <2>3. QED
    BY <2>1, <2>2
<1>2. \A s : With(s) \in SUBSET Dialed /\ WrittenAs(s) \in SUBSET DOMAIN CallAttempt /\ Coming(s) \in SUBSET persisting
  BY DEF With, WrittenAs, Coming
<1>3. \A s : IsFiniteSet(WrittenAs(s)) /\ IsFiniteSet(Coming(s)) /\ IsFiniteSet(With(s))
  BY <1>1, <1>2, RecordsConstants, FS_Subset
<1>4. QueuedCalls \in SUBSET DOMAIN talk
  BY DEF QueuedCalls
<1>5. IsFiniteSet(QueuedCalls)
  BY <1>1, <1>4, FS_Subset
<1>6. QED
  BY <1>3, <1>5, FS_CardinalityType

\* The sum grows by the counts of the run that finishes.
LEMMA SumGrows ==
  ASSUME NEW X, IsFiniteSet(X), NEW r, NEW c \in Nat, \A e \in X : e[1] # r
  PROVE  /\ IsFiniteSet(X \cup {r} \X (1..c))
         /\ Cardinality(X \cup {r} \X (1..c)) = Cardinality(X) + c
<1>1. IsFiniteSet(1..c) /\ Cardinality(1..c) = c
  <2>1. 1 \in Int /\ c \in Int
    OBVIOUS
  <2>2. IsFiniteSet(1..c) /\ Cardinality(1..c) = IF 1 > c THEN 0 ELSE c - 1 + 1
    BY <2>1, FS_Interval
  <2>3. QED
    BY <2>2
<1>2. IsFiniteSet({r}) /\ Cardinality({r}) = 1
  BY FS_Singleton
<1> DEFINE Y == {r} \X (1..c)
<1>3. IsFiniteSet(Y) /\ Cardinality(Y) = Cardinality({r}) * Cardinality(1..c)
  BY <1>1, <1>2, FS_Product
<1>4. Cardinality(Y) = c
  BY <1>1, <1>2, <1>3
<1>5. X \cap Y = {}
  OBVIOUS
<1> HIDE DEF Y
<1>6. IsFiniteSet(X \cup Y) /\ Cardinality(X \cup Y) = Cardinality(X) + Cardinality(Y) - Cardinality({})
  BY <1>3, <1>5, FS_Union
<1>7. Cardinality(X) \in Nat /\ Cardinality({}) = 0
  BY FS_CardinalityType, FS_EmptySet
<1>8. QED
  BY <1>4, <1>6, <1>7 DEF Y

Summands(count) == UNION {{r} \X (1..CampaignRun[r][count]) : r \in campaignRuns}

LEMMA SummandsFinite ==
  ASSUME RunTyped, NEW count \in {"connected", "failed"}
  PROVE  IsFiniteSet(Summands(count)) /\ summed(count) = Cardinality(Summands(count)) /\ summed(count) \in Nat
<1>1. Cardinality(Dialed) \in Nat
  BY RecordsConstants, FS_CardinalityType
<1>2. \A k \in Nat : IsFiniteSet(1..k)
  <2>1. SUFFICES ASSUME NEW k \in Nat
                 PROVE  IsFiniteSet(1..k)
    OBVIOUS
  <2>2. 1 \in Int /\ k \in Int
    OBVIOUS
  <2>3. QED
    BY <2>2, FS_Interval
<1>3. IsFiniteSet(Passes \X (1..Cardinality(Dialed)))
  <2>1. IsFiniteSet(Passes) /\ IsFiniteSet(1..Cardinality(Dialed))
    BY <1>1, <1>2, RecordsConstants DEF Passes
  <2>2. QED
    BY <2>1, FS_Product
<1>4. Summands(count) \in SUBSET (Passes \X (1..Cardinality(Dialed)))
  <2>1. \A r \in campaignRuns : r \in Passes /\ CampaignRun[r] \in Summary
    BY DEF RunTyped, campaignRuns
  <2>2. \A r \in campaignRuns : CampaignRun[r][count] \in Int /\ CampaignRun[r][count] <= Cardinality(Dialed)
    <3>1. \A s \in Summary : s[count] \in {-1} \cup 0..Cardinality(Dialed)
      BY DEF Summary
    <3>2. QED
      BY <1>1, <2>1, <3>1
  <2>3. \A r \in campaignRuns : {r} \X (1..CampaignRun[r][count]) \subseteq Passes \X (1..Cardinality(Dialed))
    BY <1>1, <2>1, <2>2
  <2>4. QED
    BY <2>3 DEF Summands
<1>5. IsFiniteSet(Summands(count))
  BY <1>3, <1>4, FS_Subset
<1>6. QED
  BY <1>5, FS_CardinalityType DEF summed, Summands

LEMMA SumOfRuns ==
  ASSUME RunInv, NEW p \in Counted, NEW stopping \in BOOLEAN, runFinishes(stopping)
  PROVE  summed(p[1])' = summed(p[1]) + Cardinality(With(p[2]))
<1> DEFINE f == p[1]
           c == Cardinality(With(p[2]))
<1>1. /\ dial.no \in Passes \ campaignRuns /\ campaignRuns' = campaignRuns \cup {dial.no}
      /\ CampaignRun' = [CampaignRun EXCEPT ![dial.no] = persistRunSummary(item)]
  BY RunFinishes
<1>2. CampaignRun \in [Passes -> Summary] /\ campaignRuns \subseteq Passes /\ f \in {"connected", "failed"}
  BY DEF RunInv, RunTyped, campaignRuns, Counted
<1>3. c \in Nat
  BY SomeOfDialed DEF With
<1>4. CampaignRun'[dial.no][f] = c /\ \A r \in campaignRuns : CampaignRun'[r] = CampaignRun[r]
  <2>1. CampaignRun'[dial.no] = persistRunSummary(item) /\ \A r \in campaignRuns : CampaignRun'[r] = CampaignRun[r]
    BY <1>1, <1>2
  <2>2. CASE p = <<"connected", "answered">>
    <3>1. f = "connected" /\ c = countItems(item, "answered")
      BY <2>2 DEF countItems, With
    <3>2. persistRunSummary(item)["connected"] = countItems(item, "answered")
      BY DEF persistRunSummary
    <3>3. QED
      BY <2>1, <3>1, <3>2
  <2>3. CASE p = <<"failed", "failed">>
    <3>1. f = "failed" /\ c = countItems(item, "failed")
      BY <2>3 DEF countItems, With
    <3>2. persistRunSummary(item)["failed"] = countItems(item, "failed")
      BY DEF persistRunSummary
    <3>3. QED
      BY <2>1, <3>1, <3>2
  <2>4. QED
    BY <2>2, <2>3 DEF Counted
<1> HIDE DEF f, c
<1>5. Summands(f)' = Summands(f) \cup {dial.no} \X (1..c)
  <2>1. Summands(f)' = UNION {{r} \X (1..CampaignRun'[r][f]) : r \in campaignRuns \cup {dial.no}}
    BY <1>1 DEF Summands
  <2>2. \A r \in campaignRuns : {r} \X (1..CampaignRun'[r][f]) = {r} \X (1..CampaignRun[r][f])
    BY <1>4
  <2>3. {dial.no} \X (1..CampaignRun'[dial.no][f]) = {dial.no} \X (1..c)
    BY <1>4
  <2>4. QED
    BY <2>1, <2>2, <2>3 DEF Summands
<1>6. \A e \in Summands(f) : e[1] # dial.no
  BY <1>1 DEF Summands
<1>7. IsFiniteSet(Summands(f)) /\ summed(f) = Cardinality(Summands(f))
  BY <1>2, SummandsFinite DEF RunInv
<1>8. Cardinality(Summands(f)') = Cardinality(Summands(f)) + c
  <2>1. PICK X : X = Summands(f)
    OBVIOUS
  <2>2. Cardinality(X \cup {dial.no} \X (1..c)) = Cardinality(X) + c
    BY <1>3, <1>6, <1>7, <2>1, SumGrows
  <2>3. QED
    BY <1>5, <2>1, <2>2
<1>9. summed(f)' = Cardinality(Summands(f)')
  BY DEF summed, Summands
<1>10. QED
  BY <1>7, <1>8, <1>9 DEF f, c

\* While the runs' summaries stay, so does their sum.
LEMMA SumStays ==
  ASSUME UNCHANGED CampaignRun, NEW count
  PROVE  summed(count)' = summed(count)
BY DEF summed, campaignRuns

\* A row more on its way, with the item that leaves it.
LEMMA EndsCounted ==
  ASSUME RunInv, CallTyped, CountInv, NEW n \in Dialed, NEW it, Ends(n, it)
  PROVE  /\ IsFiniteSet(persisting')
         /\ \A s : Tally(s)' = Tally(s) + (IF it.status = s THEN 1 ELSE 0)
         /\ \A s \in {"answered", "failed"} : LiveOf(s)' = LiveOf(s) + (IF it.status = s THEN 1 ELSE 0)
<1> DEFINE new == attemptRow(n, it)
<1>1. /\ persisting' = persisting \cup {new} /\ UNCHANGED <<CallAttempt, dial>> /\ new.status = it.status
      /\ item' = [item EXCEPT ![n] = it] /\ item[n].status = "dialing" /\ item \in [Dialed -> Items]
  BY DEF Ends, attemptRow, RunInv, RunTyped
<1>2. new \notin persisting
  BY AttemptEnds DEF AllRows
<1>3. /\ IsFiniteSet(persisting)
      /\ \A s : /\ IsFiniteSet(Coming(s)) /\ Cardinality(Coming(s)) \in Nat /\ Cardinality(WrittenAs(s)) \in Nat
                /\ IsFiniteSet(With(s)) /\ Cardinality(With(s)) \in Nat
  BY Sizes DEF RunInv, CountInv
<1> HIDE DEF new
<1>4. IsFiniteSet(persisting')
  BY <1>1, <1>3, FS_AddElement
<1>5. ASSUME NEW s
      PROVE  Tally(s)' = Tally(s) + (IF it.status = s THEN 1 ELSE 0)
  <2>1. WrittenAs(s)' = WrittenAs(s)
    BY <1>1 DEF WrittenAs
  <2>2. CASE it.status = s
    <3>1. Coming(s)' = Coming(s) \cup {new} /\ new \notin Coming(s)
      BY <1>1, <1>2, <2>2 DEF Coming
    <3>2. PICK X : X = Coming(s)
      OBVIOUS
    <3>3. Cardinality(X \cup {new}) = Cardinality(X) + 1
      BY <1>3, <3>1, <3>2, FS_AddElement
    <3>4. QED
      BY <1>3, <2>1, <2>2, <3>1, <3>2, <3>3 DEF Tally
  <2>3. CASE it.status # s
    <3>1. Coming(s)' = Coming(s)
      BY <1>1, <2>3 DEF Coming
    <3>2. QED
      BY <1>3, <2>1, <2>3, <3>1 DEF Tally
  <2>4. QED
    BY <2>2, <2>3
<1>6. ASSUME NEW s \in {"answered", "failed"}
      PROVE  LiveOf(s)' = LiveOf(s) + (IF it.status = s THEN 1 ELSE 0)
  <2>1. dial.live
    BY <1>1 DEF RunInv, ItemInv
  <2>2. CASE it.status = s
    <3>1. With(s)' = With(s) \cup {n} /\ n \notin With(s)
      BY <1>1, <2>2 DEF With
    <3>2. PICK X : X = With(s)
      OBVIOUS
    <3>3. Cardinality(X \cup {n}) = Cardinality(X) + 1
      BY <1>3, <3>1, <3>2, FS_AddElement
    <3>4. QED
      BY <1>1, <2>1, <2>2, <3>1, <3>2, <3>3 DEF LiveOf
  <2>3. CASE it.status # s
    <3>1. With(s)' = With(s)
      BY <1>1, <2>3 DEF With
    <3>2. QED
      BY <1>1, <1>3, <2>1, <2>3, <3>1 DEF LiveOf
  <2>4. QED
    BY <2>2, <2>3
<1>7. QED
  BY <1>4, <1>5, <1>6

LEMMA DialerCounts ==
  ASSUME RunInv, CallTyped, CountInv, UNCHANGED talk,
         \/ \E skipped \in SUBSET Dialed, records \in BOOLEAN : startsRun(skipped, records)
         \/ \E n \in Dialed : launches(n) \/ \E retryable \in BOOLEAN : attemptFails(n, retryable)
         \/ \E stopping \in BOOLEAN : runFinishes(stopping)
  PROVE  CountInv'
<1>0. UNCHANGED <<CallAttempt, lost>> /\ QueuedCalls' = QueuedCalls /\ \A s : WrittenAs(s)' = WrittenAs(s)
  BY DEF startsRun, launches, attemptFails, runFinishes, tables, QueuedCalls, WrittenAs
<1>1. /\ IsFiniteSet(persisting) /\ Cardinality(QueuedCalls) \in Nat /\ item \in [Dialed -> Items]
      /\ \A s : /\ Cardinality(Coming(s)) \in Nat /\ Cardinality(WrittenAs(s)) \in Nat /\ Cardinality(With(s)) \in Nat
  BY Sizes DEF RunInv, RunTyped, CountInv
<1>2. \A p \in Counted : p[2] \in {"answered", "failed"} /\ p[1] \in {"connected", "failed"} /\ summed(p[1]) \in Nat
  BY SummandsFinite DEF Counted, RunInv
<1>3. CASE \E skipped \in SUBSET Dialed, records \in BOOLEAN : startsRun(skipped, records)
  <2>1. PICK skipped \in SUBSET Dialed, records \in BOOLEAN : startsRun(skipped, records)
    BY <1>3
  <2>2. /\ persisting = {} /\ \A n \in Dialed : item'[n].status \in {"queued", "skipped"}
        /\ \A row \in persisting' : row.status = "skipped"
    BY <2>1, RunStarts
  <2>3. IsFiniteSet(persisting')
    <3> DEFINE new(n) == [attemptRow(n, item'[n]) EXCEPT !.run = dial'.no]
    <3>1. persisting' = {new(n) : n \in skipped}
      BY <2>1, <2>2 DEF startsRun
    <3>2. \A n \in skipped : new(n).number = n
      BY DEF attemptRow
    <3> HIDE DEF new
    <3>3. PICK S : S = persisting'
      OBVIOUS
    <3>4. /\ \A row \in S : row.number \in skipped
          /\ \A row, other \in S : row.number = other.number => row = other
          /\ \A n \in skipped : \E row \in S : row.number = n
      BY <3>1, <3>2, <3>3
    <3>5. IsFiniteSet(S)
      BY <3>4, RowsAsNumbers
    <3>6. QED
      BY <3>3, <3>5
  <2>4. \A s \in {"answered", "failed"} : Coming(s)' = {} /\ Coming(s) = {} /\ With(s)' = {}
    BY <2>2 DEF Coming, With
  <2>5. \A s \in {"answered", "failed"} : Tally(s)' = Tally(s) /\ LiveOf(s)' = 0 /\ LiveOf(s) = 0
    BY <1>0, <2>1, <2>4, FS_EmptySet DEF Tally, LiveOf, startsRun
  <2>6. \A count : summed(count)' = summed(count)
    BY <2>1, SumStays DEF startsRun
  <2>7. QED
    BY <1>0, <1>2, <2>3, <2>5, <2>6 DEF CountInv
<1>4. CASE \E n \in Dialed : launches(n)
  <2>1. PICK n \in Dialed : launches(n)
    BY <1>4
  <2>2. /\ UNCHANGED <<dial, persisting, CampaignRun>> /\ item[n].status = "queued"
        /\ item' = [item EXCEPT ![n] = [item[n] EXCEPT !.status = "dialing", !.attempts = @ + 1]]
    BY <2>1 DEF launches, tables
  <2>3. item[n] \in Items
    BY <1>1
  <2>4. item'[n].status = "dialing" /\ \A m \in Dialed \ {n} : item'[m] = item[m]
    BY <1>1, <2>2, <2>3 DEF Items
  <2>5. \A s \in {"answered", "failed"} : With(s)' = With(s)
    BY <2>2, <2>4 DEF With
  <2>6. \A s : Coming(s)' = Coming(s)
    BY <2>2 DEF Coming
  <2>7. \A s \in {"answered", "failed"} : Tally(s)' = Tally(s) /\ LiveOf(s)' = LiveOf(s)
    BY <1>0, <2>2, <2>5, <2>6 DEF Tally, LiveOf
  <2>8. \A count : summed(count)' = summed(count)
    BY <2>2, SumStays
  <2>9. QED
    BY <1>0, <1>2, <2>2, <2>7, <2>8 DEF CountInv
<1>5. CASE \E n \in Dialed, retryable \in BOOLEAN : attemptFails(n, retryable)
  <2>1. PICK n \in Dialed, retryable \in BOOLEAN : attemptFails(n, retryable)
    BY <1>5
  <2>2. PICK it \in Items : Ends(n, it) /\ it.status # "answered"
    BY <2>1, FailureEnds
  <2>3. /\ IsFiniteSet(persisting')
        /\ \A s : Tally(s)' = Tally(s) + (IF it.status = s THEN 1 ELSE 0)
        /\ \A s \in {"answered", "failed"} : LiveOf(s)' = LiveOf(s) + (IF it.status = s THEN 1 ELSE 0)
    BY <2>2, EndsCounted
  <2>4. \A count : summed(count)' = summed(count)
    BY <2>2, SumStays DEF Ends
  <2>5. \A s : Tally(s) \in Int /\ LiveOf(s) \in Int
    BY <1>1 DEF Tally, LiveOf
  <2>6. \A p \in Counted : summed(p[1]) + LiveOf(p[2]) = Tally(p[2]) => (summed(p[1]) + LiveOf(p[2]) = Tally(p[2]))'
    <3>1. ASSUME NEW p \in Counted, summed(p[1]) + LiveOf(p[2]) = Tally(p[2])
          PROVE  (summed(p[1]) + LiveOf(p[2]) = Tally(p[2]))'
      <4>1. summed(p[1])' = summed(p[1]) /\ summed(p[1]) \in Int /\ p[2] \in {"answered", "failed"}
        BY <1>2, <2>4
      <4>2. QED
        BY <2>3, <2>5, <3>1, <4>1
    <3>2. QED
      BY <3>1
  <2>7. Tally("answered")' = Tally("answered")
    BY <2>2, <2>3, <2>5
  <2>8. QED
    BY <1>0, <2>3, <2>6, <2>7 DEF CountInv
<1>6. CASE \E stopping \in BOOLEAN : runFinishes(stopping)
  <2>1. PICK stopping \in BOOLEAN : runFinishes(stopping)
    BY <1>6
  <2>2. /\ dial' = [dial EXCEPT !.live = FALSE] /\ UNCHANGED persisting /\ dial.live
    BY <2>1 DEF runFinishes
  <2>3. dial'.live = FALSE
    BY <2>2 DEF RunInv, RunTyped
  <2>4. \A s : Coming(s)' = Coming(s)
    BY <2>2 DEF Coming
  <2>5. \A s : Tally(s)' = Tally(s) /\ LiveOf(s)' = 0 /\ LiveOf(s) = Cardinality(With(s))
    BY <1>0, <2>2, <2>3, <2>4 DEF Tally, LiveOf
  <2>6. \A p \in Counted : summed(p[1])' = summed(p[1]) + Cardinality(With(p[2]))
    BY <2>1, SumOfRuns
  <2>7. \A p \in Counted : summed(p[1]) + LiveOf(p[2]) = Tally(p[2]) => (summed(p[1]) + LiveOf(p[2]) = Tally(p[2]))'
    <3>1. ASSUME NEW p \in Counted, summed(p[1]) + LiveOf(p[2]) = Tally(p[2])
          PROVE  (summed(p[1]) + LiveOf(p[2]) = Tally(p[2]))'
      BY <1>1, <1>2, <2>5, <2>6, <3>1
    <3>2. QED
      BY <3>1
  <2>8. QED
    BY <1>0, <1>1, <2>2, <2>5, <2>7 DEF CountInv
<1>7. QED
  BY <1>3, <1>4, <1>5, <1>6

LEMMA AnswerCounts ==
  ASSUME RunInv, CallTyped, CountInv, NEW n \in Dialed, customerAnswers(n)
  PROVE  CountInv'
<1> DEFINE t == Len(talk) + 1
<1>1. PICK c : talk' = Append(talk, c) /\ c \in CallSet /\ c.at = "queue"
  <2>1. /\ t \in Talks
        /\ talk' = Append(talk, [number |-> n, at |-> "queue", disp |-> "due", rec |-> IF dial.records THEN t ELSE 0])
    BY AnswerEnds
  <2>2. [number |-> n, at |-> "queue", disp |-> "due", rec |-> IF dial.records THEN t ELSE 0] \in CallSet
    BY <2>1 DEF CallSet, Chosen
  <2>3. QED
    BY <2>1, <2>2
<1>2. PICK it \in Items : Ends(n, it) /\ it.status = "answered"
  BY AnswerEnds
<1>3. /\ IsFiniteSet(persisting')
      /\ \A s : Tally(s)' = Tally(s) + (IF it.status = s THEN 1 ELSE 0)
      /\ \A s \in {"answered", "failed"} : LiveOf(s)' = LiveOf(s) + (IF it.status = s THEN 1 ELSE 0)
  BY <1>2, EndsCounted
<1>4. \A count : summed(count)' = summed(count)
  BY <1>2, SumStays DEF Ends
<1>5. /\ \A s : /\ Cardinality(Coming(s)) \in Nat /\ Cardinality(WrittenAs(s)) \in Nat /\ Cardinality(With(s)) \in Nat
      /\ IsFiniteSet(QueuedCalls) /\ Cardinality(QueuedCalls) \in Nat
  BY Sizes DEF RunInv, CountInv
<1>6. \A s : Tally(s) \in Int /\ LiveOf(s) \in Int
  BY <1>5 DEF Tally, LiveOf
<1>7. \A p \in Counted : p[2] \in {"answered", "failed"} /\ p[1] \in {"connected", "failed"} /\ summed(p[1]) \in Nat
  BY SummandsFinite DEF Counted, RunInv
<1>8. \A p \in Counted : summed(p[1]) + LiveOf(p[2]) = Tally(p[2]) => (summed(p[1]) + LiveOf(p[2]) = Tally(p[2]))'
  <2>1. ASSUME NEW p \in Counted, summed(p[1]) + LiveOf(p[2]) = Tally(p[2])
        PROVE  (summed(p[1]) + LiveOf(p[2]) = Tally(p[2]))'
    <3>1. summed(p[1])' = summed(p[1]) /\ summed(p[1]) \in Int /\ p[2] \in {"answered", "failed"}
      BY <1>4, <1>7
    <3>2. QED
      BY <1>3, <1>6, <2>1, <3>1
  <2>2. QED
    BY <2>1
<1>9. Cardinality(QueuedCalls') <= Cardinality(QueuedCalls) + 1
  <2>1. /\ talk \in Seq(CallSet) /\ Len(talk) \in Nat /\ DOMAIN talk = 1..Len(talk)
    BY DEF CallTyped
  <2>2. /\ DOMAIN talk' = DOMAIN talk \cup {t} /\ talk'[t] = c /\ \A o \in DOMAIN talk : talk'[o] = talk[o]
    BY <1>1, <2>1, AppendProperties
  <2> HIDE DEF t
  <2>3. QueuedCalls' = QueuedCalls \cup {t}
    BY <1>1, <2>2 DEF QueuedCalls
  <2>4. PICK X : X = QueuedCalls
    OBVIOUS
  <2>5. Cardinality(X \cup {t}) = IF t \in X THEN Cardinality(X) ELSE Cardinality(X) + 1
    BY <1>5, <2>4, FS_AddElement
  <2>6. QED
    BY <1>5, <2>3, <2>4, <2>5
<1>10. Cardinality(QueuedCalls') \in Nat
  <2>1. CallTyped' /\ RunTyped'
    <3>1. RunInv'
      BY <1>2, AttemptEnds
    <3>2. t \in Talks /\ CallTyped
      BY AnswerEnds
    <3>3. talk' \in Seq(CallSet) /\ Len(talk') <= MaxTalks
      BY <1>1, <3>2, RecordsConstants, AppendProperties DEF CallTyped, Talks
    <3>4. UNCHANGED <<CallLog, annotating>>
      BY DEF customerAnswers
    <3>5. odd' \in SUBSET Talks
      <4>1. DOMAIN talk \subseteq Talks
        BY TalkPlaces
      <4>2. odd' \subseteq odd \cup DOMAIN talk \cup {t}
        BY DEF customerAnswers
      <4>3. QED
        BY <3>2, <4>1, <4>2 DEF CallTyped
    <3>6. QED
      BY <3>1, <3>2, <3>3, <3>4, <3>5 DEF CallTyped, RunInv
  <2>2. DOMAIN talk' = 1..Len(talk') /\ Len(talk') \in Nat
    BY <2>1 DEF CallTyped
  <2>3. IsFiniteSet(1..Len(talk'))
    <3>1. 1 \in Int /\ Len(talk') \in Int
      BY <2>2
    <3>2. QED
      BY <3>1, FS_Interval
  <2>4. QueuedCalls' \in SUBSET (1..Len(talk'))
    BY <2>2 DEF QueuedCalls
  <2>5. PICK X : X = QueuedCalls'
    OBVIOUS
  <2>6. PICK Y : Y = 1..Len(talk')
    OBVIOUS
  <2>7. IsFiniteSet(X)
    BY <2>3, <2>4, <2>5, <2>6, FS_Subset
  <2>8. QED
    BY <2>5, <2>7, FS_CardinalityType
<1>11. lost' = lost /\ Tally("answered")' = Tally("answered") + 1
  BY <1>2, <1>3 DEF Ends
<1>12. lost = {} => Cardinality(QueuedCalls') <= Tally("answered")'
  BY <1>5, <1>6, <1>9, <1>10, <1>11 DEF CountInv
<1>13. QED
  BY <1>3, <1>8, <1>11, <1>12 DEF CountInv

LEMMA PersistCounts ==
  ASSUME RunInv, CallTyped, CountInv, NEW row \in persisting, persist(row) \/ persistFails(row)
  PROVE  CountInv'
<1>1. /\ IsFiniteSet(persisting) /\ \A s : IsFiniteSet(Coming(s)) /\ IsFiniteSet(WrittenAs(s))
      /\ \A s : Cardinality(Coming(s)) \in Nat /\ Cardinality(WrittenAs(s)) \in Nat
  BY Sizes DEF RunInv, CountInv
<1>2. persisting' = persisting \ {row} /\ row \in RowSet /\ UNCHANGED <<talk, dial, item, CampaignRun>>
  BY DEF persist, persistFails, memory, callRecs, RunInv, RunTyped
<1>3. IsFiniteSet(persisting')
  BY <1>1, <1>2, FS_RemoveElement
<1>4. CASE persistFails(row)
  BY <1>3, <1>4 DEF CountInv, persistFails
<1>5. CASE persist(row)
  <2>1. /\ Len(CallAttempt) \in Nat /\ DOMAIN CallAttempt = 1..Len(CallAttempt)
        /\ DOMAIN CallAttempt' = DOMAIN CallAttempt \cup {Len(CallAttempt) + 1}
        /\ CallAttempt'[Len(CallAttempt) + 1] = row /\ \A i \in DOMAIN CallAttempt : CallAttempt'[i] = CallAttempt[i]
    BY <1>2, <1>5, RowAppended DEF persist, RunInv, RunTyped
  <2> DEFINE u == Len(CallAttempt) + 1
  <2>2. u \notin DOMAIN CallAttempt
    BY <2>1
  <2> HIDE DEF u
  <2>3. ASSUME NEW s
        PROVE  Tally(s)' = Tally(s)
    <3>1. CASE row.status = s
      <4>1. WrittenAs(s)' = WrittenAs(s) \cup {u} /\ u \notin WrittenAs(s)
        BY <2>1, <2>2, <3>1 DEF WrittenAs, u
      <4>2. Coming(s)' = Coming(s) \ {row} /\ row \in Coming(s)
        BY <1>2, <3>1 DEF Coming
      <4>3. PICK X : X = WrittenAs(s)
        OBVIOUS
      <4>4. PICK Y : Y = Coming(s)
        OBVIOUS
      <4>5. Cardinality(X \cup {u}) = Cardinality(X) + 1
        BY <1>1, <4>1, <4>3, FS_AddElement
      <4>6. Cardinality(Y \ {row}) = Cardinality(Y) - 1
        BY <1>1, <4>2, <4>4, FS_RemoveElement
      <4>7. QED
        BY <1>1, <4>1, <4>2, <4>3, <4>4, <4>5, <4>6 DEF Tally
    <3>2. CASE row.status # s
      <4>1. WrittenAs(s)' = WrittenAs(s)
        BY <2>1, <3>2 DEF WrittenAs
      <4>2. Coming(s)' = Coming(s)
        BY <1>2, <3>2 DEF Coming
      <4>3. QED
        BY <4>1, <4>2 DEF Tally
    <3>3. QED
      BY <3>1, <3>2
  <2>4. lost' = lost /\ QueuedCalls' = QueuedCalls /\ \A s : LiveOf(s)' = LiveOf(s)
    BY <1>2, <1>5 DEF persist, QueuedCalls, LiveOf, With
  <2>5. \A count : summed(count)' = summed(count)
    BY <1>2, SumStays
  <2>6. QED
    BY <1>3, <2>3, <2>4, <2>5 DEF CountInv
<1>6. QED
  BY <1>4, <1>5

\* Nobody enters the queue but by answering.
LEMMA CallCounts ==
  ASSUME RunInv, CallTyped, CallTyped', CountInv, RunAlone,
         \A t \in DOMAIN talk' : talk'[t].at = "queue" => t \in DOMAIN talk /\ talk[t].at = "queue"
  PROVE  CountInv'
<1>1. UNCHANGED <<dial, item, CallAttempt, persisting, CampaignRun, ended, lost>>
  BY DEF RunAlone, memory, tables
<1>2. \A s : Tally(s)' = Tally(s) /\ LiveOf(s)' = LiveOf(s)
  BY <1>1 DEF Tally, WrittenAs, Coming, With, LiveOf
<1>3. \A count : summed(count)' = summed(count)
  BY <1>1, SumStays
<1>4. QueuedCalls' \in SUBSET QueuedCalls
  BY DEF QueuedCalls
<1>5. IsFiniteSet(QueuedCalls) /\ \A s : Cardinality(Coming(s)) \in Nat /\ Cardinality(WrittenAs(s)) \in Nat
  BY Sizes DEF RunInv, CountInv
<1>6. Tally("answered") \in Int
  BY <1>5 DEF Tally
<1>7. Cardinality(QueuedCalls') <= Cardinality(QueuedCalls) /\ Cardinality(QueuedCalls') \in Nat /\ Cardinality(QueuedCalls) \in Nat
  <2>1. PICK X : X = QueuedCalls'
    OBVIOUS
  <2>2. IsFiniteSet(X) /\ Cardinality(X) <= Cardinality(QueuedCalls)
    BY <1>4, <1>5, <2>1, FS_Subset
  <2>3. QED
    BY <1>5, <2>1, <2>2, FS_CardinalityType
<1>8. QED
  BY <1>1, <1>2, <1>3, <1>6, <1>7 DEF CountInv

\* The call of a step that is not the run's own stays in the queue or leaves it.
LEMMA StillWaiting ==
  ASSUME CallTyped,
         \/ \E n \in Dialed : placesByHand(n)
         \/ \E t \in DOMAIN talk : \/ reachesAgent(t) \/ callEnds(t) \/ dispositionSent(t)
                                   \/ \E knows, recent \in BOOLEAN : createLog(t, knows, recent)
         \/ findsLog \/ annotatesLog \/ \E l \in DOMAIN CallLog : deleteRecording(l)
  PROVE  \A t \in DOMAIN talk' : talk'[t].at = "queue" => t \in DOMAIN talk /\ talk[t].at = "queue"
<1>1. talk \in Seq(CallSet) /\ \A t \in DOMAIN talk : talk[t] \in CallSet
  BY DEF CallTyped
<1>2. CASE \E n \in Dialed : placesByHand(n)
  <2>1. PICK n \in Dialed : talk' = Append(talk, [number |-> n, at |-> "over", disp |-> "sent", rec |-> 0])
    BY <1>2 DEF placesByHand
  <2> DEFINE c == [number |-> n, at |-> "over", disp |-> "sent", rec |-> 0]
  <2>2. c \in CallSet /\ c.at = "over"
    BY DEF CallSet, Chosen
  <2> HIDE DEF c
  <2>3. /\ Len(talk) \in Nat /\ DOMAIN talk = 1..Len(talk) /\ talk'[Len(talk) + 1] = c
        /\ DOMAIN talk' = 1..Len(talk) + 1 /\ \A t \in DOMAIN talk : talk'[t] = talk[t]
    BY <1>1, <2>1, <2>2, AppendProperties DEF c
  <2>4. QED
    BY <2>2, <2>3
<1>3. ASSUME NEW t \in DOMAIN talk, NEW c \in CallSet, talk' = [talk EXCEPT ![t] = c], c.at = "queue" => talk[t].at = "queue"
      PROVE  \A o \in DOMAIN talk' : talk'[o].at = "queue" => o \in DOMAIN talk /\ talk[o].at = "queue"
  BY <1>1, <1>3
<1>4. CASE \E t \in DOMAIN talk : reachesAgent(t) \/ callEnds(t) \/ dispositionSent(t)
                                  \/ \E knows, recent \in BOOLEAN : createLog(t, knows, recent)
  <2>1. PICK t \in DOMAIN talk : \/ talk' = [talk EXCEPT ![t] = [talk[t] EXCEPT !.at = "agent"]]
                                 \/ talk' = [talk EXCEPT ![t] = [talk[t] EXCEPT !.at = "gone", !.disp = "sent"]]
                                 \/ talk' = [talk EXCEPT ![t] = [talk[t] EXCEPT !.at = "over"]]
                                 \/ talk' = [talk EXCEPT ![t] = [talk[t] EXCEPT !.disp = "sent"]]
                                 \/ talk' = [talk EXCEPT ![t] = [talk[t] EXCEPT !.at = "logged"]]
    BY <1>4 DEF reachesAgent, callEnds, dispositionSent, createLog
  <2>2. talk[t] \in CallSet
    BY <1>1
  <2>3. /\ [talk[t] EXCEPT !.at = "agent"] \in CallSet /\ [talk[t] EXCEPT !.at = "agent"].at = "agent"
        /\ [talk[t] EXCEPT !.at = "gone", !.disp = "sent"] \in CallSet
        /\ [talk[t] EXCEPT !.at = "gone", !.disp = "sent"].at = "gone"
        /\ [talk[t] EXCEPT !.at = "over"] \in CallSet /\ [talk[t] EXCEPT !.at = "over"].at = "over"
        /\ [talk[t] EXCEPT !.disp = "sent"] \in CallSet /\ [talk[t] EXCEPT !.disp = "sent"].at = talk[t].at
        /\ [talk[t] EXCEPT !.at = "logged"] \in CallSet /\ [talk[t] EXCEPT !.at = "logged"].at = "logged"
    BY <2>2 DEF CallSet
  <2>4. QED
    BY <2>1, <2>3, <1>3
<1>5. CASE findsLog \/ annotatesLog \/ \E l \in DOMAIN CallLog : deleteRecording(l)
  BY <1>5 DEF findsLog, annotatesLog, deleteRecording
<1>6. QED
  BY <1>2, <1>4, <1>5

LEMMA CountsKept ==
  ASSUME RunInv, CallInv, CountInv, RecordsNext
  PROVE  CountInv'
<1>1. CallTyped /\ CallTyped'
  BY RecordsKept DEF CallInv
<1>2. CASE \E n \in Dialed : customerAnswers(n)
  BY <1>1, <1>2, AnswerCounts
<1>3. CASE \E row \in persisting : persist(row) \/ persistFails(row)
  BY <1>1, <1>3, PersistCounts
<1>4. CASE \/ \E skipped \in SUBSET Dialed, records \in BOOLEAN : startsRun(skipped, records)
           \/ \E n \in Dialed : launches(n) \/ \E retryable \in BOOLEAN : attemptFails(n, retryable)
           \/ \E stopping \in BOOLEAN : runFinishes(stopping)
  <2>1. UNCHANGED talk
    BY <1>4 DEF startsRun, launches, attemptFails, runFinishes, callRecs
  <2>2. QED
    BY <1>1, <1>4, <2>1, DialerCounts
<1>5. CASE \/ \E n \in Dialed : placesByHand(n)
           \/ \E t \in DOMAIN talk : \/ reachesAgent(t) \/ callEnds(t) \/ dispositionSent(t)
                                     \/ \E knows, recent \in BOOLEAN : createLog(t, knows, recent)
           \/ findsLog \/ annotatesLog \/ \E l \in DOMAIN CallLog : deleteRecording(l)
  <2>1. \A t \in DOMAIN talk' : talk'[t].at = "queue" => t \in DOMAIN talk /\ talk[t].at = "queue"
    BY <1>1, <1>5, StillWaiting
  <2>2. RunAlone
    BY <1>5, PlacesByHand, AgentReached, DispositionSent, CreatesLog, FindsLog, AnnotatesLog, DeletesRecording
  <2>3. QED
    BY <1>1, <2>1, <2>2, CallCounts
<1>6. QED
  BY <1>2, <1>3, <1>4, <1>5 DEF RecordsNext

-----------------------------------------------------------------------------
\* What the views count, from what is counted.
LEMMA TwoParts ==
  \A A : \A B : \A C : IsFiniteSet(C) /\ A \cup B = C /\ A \cap B = {} =>
    Cardinality(A) + Cardinality(B) = Cardinality(C) /\ Cardinality(A) \in Nat /\ Cardinality(B) \in Nat
<1> SUFFICES ASSUME NEW A, NEW B, NEW C, IsFiniteSet(C), A \cup B = C, A \cap B = {}
             PROVE  Cardinality(A) + Cardinality(B) = Cardinality(C) /\ Cardinality(A) \in Nat /\ Cardinality(B) \in Nat
  OBVIOUS
<1>1. A \in SUBSET C /\ B \in SUBSET C
  OBVIOUS
<1>2. IsFiniteSet(A) /\ IsFiniteSet(B)
  BY <1>1, FS_Subset
<1>3. Cardinality(A \cup B) = Cardinality(A) + Cardinality(B) - Cardinality(A \cap B)
  BY <1>2, FS_Union
<1>4. Cardinality(A) \in Nat /\ Cardinality(B) \in Nat /\ Cardinality(A \cap B) = 0 /\ Cardinality(A \cup B) = Cardinality(C)
  <2>1. Cardinality(A \cup B) = Cardinality(C)
    BY Zenon
  <2>2. Cardinality(A \cap B) = 0
    BY FS_EmptySet, Zenon
  <2>3. QED
    BY <1>2, <2>1, <2>2, FS_CardinalityType
<1>5. QED
  BY <1>3, <1>4

LEMMA WrittenFinite ==
  ASSUME RunInv
  PROVE  /\ IsFiniteSet(DOMAIN CallAttempt) /\ DOMAIN CallAttempt = 1..Len(CallAttempt) /\ Len(CallAttempt) \in Nat
         /\ \A S \in SUBSET DOMAIN CallAttempt : IsFiniteSet(S)
<1>1. DOMAIN CallAttempt = 1..Len(CallAttempt) /\ Len(CallAttempt) \in Nat
  BY DEF RunInv, RunTyped
<1>2. IsFiniteSet(DOMAIN CallAttempt)
  <2>1. 1 \in Int /\ Len(CallAttempt) \in Int
    BY <1>1
  <2>2. QED
    BY <1>1, <2>1, FS_Interval
<1>3. QED
  BY <1>1, <1>2, FS_Subset

LEMMA WindowsMeet ==
  ASSUME RunInv, NEW k \in cdr
  PROVE  LET before == windowMetrics(1, k)
             after  == windowMetrics(k, Len(CallAttempt) + 1)
         IN  [total |-> before.total + after.total, ok |-> before.ok + after.ok] = campaignPerformance
<1> DEFINE D == DOMAIN CallAttempt
           B == {i \in D : 1 <= i /\ i < k}
           A == {i \in D : k <= i /\ i < Len(CallAttempt) + 1}
           OK(S) == {i \in S : CallAttempt[i].status = "answered"}
<1>1. /\ IsFiniteSet(D) /\ D = 1..Len(CallAttempt) /\ Len(CallAttempt) \in Nat /\ \A S \in SUBSET D : IsFiniteSet(S)
      /\ k \in D
  BY WrittenFinite DEF cdr
<1>2. B \cup A = D /\ B \cap A = {}
  BY <1>1
<1>3. OK(B) \cup OK(A) = OK(D) /\ OK(B) \cap OK(A) = {} /\ IsFiniteSet(OK(D))
  BY <1>1, <1>2
<1>4. /\ windowMetrics(1, k) = [total |-> Cardinality(B), ok |-> Cardinality(OK(B))]
      /\ windowMetrics(k, Len(CallAttempt) + 1) = [total |-> Cardinality(A), ok |-> Cardinality(OK(A))]
      /\ campaignPerformance = [total |-> Cardinality(D), ok |-> Cardinality(OK(D))]
  BY DEF windowMetrics, campaignPerformance, campaignReport
<1> HIDE DEF D, B, A, OK
<1>5. Cardinality(B) + Cardinality(A) = Cardinality(D)
  BY <1>1, <1>2, TwoParts
<1>6. Cardinality(OK(B)) + Cardinality(OK(A)) = Cardinality(OK(D))
  BY <1>3, TwoParts
<1>7. QED
  BY <1>4, <1>5, <1>6

LEMMA ExportHasAll ==
  ASSUME RunInv
  PROVE  Cardinality(cdr) >= campaignReport("answered") + campaignReport("failed")
<1> DEFINE A == WrittenAs("answered")
           F == WrittenAs("failed")
<1>1. /\ IsFiniteSet(cdr) /\ A \cup F \in SUBSET cdr /\ IsFiniteSet(A \cup F) /\ A \cap F = {}
      /\ campaignReport("answered") = Cardinality(A) /\ campaignReport("failed") = Cardinality(F)
  <2>1. A \cup F \in SUBSET cdr
    BY DEF WrittenAs, cdr
  <2>2. IsFiniteSet(cdr) /\ IsFiniteSet(A \cup F)
    BY <2>1, WrittenFinite DEF cdr
  <2>3. A \cap F = {}
    BY DEF WrittenAs
  <2>4. campaignReport("answered") = Cardinality(A) /\ campaignReport("failed") = Cardinality(F)
    BY DEF campaignReport, WrittenAs
  <2>5. QED
    BY <2>1, <2>2, <2>3, <2>4
<1> HIDE DEF A, F
<1>2. Cardinality(A) + Cardinality(F) = Cardinality(A \cup F) /\ Cardinality(A) \in Nat /\ Cardinality(F) \in Nat
  BY <1>1, TwoParts
<1>3. PICK X : X = A \cup F
  OBVIOUS
<1>4. Cardinality(X) <= Cardinality(cdr) /\ Cardinality(cdr) \in Nat
  BY <1>1, <1>3, FS_Subset, FS_CardinalityType
<1>5. QED
  BY <1>1, <1>2, <1>3, <1>4

LEMMA PulseIsWhole ==
  ASSUME RunInv, ~dial.live, dial.no > 0
  PROVE  pulse.remaining = 0 /\ pulse.done = Cardinality(Dialed)
<1>1. \A n \in Dialed : item[n].status \in {"answered", "failed", "skipped", "stopped"}
  <2>1. \A n \in Dialed : item[n] \in Items
    BY DEF RunInv, RunTyped
  <2>2. \A n \in Dialed : item[n].status \notin {"queued", "dialing"}
    BY DEF RunInv, ItemInv
  <2>3. QED
    BY <2>1, <2>2 DEF Items
<1>2. \A s : countItems(item, s) = Cardinality(With(s))
  BY DEF countItems, With
<1>3. With("queued") = {} /\ With("dialing") = {}
  BY <1>1 DEF With
<1>4. IsFiniteSet(Dialed) /\ \A S \in SUBSET Dialed : IsFiniteSet(S)
  BY RecordsConstants, SomeOfDialed
<1> DEFINE AF == With("answered") \cup With("failed")
           AFS == AF \cup With("skipped")
<1>5. AFS \cup With("stopped") = Dialed /\ AFS \cap With("stopped") = {}
  BY <1>1 DEF With
<1>6. AF \cap With("skipped") = {} /\ With("answered") \cap With("failed") = {} /\ IsFiniteSet(AF) /\ IsFiniteSet(AFS)
  <2>1. AF \in SUBSET Dialed /\ AFS \in SUBSET Dialed
    BY DEF With
  <2>2. AF \cap With("skipped") = {} /\ With("answered") \cap With("failed") = {}
    BY DEF With
  <2>3. QED
    BY <1>4, <2>1, <2>2
<1>7. Cardinality(AFS) + Cardinality(With("stopped")) = Cardinality(Dialed)
  BY <1>4, <1>5, TwoParts
<1>8. Cardinality(AF) + Cardinality(With("skipped")) = Cardinality(AFS)
  BY <1>6, TwoParts
<1>9. Cardinality(With("answered")) + Cardinality(With("failed")) = Cardinality(AF)
  BY <1>6, TwoParts
<1> HIDE DEF AF, AFS
<1>10. pulse.remaining = 0
  BY <1>2, <1>3, FS_EmptySet DEF pulse
<1>11. pulse.done = Cardinality(Dialed)
  BY <1>2, <1>7, <1>8, <1>9 DEF pulse
<1>12. QED
  BY <1>10, <1>11

LEMMA CountsHold == RunInv /\ CallTyped /\ CountInv => CountsAddUp
<1> SUFFICES ASSUME RunInv, CallTyped, CountInv
             PROVE  CountsAddUp
  OBVIOUS
<1>1. ASSUME NEW n \in liveCalls(FALSE).ringing, NEW row \in ToSet(CallAttempt) \cup persisting,
             row.run = dial.no, row.number = n
      PROVE  row.attempt < item[n].attempts
  <2>1. n \in Dialed /\ item[n].status = "dialing"
    BY DEF liveCalls, liveDialingContext
  <2>2. row \in AllRows
    BY DEF AllRows
  <2>3. QED
    BY <1>1, <2>1, <2>2, NoRowYet
<1>2. ASSUME lost = {}
      PROVE  LET coming(s) == Cardinality({row \in persisting : row.status = s})
                 now(f) == IF dial.live THEN listRuns[f] ELSE 0
             IN  /\ campaignsOverview.connected + now("answered") = campaignReport("answered") + coming("answered")
                 /\ campaignsOverview.failed + now("failed") = campaignReport("failed") + coming("failed")
                 /\ callsWaiting <= campaignPerformance.ok + coming("answered")
  <2>1. \A s : campaignReport(s) + Cardinality({row \in persisting : row.status = s}) = Tally(s)
    BY DEF campaignReport, Tally, WrittenAs, Coming
  <2>2. /\ summed("connected") + LiveOf("answered") = Tally("answered")
        /\ summed("failed") + LiveOf("failed") = Tally("failed")
    <3>1. <<"connected", "answered">> \in Counted /\ <<"failed", "failed">> \in Counted
      BY DEF Counted
    <3>2. \A p \in Counted : summed(p[1]) + LiveOf(p[2]) = Tally(p[2])
      BY <1>2 DEF CountInv
    <3>3. QED
      BY <3>1, <3>2
  <2>3. \A s \in {"answered", "failed"} : (IF dial.live THEN listRuns[s] ELSE 0) = LiveOf(s)
    <3>1. LiveOf("answered") = (IF dial.live THEN countItems(item, "answered") ELSE 0)
      BY DEF LiveOf, countItems, With
    <3>2. LiveOf("failed") = (IF dial.live THEN countItems(item, "failed") ELSE 0)
      BY DEF LiveOf, countItems, With
    <3>3. listRuns["answered"] = countItems(item, "answered") /\ listRuns["failed"] = countItems(item, "failed")
      BY DEF listRuns
    <3>4. QED
      BY <3>1, <3>2, <3>3
  <2>4. campaignsOverview.connected = summed("connected") /\ campaignsOverview.failed = summed("failed")
    BY DEF campaignsOverview
  <2>5. callsWaiting <= Tally("answered")
    <3>1. CASE dial.live
      <4>1. callsWaiting = Cardinality(QueuedCalls)
        BY <3>1 DEF callsWaiting, activeQueues, QueuedCalls
      <4>2. QED
        BY <1>2, <4>1 DEF CountInv
    <3>2. CASE ~dial.live
      <4>1. callsWaiting = 0
        BY <3>2, FS_EmptySet DEF callsWaiting, activeQueues
      <4>2. Tally("answered") \in Nat
        BY Sizes DEF Tally, RunInv, CountInv
      <4>3. QED
        BY <4>1, <4>2
    <3>3. QED
      BY <3>1, <3>2
  <2>6. campaignPerformance.ok = campaignReport("answered")
    BY DEF campaignPerformance
  <2>7. QED
    BY <2>1, <2>2, <2>3, <2>4, <2>5, <2>6
<1>3. ~dial.live /\ dial.no > 0 => pulse.remaining = 0 /\ pulse.done = Cardinality(Dialed)
  BY PulseIsWhole
<1>4. QED
  BY <1>1, <1>2, <1>3, WindowsMeet, ExportHasAll DEF CountsAddUp

-----------------------------------------------------------------------------
RecordsInv == RunInv /\ CallInv /\ CountInv

LEMMA RecordsStart == RecordsInit => RecordsInv
<1> SUFFICES ASSUME RecordsInit
             PROVE  RecordsInv
  OBVIOUS
<1>1. /\ dial = [no |-> 0, live |-> FALSE, records |-> FALSE] /\ item = [n \in Dialed |-> Fresh]
      /\ CallAttempt = <<>> /\ persisting = {} /\ CampaignRun = [r \in Passes |-> NoSummary]
      /\ talk = <<>> /\ CallLog = <<>> /\ annotating = Silent
      /\ ended = [r \in Passes |-> [n \in Dialed |-> Fresh]] /\ lost = {} /\ odd = {}
  BY DEF RecordsInit
<1>2. Fresh \in Items /\ Fresh.status = "queued" /\ Fresh.attempts = 0 /\ Fresh.rec = 0
  BY RecordsConstants DEF Fresh, Items, Chosen
<1>3. NoSummary \in Summary
  <2>1. Cardinality(Dialed) \in Nat
    BY RecordsConstants, FS_CardinalityType
  <2>2. QED
    BY <2>1 DEF NoSummary, Summary
<1>4. AllRows = {} /\ campaignRuns = {}
  BY <1>1 DEF AllRows, ToSet, campaignRuns
<1>5. RunTyped
  BY <1>1, <1>2, <1>3, RecordsConstants DEF RunTyped
<1>6. ItemInv
  BY <1>1, <1>2, RecordsConstants DEF ItemInv, ItemsFit
<1>7. RowInv /\ LiveInv /\ DoneInv
  BY <1>1, <1>4 DEF RowInv, LiveInv, DoneInv
<1>8. Silent \in [at : {"idle", "finding", "writing"}, of : Chosen, log : Chosen, rec : Chosen] /\ Silent.at = "idle"
  BY DEF Silent, Chosen
<1>9. CallTyped
  BY <1>1, <1>8, RecordsConstants DEF CallTyped
<1>10. TalkInv /\ LogInv /\ OwnInv
  BY <1>1 DEF TalkInv, LogInv, OwnInv
<1>11. FindInv
  BY <1>1, <1>8 DEF FindInv
<1>12. RecInv
  BY <1>1, <1>2, <1>4, <1>8 DEF RecInv
<1>13. CountInv
  <2>1. \A s : WrittenAs(s) = {} /\ Coming(s) = {}
    BY <1>1 DEF WrittenAs, Coming
  <2>2. \A s : Tally(s) = 0 /\ LiveOf(s) = 0
    <3>1. dial.live = FALSE /\ Cardinality({}) = 0
      BY <1>1, FS_EmptySet
    <3>2. \A s : Tally(s) = Cardinality({}) + Cardinality({})
      BY <2>1, Zenon DEF Tally
    <3>3. QED
      BY <3>1, <3>2 DEF LiveOf
  <2>3. QueuedCalls = {}
    BY <1>1 DEF QueuedCalls
  <2>4. \A count : summed(count) = 0
    BY <1>4, FS_EmptySet DEF summed
  <2>5. QED
    BY <1>1, <2>2, <2>3, <2>4, FS_EmptySet DEF CountInv
<1>14. QED
  BY <1>5, <1>6, <1>7, <1>9, <1>10, <1>11, <1>12, <1>13 DEF RecordsInv, RunInv, CallInv

LEMMA RecordsInvStep == RecordsInv /\ [RecordsNext]_recordsVars => RecordsInv'
<1> SUFFICES ASSUME RecordsInv, [RecordsNext]_recordsVars
             PROVE  RecordsInv'
  OBVIOUS
<1>1. CASE RecordsNext
  BY <1>1, RecordsKept, CountsKept DEF RecordsInv
<1>2. CASE UNCHANGED recordsVars
  <2>1. RunAlone /\ UNCHANGED <<callRecs, odd>> /\ UNCHANGED <<talk, CallLog, annotating, odd>>
    BY <1>2 DEF recordsVars, RunAlone, callRecs
  <2>2. RunInv'
    BY <2>1, RunKept DEF RecordsInv
  <2>3. RecInv'
    BY <2>1, RecordingsKept DEF RecordsInv, CallInv, RecInv
  <2>4. CallInv'
    BY <2>1, <2>3, CallsAlone DEF RecordsInv
  <2>5. CountInv'
    BY <2>1, <2>4, CallCounts DEF RecordsInv, CallInv
  <2>6. QED
    BY <2>2, <2>4, <2>5 DEF RecordsInv
<1>3. QED
  BY <1>1, <1>2

LEMMA RecordsInvariant == RecordsSpec => []RecordsInv
BY RecordsStart, RecordsInvStep, PTL DEF RecordsSpec

\* RecordsTypeOK, the run's type invariant.
THEOREM RecordsTypeCorrect == RecordsSpec => []RecordsTypeOK
<1>1. RecordsInv => RecordsTypeOK
  <2> SUFFICES ASSUME RecordsInv
               PROVE  RecordsTypeOK
    OBVIOUS
  <2>1. /\ RunTyped /\ CallTyped
    BY DEF RecordsInv, RunInv, CallInv
  <2>2. \A i \in DOMAIN CallAttempt : CallAttempt[i].run \in Passes /\ CallAttempt[i].number \in Dialed
    <3>1. \A i \in DOMAIN CallAttempt : CallAttempt[i] \in RowSet
      BY <2>1 DEF RunTyped
    <3>2. QED
      BY <3>1 DEF RowSet
  <2>3. QED
    BY <2>1, <2>2 DEF RecordsTypeOK, RunTyped, CallTyped, Summary, CallSet, LogSet
<1>2. QED
  BY <1>1, RecordsInvariant, PTL

\* RecordsAreTrue: a finished run's history has one row for each number it dialed, whatever
\* the order of the inserts, the counts of all the views add up, and a log carries its own
\* call's disposition and recording.
THEOREM RecordsStayTrue == RecordsSpec => []RecordsAreTrue
<1>1. RecordsInv => LogIsOfItsCall
  <2> SUFFICES ASSUME RecordsInv, NEW l \in DOMAIN CallLog, CallLog[l].of \notin odd
               PROVE  LET t == CallLog[l].of
                      IN  /\ CallLog[l].disp \in {0, t} /\ CallLog[l].rec \in {0, t}
                          /\ talk[t].disp = "sent" /\ annotating.of # t => CallLog[l].disp = t /\ CallLog[l].rec = talk[t].rec
    BY DEF LogIsOfItsCall
  <2>1. talk[CallLog[l].of].rec \in {0, CallLog[l].of}
    BY DEF RecordsInv, CallInv, LogInv, TalkInv
  <2>2. QED
    BY <2>1 DEF RecordsInv, CallInv, OwnInv
<1>2. RecordsInv => HistoryIsTheRun /\ CountsAddUp
  BY HistoryHolds, CountsHold DEF RecordsInv, CallInv
<1>3. RecordsInv => RecordsAreTrue
  BY <1>1, <1>2 DEF RecordsAreTrue
<1>4. QED
  BY <1>3, RecordsInvariant, PTL

-----------------------------------------------------------------------------
(***************************************************************************)
(* The records and the pages together: what moves is one part, and the     *)
(* others stay as they are, so a behaviour of all is one of each.          *)
(***************************************************************************)
LEMMA AllParts ==
  [AllNext]_AllVars =>
    /\ [LeadsNext]_leadsVars /\ [RecordsNext]_recordsVars /\ [PageNext]_pageVars
    /\ [ConsoleNext]_consoleVars /\ [ContactsNext]_contactsVars /\ [BoardsNext]_boardsVars
BY DEF AllNext, AllVars

LEMMA AllStart ==
  AllInit => LeadsInit /\ RecordsInit /\ PageInit /\ ConsoleInit /\ ContactsInit /\ BoardsInit
BY DEF AllInit

LEMMA EachOfThem ==
  AllSpec => LeadsSpec /\ RecordsSpec /\ PageSpec /\ ConsoleSpec /\ ContactsSpec /\ BoardsSpec
BY AllStart, AllParts, PTL
   DEF AllSpec, LeadsSpec, RecordsSpec, PageSpec, ConsoleSpec, ContactsSpec, BoardsSpec

\* Leads, records and the pages of managers and agents keep their types.
THEOREM AllTypesHold == AllSpec => []AllTypeOK
<1>1. /\ LeadsTypeOK /\ RecordsTypeOK /\ PageTypeOK /\ ConsoleTypeOK /\ ContactsTypeOK /\ BoardsTypeOK
      => AllTypeOK
  BY DEF AllTypeOK
<1>2. QED
  BY <1>1, EachOfThem, LeadsTypeCorrect, RecordsTypeCorrect, CampaignsPageTypeCorrect, ConsoleTypeCorrect,
     ContactsTypeCorrect, BoardsTypeCorrect, PTL
=============================================================================
