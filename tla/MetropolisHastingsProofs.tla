----------------------- MODULE MetropolisHastingsProofs -----------------------
(***************************************************************************)
(* Theorems about MetropolisHastings, for any number of chains, of rows in *)
(* a file and of draws: what the files hold after sessions that have ended *)
(* is what the record says, every draw once and in order.                  *)
(***************************************************************************)
EXTENDS MetropolisHastings, DataLemmas

\* The rows before file k of a chain, when the files before it are full.
At(k) == (k - 1) * MAX_nruns

\* The row of the last session in the record, and the number of all draws.
Session == MhDraws[Len(MhDraws)]
Total == Len(AllDraws)

\* The last file of the sessions before the last one, its rows, and all their rows.
PreviousFile == LastFileNumberInThePreviousMh
PreviousLine == IF OldMh THEN LastLineNumberInThePreviousMh ELSE MAX_nruns
Before == At(PreviousFile) + PreviousLine

\* A row of a file and a row of the record.
Draw == Nat \X Nat
Row == [runs : Nat \ {0}, files : Int, lines : Int]

\* The variables the invariant speaks about have their types.
TypeOK ==
    /\ phase \in {"none", "running", "crashed", "ended", "refused"}
    /\ option \in {"new", "load", "recover"}
    /\ exposed \in BOOLEAN
    /\ files \in [Chains -> Seq(Seq(Draw))]
    /\ MhDraws \in Seq(Row)
    /\ LastFileNumber \in Int /\ LastLineNumber \in Int
    /\ nruns \in Nat /\ fblck \in Chains /\ fline \in Nat
    /\ NewFile \in [Chains -> Int] /\ InitSizeArray \in [Chains -> Int]
    /\ done \in [Chains -> Nat]

\* The numbers of the record are those of all the draws of its sessions.
Recorded ==
    /\ Len(MhDraws) >= 1
    /\ LastFileNumber = NumberOfFiles(MhDraws) /\ LastFileNumber >= 1
    /\ LastLineNumber = Session.lines /\ LastLineNumber \in 1 .. MAX_nruns
    /\ At(LastFileNumber) + LastLineNumber = Total
    /\ PreviousFile \in Nat /\ (OldMh => PreviousFile >= 1)
    /\ PreviousLine \in 1 .. MAX_nruns
    /\ Before + Session.runs = Total
    /\ \A j \in 1 .. Session.runs : AllDraws[Before + j] = <<Len(MhDraws), j>>

\* Where the next row of chain b goes in its file.
NextRow(b) == IF done[b] = 0 THEN fline ELSE 1

\* load_mh_file after a full file: nothing but the failure of load is ahead.
Stuck == option = "load" /\ fline = MAX_nruns + 1

\* The next row of chain b is that of its next draw, and the file has room for what it gets.
InStep(b) ==
    /\ NextRow(b) \in 1 .. MAX_nruns
    /\ At(NewFile[b]) + NextRow(b) - 1 = Before + done[b]
    /\ InitSizeArray[b] = MinOf(MAX_nruns, NextRow(b) - 1 + nruns - done[b])

\* The files that chain b has: all of them once it is run, and those of the sessions
\* before and of its draws until then, but for a recovery, that may find more.
Due(b) == IF b < fblck \/ done[b] = nruns THEN LastFileNumber
          ELSE IF done[b] = 0 THEN PreviousFile ELSE NewFile[b] - 1

HasFiles(b) == /\ Due(b) =< Len(files[b])
               /\ option # "recover" => Len(files[b]) = Due(b)

\* A session that runs goes on where the record and its draws say.
Running ==
    /\ nruns = Session.runs
    /\ option = "new" => ~ OldMh
    /\ option = "load" => OldMh /\ fline = PreviousLine + 1
    /\ option # "recover" => fblck = 1
    /\ option = "recover" /\ ~ exposed => fline = 1
    /\ \A b \in Chains : HasFiles(b) /\ done[b] =< nruns
    /\ IF Stuck THEN \A b \in Chains : done[b] = 0 /\ NewFile[b] = PreviousFile + 1
       ELSE \A b \in Chains : b >= fblck /\ done[b] < nruns => InStep(b)

\* After a crash every chain has the files of the sessions before.
Crashed == /\ \A b \in Chains : PreviousFile =< Len(files[b])
           /\ SharesAFile => exposed

\* Every chain has as many files as the record says.
Complete == \A b \in Chains : Len(files[b]) = LastFileNumber

\* The rows that chain b should have, and those of them that go into file k.
Limit(b) == IF phase = "running" /\ option = "load" /\ done[b] = 0 THEN Before ELSE Total
Room(b, k) == MinOf(MAX_nruns, Limit(b) - At(k))

\* No file has more rows than it should; one has them all, and the right ones, unless
\* a session has crashed that shared a file.
Held(b, k) ==
    /\ Len(files[b][k]) =< Room(b, k)
    /\ ~ exposed => /\ Len(files[b][k]) = Room(b, k)
                    /\ \A i \in 1 .. Room(b, k) : files[b][k][i] = AllDraws[At(k) + i]

\* The inductive invariant.
IInv ==
    /\ TypeOK
    /\ phase = "none" => MhDraws = << >> /\ \A b \in Chains : files[b] = << >>
    /\ phase # "none" =>
           /\ Recorded
           /\ \A b \in Chains : /\ Len(files[b]) =< LastFileNumber
                                /\ \A k \in 1 .. Len(files[b]) : Held(b, k)
    /\ phase = "running" => Running
    /\ phase = "crashed" => Crashed
    /\ phase \in {"ended", "refused"} => Complete

-------------------------------------------------------------------------------
(***************************************************************************)
(* Rows and files                                                          *)
(***************************************************************************)

\* File k begins where file k - 1 is full.
LEMMA AtNext ==
    ASSUME NEW k \in Int
    PROVE  /\ MAX_nruns \in Nat \ {0} /\ At(k) \in Int
           /\ At(1) = 0 /\ At(0) = 0 - MAX_nruns
           /\ At(k + 1) = At(k) + MAX_nruns
<1>1. MAX_nruns \in Nat \ {0}
  BY ConstantsAssumption
<1>2. ((k + 1) - 1) * MAX_nruns = (k - 1) * MAX_nruns + MAX_nruns
  BY <1>1
<1>3. (1 - 1) * MAX_nruns = 0 /\ (0 - 1) * MAX_nruns = 0 - MAX_nruns
  BY <1>1
<1>4. (k - 1) * MAX_nruns \in Int
  BY <1>1
<1> QED BY <1>1, <1>2, <1>3, <1>4 DEF At

\* The rows before the files that come after j others.
LEMMA AtSum ==
    ASSUME NEW j \in Int, NEW k \in Int, NEW l \in Int, l = j + k
    PROVE  At(l) = At(j) + At(k) + MAX_nruns
<1>1. MAX_nruns \in Nat
  BY ConstantsAssumption
<1>2. ((j + k) - 1) * MAX_nruns = (j - 1) * MAX_nruns + (k - 1) * MAX_nruns + MAX_nruns
  BY <1>1
<1> QED BY <1>2 DEF At

\* A later file begins after an earlier one is full.
LEMMA AtGrows ==
    ASSUME NEW j \in Int, NEW k \in Int, j < k PROVE At(j) + MAX_nruns =< At(k)
<1>1. MAX_nruns \in Nat
  BY ConstantsAssumption
<1>2. j * MAX_nruns =< (k - 1) * MAX_nruns
  BY <1>1, TimesMonotone
<1>3. j * MAX_nruns = (j - 1) * MAX_nruns + MAX_nruns
  BY <1>1
<1> QED BY <1>2, <1>3 DEF At

\* A row is in one place.
LEMMA AtOrder ==
    ASSUME NEW j \in Int, NEW k \in Int, NEW x \in 1 .. MAX_nruns, NEW y \in 1 .. MAX_nruns
    PROVE  /\ At(j) + x =< At(k) + y => j =< k
           /\ At(j) + x = At(k) + y => j = k /\ x = y
<1>1. /\ MAX_nruns \in Nat /\ At(j) \in Int /\ At(k) \in Int
      /\ k < j => At(k) + MAX_nruns =< At(j)
      /\ j < k => At(j) + MAX_nruns =< At(k)
  BY AtNext, AtGrows
<1> QED BY <1>1

\* The numbers of the record for rows that fill files from the first one.
LEMMA AnticipatedRow ==
    ASSUME NEW runs \in Nat \ {0}, NEW rows \in Int
    PROVE  /\ Anticipated(runs, rows) \in Row
           /\ Anticipated(runs, rows).runs = runs
           /\ Anticipated(runs, rows).lines \in 1 .. MAX_nruns
           /\ At(Anticipated(runs, rows).files) + Anticipated(runs, rows).lines = rows
<1>. DEFINE c == Ceil(rows)
<1>1. MAX_nruns \in Nat \ {0}
  BY ConstantsAssumption
<1>2. c \in Int /\ rows =< MAX_nruns * c /\ MAX_nruns * c < rows + MAX_nruns
  BY <1>1, CeilDiv DEF Ceil
<1>. HIDE DEF c
<1>3. (c - 1) * MAX_nruns = MAX_nruns * c - MAX_nruns /\ MAX_nruns * c \in Int
  BY <1>1, <1>2
<1>4. At(c) = MAX_nruns * c - MAX_nruns /\ LinesInTheLastFile(rows) = rows - At(c)
  BY <1>3 DEF At, LinesInTheLastFile, c
<1>5. /\ Anticipated(runs, rows).runs = runs /\ Anticipated(runs, rows).files = c
      /\ Anticipated(runs, rows).lines = LinesInTheLastFile(rows)
      /\ Anticipated(runs, rows) = [runs |-> runs, files |-> c, lines |-> LinesInTheLastFile(rows)]
  BY DEF Anticipated, c
<1>6. LinesInTheLastFile(rows) \in 1 .. MAX_nruns /\ At(c) \in Int
      /\ At(c) + LinesInTheLastFile(rows) = rows
  BY <1>1, <1>2, <1>3, <1>4
<1> QED BY <1>2, <1>5, <1>6 DEF Row

-------------------------------------------------------------------------------
(***************************************************************************)
(* The record                                                              *)
(***************************************************************************)

\* The draws of the sessions of a record, session by session.
SessionDraws(ms) == [s \in DOMAIN ms |-> [j \in 1 .. ms[s].runs |-> <<s, j>>]]

\* The rows of a record have their types.
LEMMA RowOf ==
    ASSUME NEW ms \in Seq(Row), NEW s \in 1 .. Len(ms)
    PROVE  ms[s] \in Row /\ ms[s].runs \in Nat \ {0} /\ ms[s].files \in Int /\ ms[s].lines \in Int
<1>1. ms[s] \in Row
  OBVIOUS
<1> QED BY <1>1 DEF Row

\* The draws of a record have their types.
LEMMA DrawsType ==
    ASSUME NEW ms \in Seq(Row)
    PROVE  /\ SessionDraws(ms) \in Seq(Seq(Draw)) /\ Len(SessionDraws(ms)) = Len(ms)
           /\ FlattenSeq(SessionDraws(ms)) \in Seq(Draw)
           /\ NumberOfFiles(ms) \in Int
<1>1. ASSUME NEW s \in 1 .. Len(ms) PROVE SessionDraws(ms)[s] \in Seq(Draw)
  <2>1. ms[s].runs \in Nat /\ s \in Nat
    BY RowOf
  <2>2. [j \in 1 .. ms[s].runs |-> <<s, j>>] \in [1 .. ms[s].runs -> Draw]
    BY DEF Draw
  <2>3. [j \in 1 .. ms[s].runs |-> <<s, j>>] \in Seq(Draw)
    BY <2>1, <2>2, SeqDef
  <2>4. SessionDraws(ms)[s] = [j \in 1 .. ms[s].runs |-> <<s, j>>]
    BY DOMAIN ms = 1 .. Len(ms) DEF SessionDraws
  <2> QED BY <2>3, <2>4
<1>2. Len(ms) \in Nat /\ DOMAIN ms = 1 .. Len(ms)
  OBVIOUS
<1>3. SessionDraws(ms) \in [1 .. Len(ms) -> Seq(Draw)]
  BY <1>1, <1>2 DEF SessionDraws
<1>4. SessionDraws(ms) \in Seq(Seq(Draw)) /\ Len(SessionDraws(ms)) = Len(ms)
  BY <1>2, <1>3, SeqDef
<1>5. NumberOfFiles(ms) \in Int
  <2>1. IsFiniteSet(1 .. Len(ms))
    BY <1>2, FS_Interval
  <2>2. \A i \in 1 .. Len(ms) : [k \in DOMAIN ms |-> ms[k].files][i] \in Int
    BY <1>2, RowOf
  <2> QED BY <1>2, <2>1, <2>2, SumType DEF NumberOfFiles, SumFunction
<1> QED BY <1>4, <1>5, FlattenType

\* The files of one more session are added.
LEMMA NumberOfFilesNext ==
    ASSUME NEW ms \in Seq(Row), NEW row \in Row
    PROVE  /\ NumberOfFiles(<< >>) = 0
           /\ NumberOfFiles(Append(ms, row)) = NumberOfFiles(ms) + row.files
<1>1. NumberOfFiles(<< >>) = 0
  BY SumEmpty DEF NumberOfFiles, SumFunction
<1>2. NumberOfFiles(Append(ms, row)) = NumberOfFiles(ms) + row.files
  <2>. DEFINE n == Len(ms)
              tt == Append(ms, row)
              f == [k \in DOMAIN ms |-> ms[k].files]
              g == [k \in DOMAIN tt |-> tt[k].files]
  <2>1. n \in Nat /\ DOMAIN f = 1 .. n /\ DOMAIN g = 1 .. n + 1
    OBVIOUS
  <2>2. \A i \in 1 .. n : g[i] = f[i] /\ f[i] \in Int
    <3>1. \A i \in 1 .. n : tt[i] = ms[i] /\ i \in DOMAIN ms /\ i \in DOMAIN tt
      OBVIOUS
    <3>2. \A i \in 1 .. n : ms[i].files \in Int
      BY RowOf
    <3>. HIDE DEF tt, n
    <3> QED BY <3>1, <3>2
  <2>3. g[n + 1] = row.files /\ row.files \in Int
    BY DEF Row
  <2>4. NumberOfFiles(ms) = SumFunctionOnSet(f, 1 .. n)
        /\ NumberOfFiles(tt) = SumFunctionOnSet(g, 1 .. n + 1)
    BY <2>1 DEF NumberOfFiles, SumFunction
  <2>. HIDE DEF n, f, g, tt
  <2>5. SumFunctionOnSet(g, 1 .. n + 1) = SumFunctionOnSet(g, 1 .. n) + g[n + 1]
    <3>1. \A i \in 1 .. n + 1 : g[i] \in Int
      BY <2>1, <2>2, <2>3
    <3> QED BY <2>1, <3>1, SumNext
  <2>6. SumFunctionOnSet(g, 1 .. n) = SumFunctionOnSet(f, 1 .. n)
    <3>1. IsFiniteSet(1 .. n)
      BY <2>1, FS_Interval
    <3> QED BY <2>2, <3>1, SumEqual
  <2> QED BY <2>3, <2>4, <2>5, <2>6 DEF tt
<1> QED BY <1>1, <1>2

\* The draws of one more session come last.
LEMMA DrawsNext ==
    ASSUME NEW ms \in Seq(Row), NEW row \in Row
    PROVE  FlattenSeq(SessionDraws(Append(ms, row)))
              = FlattenSeq(SessionDraws(ms)) \o [j \in 1 .. row.runs |-> <<Len(ms) + 1, j>>]
<1>. DEFINE d == [j \in 1 .. row.runs |-> <<Len(ms) + 1, j>>]
            tt == Append(ms, row)
<1>1. d \in Seq(Draw)
  <2>1. row.runs \in Nat /\ Len(ms) + 1 \in Nat
    BY DEF Row
  <2>2. d \in [1 .. row.runs -> Draw]
    BY <2>1 DEF Draw
  <2> QED BY <2>1, <2>2, SeqDef
<1>2. tt \in Seq(Row) /\ Len(tt) = Len(ms) + 1 /\ tt[Len(ms) + 1] = row
      /\ \A s \in 1 .. Len(ms) : tt[s] = ms[s]
  OBVIOUS
<1>3. SessionDraws(ms) \in Seq(Seq(Draw)) /\ Len(SessionDraws(ms)) = Len(ms)
      /\ SessionDraws(tt) \in Seq(Seq(Draw)) /\ Len(SessionDraws(tt)) = Len(tt)
  BY <1>2, DrawsType
<1>4. /\ SessionDraws(tt)[Len(ms) + 1] = d
      /\ \A s \in 1 .. Len(ms) : SessionDraws(tt)[s] = SessionDraws(ms)[s]
  <2>1. DOMAIN tt = 1 .. Len(ms) + 1 /\ DOMAIN ms = 1 .. Len(ms) /\ Len(ms) \in Nat
    BY <1>2
  <2>. HIDE DEF tt
  <2>2. SessionDraws(tt)[Len(ms) + 1] = d
    <3>1. PICK m \in DOMAIN tt : m = Len(ms) + 1 /\ tt[m] = row
      BY <1>2, <2>1
    <3>2. SessionDraws(tt)[m] = [j \in 1 .. row.runs |-> <<m, j>>]
      BY <3>1 DEF SessionDraws
    <3> QED BY <3>1, <3>2
  <2>3. ASSUME NEW s \in 1 .. Len(ms) PROVE SessionDraws(tt)[s] = SessionDraws(ms)[s]
    BY <1>2, <2>1, s \in DOMAIN tt, s \in DOMAIN ms, tt[s] = ms[s] DEF SessionDraws
  <2> QED BY <2>2, <2>3
<1>. HIDE DEF d, tt
<1>5. SessionDraws(tt) = Append(SessionDraws(ms), d)
  <2>. DEFINE a == SessionDraws(ms)
              z == SessionDraws(tt)
              y == Append(a, d)
  <2>. HIDE DEF a, z
  <2>1. y \in Seq(Seq(Draw)) /\ Len(y) = Len(a) + 1 /\ y[Len(a) + 1] = d
        /\ \A s \in 1 .. Len(a) : y[s] = a[s]
    BY <1>1, <1>3 DEF a
  <2>. HIDE DEF y
  <2>2. Len(ms) \in Nat /\ Len(a) = Len(ms) /\ Len(z) = Len(ms) + 1
    BY <1>2, <1>3 DEF a, z
  <2>3. ASSUME NEW s \in 1 .. Len(z) PROVE z[s] = y[s]
    <3>1. z[Len(ms) + 1] = d /\ \A i \in 1 .. Len(ms) : z[i] = a[i]
      BY <1>4 DEF a, z
    <3>2. CASE s = Len(ms) + 1
      BY <2>1, <2>2, <3>1, <3>2
    <3>3. CASE s # Len(ms) + 1
      BY <2>1, <2>2, <3>1, <3>3, s \in 1 .. Len(ms)
    <3> QED BY <3>2, <3>3
  <2>4. z \in Seq(Seq(Draw)) /\ Len(z) = Len(y)
    BY <1>3, <2>1, <2>2 DEF z
  <2>5. z = y
    BY <2>1, <2>3, <2>4, SeqEqual
  <2> QED BY <2>5 DEF a, z, y
<1>6. FlattenSeq(Append(SessionDraws(ms), d)) = FlattenSeq(SessionDraws(ms)) \o d
  BY <1>1, <1>3, FlattenAppend
<1> QED BY <1>5, <1>6 DEF d, tt

\* The draws the properties speak about are those of the record.
LEMMA AllDrawsAre == AllDraws = FlattenSeq(SessionDraws(MhDraws))
BY DEF AllDraws, SessionDraws

\* A session is added to the record, or is its first one: f files with l rows in the
\* last have been filled before.
Adds(ms, row, f, l) ==
    /\ MhDraws' = Append(ms, row)
    /\ LastFileNumber' = f + row.files /\ LastLineNumber' = row.lines
    /\ f = NumberOfFiles(ms) /\ At(f) + l = Len(FlattenSeq(SessionDraws(ms)))
    /\ IF ms = << >> THEN l = MAX_nruns ELSE f >= 1 /\ l = ms[Len(ms)].lines
    /\ row = Anticipated(row.runs, row.runs - (MAX_nruns - l))

\* The record is right when a session is added to it.
LEMMA NextRecord ==
    ASSUME NEW ms \in Seq(Row), NEW runs \in Nat \ {0}, NEW f \in Nat, NEW l \in 1 .. MAX_nruns,
           NEW row, row = Anticipated(runs, runs - (MAX_nruns - l)), Adds(ms, row, f, l)
    PROVE  /\ MhDraws' \in Seq(Row) /\ LastFileNumber' \in Int /\ LastLineNumber' \in Int
           /\ Recorded' /\ f =< LastFileNumber'
           /\ PreviousFile' = f /\ PreviousLine' = l /\ Session'.runs = runs
           /\ OldMh' <=> ms # << >>
           /\ \A i \in 1 .. Len(FlattenSeq(SessionDraws(ms))) :
                  AllDraws'[i] = FlattenSeq(SessionDraws(ms))[i]
<1>. DEFINE n == Len(ms)
            D == FlattenSeq(SessionDraws(ms))
            d == [j \in 1 .. runs |-> <<n + 1, j>>]
            tt == Append(ms, row)
<1>1. /\ row \in Row /\ row.runs = runs /\ row.lines \in 1 .. MAX_nruns
      /\ row.files \in Int
      /\ At(row.files) + row.lines = runs - (MAX_nruns - l)
  <2>1. MAX_nruns \in Nat
    BY ConstantsAssumption
  <2>2. runs - (MAX_nruns - l) \in Int
    BY <2>1
  <2> QED BY <2>2, AnticipatedRow, SMTT(30) DEF Row
<1>2. /\ n \in Nat /\ tt \in Seq(Row) /\ Len(tt) = n + 1 /\ tt[n + 1] = row
      /\ \A s \in 1 .. n : tt[s] = ms[s]
      /\ Front(tt) = ms /\ (n = 0 <=> ms = << >>)
  <2>1. row \in Row
    BY <1>1
  <2>2. Front(tt) = ms
    <3>1. SubSeq(tt, 1, Len(tt) - 1) \in Seq(Row) /\ Len(SubSeq(tt, 1, Len(tt) - 1)) = n
          /\ \A s \in 1 .. n : SubSeq(tt, 1, Len(tt) - 1)[s] = ms[s]
      BY <2>1
    <3> QED BY <3>1, SeqEqual DEF Front
  <2> QED BY <2>1, <2>2
<1>3. D \in Seq(Draw) /\ Len(D) \in Nat
  BY DrawsType
<1>4. d \in Seq(Draw) /\ Len(d) = runs /\ \A j \in 1 .. runs : d[j] = <<n + 1, j>>
  <2>1. d \in [1 .. runs -> Draw]
    BY <1>2 DEF Draw
  <2> QED BY <2>1, SeqDef
<1>5. FlattenSeq(SessionDraws(tt)) = D \o d
  <2>1. FlattenSeq(SessionDraws(tt)) = D \o [j \in 1 .. row.runs |-> <<Len(ms) + 1, j>>]
    BY <1>1, DrawsNext
  <2> QED BY <1>1, <2>1
<1>. HIDE DEF D, d, tt, n
<1>6. Len(D \o d) = Len(D) + runs
      /\ (\A i \in 1 .. Len(D) : (D \o d)[i] = D[i])
      /\ (\A j \in 1 .. runs : (D \o d)[Len(D) + j] = <<n + 1, j>>)
  BY <1>3, <1>4, SMTT(30)
<1>7. MhDraws' = tt /\ AllDraws' = D \o d
  <2>1. MhDraws' = tt
    BY DEF Adds, tt
  <2>2. AllDraws' = FlattenSeq(SessionDraws(MhDraws'))
    BY DEF AllDraws, SessionDraws
  <2> QED BY <1>5, <2>1, <2>2
<1>8. PreviousFile' = f /\ Session' = row /\ Len(MhDraws') = n + 1
  BY <1>2, <1>7 DEF PreviousFile, LastFileNumberInThePreviousMh, Session, Adds
<1>9. (OldMh' <=> ms # << >>) /\ PreviousLine' = l
  <2>1. OldMh' <=> ms # << >>
    BY <1>2, <1>7 DEF OldMh
  <2>2. CASE ms = << >>
    BY <2>1, <2>2 DEF PreviousLine, Adds
  <2>3. CASE ms # << >>
    <3>1. n + 1 - 1 = n /\ n \in 1 .. n
      BY <1>2, <2>3
    <3>2. LastLineNumberInThePreviousMh' = tt[n].lines
      BY <1>2, <1>7, <2>1, <2>3, <3>1, SMTT(30) DEF LastLineNumberInThePreviousMh
    <3> QED BY <1>2, <2>1, <2>3, <3>1, <3>2 DEF PreviousLine, Adds, n
  <2> QED BY <2>1, <2>2, <2>3
<1>10. At(f) + l = Len(D) /\ At(f) \in Int /\ Before' = Len(D)
  <2>1. At(f) + l = Len(D) /\ At(f) \in Int
    BY AtNext DEF Adds, D
  <2>2. Before' = At(PreviousFile') + PreviousLine'
    BY DEF Before, At
  <2> QED BY <1>8, <1>9, <2>1, <2>2
<1>11. Total' = Len(D) + runs
  BY <1>6, <1>7 DEF Total
<1>12. /\ LastFileNumber' = NumberOfFiles(MhDraws')
       /\ LastFileNumber' = f + row.files /\ LastLineNumber' = row.lines
  <2>1. NumberOfFiles(tt) = f + row.files
    BY <1>1, NumberOfFilesNext DEF Adds, tt
  <2> QED BY <1>7, <2>1 DEF Adds
<1>13. At(LastFileNumber') + LastLineNumber' = Total'
  <2>1. PICK g \in Int, F \in Int : g = row.files /\ F = LastFileNumber' /\ F = f + g
    BY <1>1, <1>12
  <2>2. At(F) = At(f) + At(g) + MAX_nruns /\ At(g) \in Int /\ MAX_nruns \in Nat
    <3>1. F = f + g /\ f \in Int
      BY <2>1
    <3>2. At(F) = At(f) + At(g) + MAX_nruns
      BY <3>1, AtSum
    <3> QED BY <3>2, AtNext
  <2>3. At(g) + LastLineNumber' = runs - (MAX_nruns - l)
    BY <1>1, <1>12, <2>1
  <2>4. LastLineNumber' \in Int /\ At(F) + LastLineNumber' = Len(D) + runs
    <3>1. LastLineNumber' \in Int
      BY <1>1, <1>12, <2>2
    <3>2. PICK a \in Int, b \in Int, e \in Int, m \in Int :
             a = At(f) /\ b = At(g) /\ e = LastLineNumber' /\ m = MAX_nruns
      BY <1>10, <2>2, <3>1
    <3>3. At(F) = a + b + m /\ b + e = runs - (m - l) /\ a + l = Len(D)
      BY <1>10, <2>2, <2>3, <3>2
    <3>4. At(F) + e = a + l + runs
      BY <3>3
    <3> QED BY <3>1, <3>2, <3>3, <3>4
  <2> QED BY <1>11, <2>1, <2>4
<1>14. f =< LastFileNumber' /\ LastFileNumber' >= 1
  <2>0. f =< LastFileNumber'
    <3>1. At(f) + l =< At(LastFileNumber') + LastLineNumber'
      BY <1>3, <1>10, <1>11, <1>13
    <3> QED BY <1>1, <1>12, <3>1, AtOrder
  <2>1. CASE f >= 1
    BY <1>1, <1>12, <2>0, <2>1
  <2>2. CASE f = 0
    <3>. SUFFICES ASSUME LastFileNumber' =< 0 PROVE FALSE
      BY <1>1, <1>12, <2>0
    <3>1. l = MAX_nruns /\ At(0) = 0 - MAX_nruns /\ MAX_nruns \in Nat \ {0}
      BY <2>2, AtNext DEF Adds
    <3>2. Len(D) = 0
      BY <1>10, <2>2, <3>1
    <3>3. PICK F \in Int : F = LastFileNumber'
      BY <1>1, <1>12
    <3>4. At(F) + MAX_nruns =< At(1) /\ At(1) = 0 /\ At(F) \in Int
      BY <3>3, AtNext, AtGrows
    <3>5. At(F) + LastLineNumber' = runs /\ LastLineNumber' \in 1 .. MAX_nruns
      BY <1>1, <1>11, <1>12, <1>13, <3>2, <3>3
    <3> QED BY <3>1, <3>4, <3>5
  <2> QED BY <2>1, <2>2
<1>15. Recorded'
  <2>1. /\ Session'.runs = runs /\ Session'.lines = row.lines
        /\ Before' + Session'.runs = Total'
        /\ (OldMh' => PreviousFile' >= 1)
    BY <1>1, <1>8, <1>9, <1>10, <1>11 DEF Adds
  <2>2. \A j \in 1 .. Session'.runs : AllDraws'[Before' + j] = <<Len(MhDraws'), j>>
    BY <1>6, <1>7, <1>8, <1>10, <2>1
  <2>3. At(LastFileNumber)' = At(LastFileNumber') /\ Len(MhDraws') >= 1
    BY <1>2, <1>8 DEF At
  <2> QED BY <1>1, <1>8, <1>9, <1>12, <1>13, <1>14, <2>1, <2>2, <2>3 DEF Recorded, NumberOfFiles
<1>16. \A i \in 1 .. Len(D) : AllDraws'[i] = D[i]
  BY <1>6, <1>7
<1> QED BY <1>1, <1>2, <1>7, <1>8, <1>9, <1>12, <1>14, <1>15, <1>16 DEF D

\* What depends on the record stays with it.
LEMMA SameRecord ==
    ASSUME UNCHANGED <<MhDraws, LastFileNumber, LastLineNumber>>, Recorded
    PROVE  /\ Recorded' /\ AllDraws' = AllDraws /\ Total' = Total /\ Before' = Before
           /\ PreviousFile' = PreviousFile /\ PreviousLine' = PreviousLine
           /\ Session' = Session /\ OldMh' = OldMh /\ SharesAFile' = SharesAFile
           /\ LastFileNumber' = LastFileNumber
<1>1. MhDraws' = MhDraws /\ LastFileNumber' = LastFileNumber /\ LastLineNumber' = LastLineNumber
  OBVIOUS
<1>2. AllDraws' = AllDraws /\ Total' = Total
  BY <1>1 DEF AllDraws, Total
<1>3. /\ PreviousFile' = PreviousFile /\ Session' = Session /\ OldMh' = OldMh
      /\ NumberOfFiles(MhDraws)' = NumberOfFiles(MhDraws)
  BY <1>1 DEF PreviousFile, LastFileNumberInThePreviousMh, Session, OldMh, NumberOfFiles
<1>4. LastLineNumberInThePreviousMh' = LastLineNumberInThePreviousMh
  BY <1>1, <1>3 DEF LastLineNumberInThePreviousMh
<1>5. PreviousLine' = PreviousLine /\ SharesAFile' = SharesAFile
  BY <1>3, <1>4 DEF PreviousLine, SharesAFile
<1>6. Before' = Before /\ At(LastFileNumber)' = At(LastFileNumber)
  BY <1>1, <1>3, <1>5 DEF Before, At
<1>7. Recorded'
  BY <1>1, <1>2, <1>3, <1>5, <1>6 DEF Recorded
<1> QED BY <1>1, <1>2, <1>3, <1>5, <1>6, <1>7

\* The numbers of a record.
LEMMA RecordNumbers ==
    ASSUME TypeOK, Recorded
    PROVE  /\ MAX_nruns \in Nat \ {0} /\ Total \in Nat /\ Before \in Nat
           /\ AllDraws \in Seq(Draw)
           /\ Session.runs \in Nat \ {0} /\ Before + Session.runs = Total
           /\ Before = At(PreviousFile) + PreviousLine /\ At(PreviousFile) \in Int
           /\ Total = At(LastFileNumber) + LastLineNumber /\ At(LastFileNumber) \in Int
           /\ PreviousFile \in 0 .. LastFileNumber /\ LastFileNumber \in Nat \ {0}
           /\ PreviousLine \in 1 .. MAX_nruns /\ LastLineNumber \in 1 .. MAX_nruns
           /\ SharesAFile <=> PreviousLine < MAX_nruns
<1>1. MAX_nruns \in Nat \ {0}
  BY ConstantsAssumption
<1>2. MhDraws \in Seq(Row) /\ Len(MhDraws) \in 1 .. Len(MhDraws)
  BY DEF TypeOK, Recorded
<1>3. AllDraws \in Seq(Draw) /\ Total \in Nat
  BY <1>2, DrawsType, AllDrawsAre DEF Total
<1>4. Session.runs \in Nat \ {0}
  BY <1>2, RowOf DEF Session
<1>5. /\ LastFileNumber \in Nat \ {0} /\ LastLineNumber \in 1 .. MAX_nruns
      /\ PreviousFile \in Nat /\ PreviousLine \in 1 .. MAX_nruns
      /\ Before + Session.runs = Total /\ Total = At(LastFileNumber) + LastLineNumber
      /\ Before = At(PreviousFile) + PreviousLine
  BY DEF Recorded, TypeOK, Before
<1>6. /\ At(PreviousFile) \in Int /\ At(LastFileNumber) \in Int /\ At(0) = 0 - MAX_nruns
      /\ At(1) = 0
  BY <1>5, AtNext
<1>7. PreviousFile =< LastFileNumber
  <2>1. At(PreviousFile) + PreviousLine =< At(LastFileNumber) + LastLineNumber
    BY <1>4, <1>5, <1>6
  <2> QED BY <1>5, <2>1, AtOrder
<1>8. Before \in Nat
  <2>1. CASE PreviousFile = 0
    <3>1. ~ OldMh
      BY <2>1 DEF Recorded
    <3>2. PreviousLine = MAX_nruns
      BY <3>1 DEF PreviousLine
    <3> QED BY <1>1, <1>5, <1>6, <2>1, <3>2
  <2>2. CASE PreviousFile = 1
    BY <1>5, <1>6, <2>2
  <2>3. CASE PreviousFile > 1
    <3>1. At(1) + MAX_nruns =< At(PreviousFile)
      BY <1>5, <2>3, AtGrows
    <3> QED BY <1>1, <1>5, <1>6, <3>1
  <2> QED BY <1>5, <2>1, <2>2, <2>3
<1>9. SharesAFile <=> PreviousLine < MAX_nruns
  BY <1>1 DEF SharesAFile, PreviousLine
<1> QED BY <1>1, <1>3, <1>4, <1>5, <1>6, <1>7, <1>8, <1>9

-------------------------------------------------------------------------------
(***************************************************************************)
(* Between the sessions                                                    *)
(***************************************************************************)

\* No file is missing when each chain has as many as it should; otherwise there is a
\* first chain that lacks one.
LEMMA MissingFiles ==
    ASSUME TypeOK, Recorded, \A b \in Chains : Len(files[b]) =< LastFileNumber
    PROVE  /\ NothingMissing => Complete
           /\ ~ NothingMissing => /\ FirstIncomplete \in Chains
                                  /\ \A c \in Chains : c < FirstIncomplete
                                                       => Len(files[c]) = LastFileNumber
<1>. DEFINE f == [b \in Chains |-> Len(files[b])]
<1>1. /\ IsFiniteSet(Chains) /\ Cardinality(Chains) = nblck
      /\ LastFileNumber \in Int /\ ExpectedNumberOfMhFilesPerBlock = LastFileNumber
  <2>1. nblck \in Nat
    BY ConstantsAssumption
  <2> QED BY <2>1, FS_Interval DEF Chains, TypeOK, Recorded, ExpectedNumberOfMhFilesPerBlock
<1>2. \A b \in Chains : f[b] \in Int /\ f[b] =< LastFileNumber /\ Len(files[b]) \in Nat
  <2>. SUFFICES ASSUME NEW b \in Chains
                PROVE f[b] \in Int /\ f[b] =< LastFileNumber /\ Len(files[b]) \in Nat
    OBVIOUS
  <2>1. files[b] \in Seq(Seq(Draw))
    BY DEF TypeOK
  <2> QED BY <2>1
<1>3. NothingMissing <=> SumFunctionOnSet(f, Chains) = LastFileNumber * Cardinality(Chains)
  BY <1>1 DEF NothingMissing, SumFunction
<1>4. ASSUME NothingMissing PROVE Complete
  <2>1. SumFunctionOnSet(f, Chains) = LastFileNumber * Cardinality(Chains)
    BY <1>3, <1>4
  <2>2. \A b \in Chains : f[b] = LastFileNumber
    BY <1>1, <1>2, <2>1, SumBound
  <2> QED BY <2>2 DEF Complete
<1>5. ASSUME ~ NothingMissing
      PROVE  /\ FirstIncomplete \in Chains
             /\ \A c \in Chains : c < FirstIncomplete => Len(files[c]) = LastFileNumber
  <2>. DEFINE T == {b \in Chains : Incomplete(b)}
  <2>1. T # {}
    <3>. SUFFICES ASSUME T = {} PROVE FALSE
      OBVIOUS
    <3>1. \A b \in Chains : f[b] = LastFileNumber
      BY <1>1, <1>2 DEF Incomplete
    <3>2. SumFunctionOnSet(f, Chains) = LastFileNumber * Cardinality(Chains)
      BY <1>1, <3>1, SumConstant
    <3> QED BY <1>3, <1>5, <3>2
  <2>2. T \in SUBSET Nat
    BY DEF Chains
  <2>3. PICK b \in T : \A c \in T : b =< c
    BY <2>1, <2>2, LeastNumber
  <2>4. b \in Chains /\ Incomplete(b) /\ \A c \in Chains : c < b => ~ Incomplete(c)
    BY <2>2, <2>3 DEF Chains
  <2>5. /\ FirstIncomplete \in Chains
        /\ \A c \in Chains : c < FirstIncomplete => ~ Incomplete(c)
    BY <2>4 DEF FirstIncomplete
  <2> QED BY <1>1, <1>2, <2>5 DEF Incomplete
<1> QED BY <1>4, <1>5

\* What a chain holds does not change with the phase.
LEMMA HeldStays ==
    ASSUME NEW b \in Chains, NEW k, Held(b, k), files'[b] = files[b], Limit(b)' = Limit(b),
           AllDraws' = AllDraws, exposed => exposed'
    PROVE  Held(b, k)'
BY DEF Held, Room

\* The chains before `first' have been run; the others begin after the last row of the
\* sessions before.
Begins(first, runs, file, line) ==
    /\ runs = Session'.runs /\ first \in Chains
    /\ option' = "new" => ~ OldMh'
    /\ option' = "load" => OldMh' /\ line = PreviousLine' + 1
    /\ option' # "recover" => first = 1
    /\ option' = "recover" /\ ~ exposed' => line = 1
    /\ \A b \in Chains :
           /\ Len(files'[b]) >= IF b < first THEN LastFileNumber' ELSE PreviousFile'
           /\ option' # "recover" => Len(files'[b]) = PreviousFile'
    /\ IF option' = "load" /\ line = MAX_nruns + 1 THEN file = PreviousFile' + 1
       ELSE line \in 1 .. MAX_nruns /\ At(file) + line - 1 = Before'

\* A session that begins is in step.
LEMMA SessionBegins ==
    ASSUME Recorded', NEW opt, NEW par, NEW first \in Int, NEW runs \in Nat \ {0},
           NEW file \in Int, NEW line \in Nat, NEW from,
           Begin(opt, par, first, runs, file, line, from), Begins(first, runs, file, line)
    PROVE  Running'
<1>1. /\ phase' = "running" /\ option' = opt /\ fblck' = first /\ nruns' = runs /\ fline' = line
      /\ \A b \in Chains : /\ NewFile'[b] = file /\ done'[b] = 0
                            /\ InitSizeArray'[b] = MinOf(MAX_nruns, line + runs - 1)
  BY DEF Begin
<1>2. nruns' = Session'.runs /\ (option' = "new" => ~ OldMh')
      /\ (option' = "load" => OldMh' /\ fline' = PreviousLine' + 1)
      /\ (option' # "recover" => fblck' = 1) /\ (option' = "recover" /\ ~ exposed' => fline' = 1)
  BY <1>1 DEF Begins
<1>3. ASSUME NEW b \in Chains PROVE HasFiles(b)' /\ done'[b] =< nruns'
  <2>1. done'[b] = 0 /\ done'[b] # nruns' /\ done'[b] =< nruns'
    BY <1>1
  <2>2. Due(b)' = IF b < first THEN LastFileNumber' ELSE PreviousFile'
    BY <1>1, <2>1 DEF Due, PreviousFile
  <2>3. option' # "recover" => ~ (b < first)
    BY DEF Begins, Chains
  <2>4. /\ Len(files'[b]) >= IF b < first THEN LastFileNumber' ELSE PreviousFile'
        /\ option' # "recover" => Len(files'[b]) = PreviousFile'
    BY DEF Begins
  <2> QED BY <2>1, <2>2, <2>3, <2>4 DEF HasFiles
<1>4. CASE opt = "load" /\ line = MAX_nruns + 1
  <2>1. Stuck' /\ \A b \in Chains : done'[b] = 0 /\ NewFile'[b] = PreviousFile' + 1
    BY <1>1, <1>4 DEF Stuck, Begins
  <2> QED BY <1>2, <1>3, <2>1 DEF Running, PreviousFile
<1>5. CASE ~ (opt = "load" /\ line = MAX_nruns + 1)
  <2>1. ~ Stuck' /\ line \in 1 .. MAX_nruns /\ At(file) + line - 1 = Before'
    BY <1>1, <1>5 DEF Stuck, Begins
  <2>2. ASSUME NEW b \in Chains PROVE InStep(b)'
    <3>1. NextRow(b)' = line
      BY <1>1 DEF NextRow
    <3>2. At(NewFile[b])' = At(file) /\ At(file) \in Int /\ MAX_nruns \in Nat
      BY <1>1, AtNext DEF At
    <3>3. line + runs - 1 = line - 1 + runs - 0
      OBVIOUS
    <3>4. At(NewFile[b])' + NextRow(b)' - 1 = Before' + done'[b]
      BY <1>1, <2>1, <3>1, <3>2
    <3>5. InitSizeArray'[b] = MinOf(MAX_nruns, NextRow(b)' - 1 + nruns' - done'[b])
      BY <1>1, <3>1, <3>3
    <3> QED BY <2>1, <3>1, <3>4, <3>5 DEF InStep, MinOf
  <2> QED BY <1>2, <1>3, <2>1, <2>2 DEF Running
<1> QED BY <1>4, <1>5

\* The variables of the session have their types from the beginning.
LEMMA BeginTypes ==
    ASSUME NEW opt \in {"new", "load", "recover"}, NEW par, NEW first \in Chains,
           NEW runs \in Nat, NEW file \in Int, NEW line \in Nat, NEW from,
           Begin(opt, par, first, runs, file, line, from),
           exposed' \in BOOLEAN, files' \in [Chains -> Seq(Seq(Draw))],
           MhDraws' \in Seq(Row), LastFileNumber' \in Int, LastLineNumber' \in Int
    PROVE  TypeOK' /\ phase' = "running" /\ option' = opt /\ \A b \in Chains : done'[b] = 0
<1>1. MinOf(MAX_nruns, line + runs - 1) \in Int
  BY ConstantsAssumption DEF MinOf
<1>2. InitSizeArray' \in [Chains -> Int]
  BY <1>1 DEF Begin
<1> QED BY <1>2 DEF Begin, TypeOK

\* Initially there are no files.
LEMMA InitEstablishes == Init => IInv
<1>. SUFFICES ASSUME Init PROVE IInv
  OBVIOUS
<1>1. 1 \in Chains
  BY ConstantsAssumption DEF Chains
<1>2. << >> \in Seq(Seq(Draw)) /\ << >> \in Seq(Row)
  OBVIOUS
<1>3. files \in [Chains -> Seq(Seq(Draw))] /\ MhDraws \in Seq(Row)
  BY <1>2 DEF Init
<1>4. /\ NewFile \in [Chains -> Int] /\ InitSizeArray \in [Chains -> Int]
      /\ done \in [Chains -> Nat]
  BY DEF Init
<1>5. /\ phase = "none" /\ option = "new" /\ exposed = FALSE /\ LastFileNumber = 0
      /\ LastLineNumber = 0 /\ nruns = 0 /\ fblck = 1 /\ fline = 1
      /\ MhDraws = << >> /\ \A b \in Chains : files[b] = << >>
  BY DEF Init
<1>6. exposed \in BOOLEAN
  BY DEF Init
<1>7. TypeOK
  <2>1. /\ phase \in {"none", "running", "crashed", "ended", "refused"}
        /\ option \in {"new", "load", "recover"}
        /\ LastFileNumber \in Int /\ LastLineNumber \in Int
        /\ nruns \in Nat /\ fblck \in Chains /\ fline \in Nat
    BY <1>1, <1>5
  <2> QED BY <1>3, <1>4, <1>6, <2>1 DEF TypeOK
<1> QED BY <1>5, <1>7 DEF IInv

\* A new simulation deletes all files.
LEMMA StartNewKeeps ==
    ASSUME IInv, NEW runs \in Replics, NEW par \in BOOLEAN, StartNew(runs, par) PROVE IInv'
<1>. DEFINE row == Anticipated(runs, runs)
            from == [b \in Chains |-> Initial]
<1>1. /\ runs \in Nat \ {0} /\ MAX_nruns \in Nat \ {0} /\ 1 \in Chains
      /\ runs - (MAX_nruns - MAX_nruns) = runs
  BY ConstantsAssumption DEF Chains
<1>2. row \in Row /\ row.runs = runs
  BY <1>1, runs \in Int, AnticipatedRow
<1>3. Adds(<< >>, row, 0, MAX_nruns)
  <2>1. NumberOfFiles(<< >>) = 0
    BY <1>2, << >> \in Seq(Row), NumberOfFilesNext
  <2>2. SessionDraws(<< >>) = << >>
    BY DEF SessionDraws
  <2>3. At(0) + MAX_nruns = 0 /\ Len(FlattenSeq(SessionDraws(<< >>))) = 0
    BY <1>1, <2>2, AtNext DEF FlattenSeq
  <2>4. MhDraws' = Append(<< >>, row) /\ MhDraws'[1] = row
    BY DEF StartNew
  <2>5. LastFileNumber' = 0 + row.files /\ LastLineNumber' = row.lines
    BY <1>2, <2>4 DEF StartNew, Row
  <2> QED BY <1>1, <1>2, <2>1, <2>3, <2>4, <2>5 DEF Adds
<1>4. /\ MhDraws' \in Seq(Row) /\ LastFileNumber' \in Int /\ LastLineNumber' \in Int
      /\ Recorded' /\ PreviousFile' = 0 /\ PreviousLine' = MAX_nruns /\ Session'.runs = runs
      /\ ~ OldMh'
  <2>1. row = Anticipated(runs, runs - (MAX_nruns - MAX_nruns))
    BY <1>1
  <2>. HIDE DEF row
  <2>2. 0 \in Nat /\ MAX_nruns \in 1 .. MAX_nruns /\ << >> \in Seq(Row)
    BY <1>1
  <2> QED BY <1>1, <1>3, <2>1, <2>2, NextRecord
<1>5. /\ files' = [b \in Chains |-> << >>] /\ exposed' = FALSE
      /\ Begin("new", par, 1, runs, 1, 1, from)
  BY DEF StartNew
<1>6. Begins(1, runs, 1, 1)
  <2>1. At(1) + 1 - 1 = Before'
    <3>1. Before' = At(0) + MAX_nruns
      BY <1>4 DEF Before, At, PreviousFile, PreviousLine
    <3> QED BY <1>1, <3>1, AtNext
  <2>2. option' = "new" /\ \A b \in Chains : Len(files'[b]) = 0 /\ ~ (b < 1)
    BY <1>5 DEF Begin, Chains
  <2> QED BY <1>1, <1>4, <2>1, <2>2 DEF Begins
<1>7. Running'
  BY <1>1, <1>4, <1>5, <1>6, SessionBegins
<1>8. TypeOK' /\ phase' = "running"
  <2>1. files' \in [Chains -> Seq(Seq(Draw))]
    BY <1>5, << >> \in Seq(Seq(Draw))
  <2>2. exposed' \in BOOLEAN
    BY DEF StartNew
  <2>3. "new" \in {"new", "load", "recover"} /\ 1 \in Nat /\ 1 \in Int
    OBVIOUS
  <2>. HIDE DEF from
  <2> QED BY <1>1, <1>4, <1>5, <2>1, <2>2, <2>3, BeginTypes
<1>9. \A b \in Chains : Len(files'[b]) =< LastFileNumber' /\ 1 .. Len(files'[b]) = {}
  BY <1>4, <1>5 DEF Recorded
<1> QED BY <1>4, <1>7, <1>8, <1>9 DEF IInv

\* Nothing is missing when a recovery is refused.
LEMMA RefuseKeeps == ASSUME IInv, Refuse PROVE IInv'
<1>1. /\ phase = "crashed" /\ phase' = "refused" /\ NothingMissing
      /\ UNCHANGED <<files, disk, session, chain, crashes, exposed>>
  BY DEF Refuse
<1>2. Complete'
  BY <1>1, MissingFiles DEF IInv, Complete, disk
<1>3. Recorded' /\ AllDraws' = AllDraws /\ Total' = Total
  BY <1>1, SameRecord DEF IInv, disk
<1>4. ASSUME NEW b \in Chains, NEW k \in 1 .. Len(files[b]) PROVE Held(b, k)'
  <2>1. Limit(b)' = Limit(b)
    BY <1>1, <1>3 DEF Limit
  <2> QED BY <1>1, <1>3, <1>4, <2>1, HeldStays DEF IInv
<1>5. TypeOK'
  BY <1>1 DEF IInv, TypeOK, disk, session, chain
<1> QED BY <1>1, <1>2, <1>3, <1>4, <1>5 DEF IInv, disk

\* Draws are added after the last row of the last file; what the files hold is what they
\* should until a chain is run.
LEMMA StartLoadKeeps ==
    ASSUME IInv, NEW runs \in Replics, NEW par \in BOOLEAN, StartLoad(runs, par) PROVE IInv'
<1>. DEFINE row == Anticipated(runs, runs - (MAX_nruns - LastLineNumber))
            file == IF LastLineNumber < MAX_nruns THEN LastFileNumber ELSE LastFileNumber + 1
            line == LastLineNumber + 1
<1>1. /\ runs \in Nat \ {0} /\ 1 \in Chains /\ MAX_nruns \in Nat \ {0}
      /\ 1 \in Int /\ "load" \in {"new", "load", "recover"}
  BY ConstantsAssumption DEF Chains
<1>2. TypeOK /\ Recorded /\ Complete /\ phase \in {"ended", "refused"}
  BY DEF StartLoad, IInv
<1>3. /\ LastFileNumber \in Nat \ {0} /\ LastLineNumber \in 1 .. MAX_nruns
      /\ MhDraws \in Seq(Row) /\ MhDraws # << >> /\ Total \in Nat
      /\ Total = At(LastFileNumber) + LastLineNumber
      /\ At(LastFileNumber) \in Int /\ At(LastFileNumber + 1) = At(LastFileNumber) + MAX_nruns
  <2>1. MhDraws \in Seq(Row) /\ MhDraws # << >>
    BY <1>2 DEF TypeOK, Recorded
  <2>2. /\ LastFileNumber \in Nat \ {0} /\ LastLineNumber \in 1 .. MAX_nruns /\ Total \in Nat
        /\ Total = At(LastFileNumber) + LastLineNumber /\ At(LastFileNumber) \in Int
    BY <1>2, RecordNumbers
  <2> QED BY <2>1, <2>2, AtNext
<1>4. row \in Row /\ row.runs = runs /\ row.files \in Int
  <2>1. runs - (MAX_nruns - LastLineNumber) \in Int
    BY <1>1, <1>3
  <2> QED BY <1>1, <2>1, AnticipatedRow DEF Row
<1>5. /\ MhDraws' = Append(MhDraws, row) /\ LastFileNumber' = LastFileNumber + row.files
      /\ LastLineNumber' = row.lines /\ files' = files /\ exposed' = exposed
      /\ Begin("load", par, 1, runs, file, line, LastParameters)
  BY DEF StartLoad
<1>6. exposed' \in BOOLEAN
  BY <1>2 DEF StartLoad, TypeOK
<1>. HIDE DEF row, file, line
<1>7. row = Anticipated(runs, runs - (MAX_nruns - LastLineNumber))
  BY DEF row
<1>8. Adds(MhDraws, row, LastFileNumber, LastLineNumber)
  <2>1. At(LastFileNumber) + LastLineNumber = Len(FlattenSeq(SessionDraws(MhDraws)))
    BY <1>3, AllDrawsAre DEF Total
  <2>2. LastFileNumber = NumberOfFiles(MhDraws) /\ LastLineNumber = MhDraws[Len(MhDraws)].lines
    BY <1>2 DEF Recorded, Session
  <2> QED BY <1>3, <1>4, <1>5, <1>7, <2>1, <2>2 DEF Adds
<1>9. /\ MhDraws' \in Seq(Row) /\ LastFileNumber' \in Int /\ LastLineNumber' \in Int
      /\ Recorded' /\ LastFileNumber =< LastFileNumber'
      /\ PreviousFile' = LastFileNumber /\ PreviousLine' = LastLineNumber
      /\ Session'.runs = runs
      /\ OldMh'
      /\ \A i \in 1 .. Total : AllDraws'[i] = AllDraws[i]
  <2>1. Total = Len(FlattenSeq(SessionDraws(MhDraws))) /\ AllDraws = FlattenSeq(SessionDraws(MhDraws))
    BY AllDrawsAre DEF Total
  <2>2. LastFileNumber \in Nat
    BY <1>3
  <2>3. /\ MhDraws' \in Seq(Row) /\ LastFileNumber' \in Int /\ LastLineNumber' \in Int
        /\ Recorded' /\ LastFileNumber =< LastFileNumber'
        /\ PreviousFile' = LastFileNumber /\ PreviousLine' = LastLineNumber
        /\ Session'.runs = runs
        /\ OldMh' <=> MhDraws # << >>
        /\ \A i \in 1 .. Len(FlattenSeq(SessionDraws(MhDraws))) :
              AllDraws'[i] = FlattenSeq(SessionDraws(MhDraws))[i]
    BY <1>1, <1>3, <1>7, <1>8, <2>2, NextRecord
  <2> QED BY <1>3, <2>1, <2>3
<1>10. Before' = Total
  <2>1. Before' = At(PreviousFile') + PreviousLine'
    BY DEF Before, At
  <2> QED BY <1>3, <1>9, <2>1
<1>11. file \in Int /\ line \in Nat
  BY <1>3 DEF file, line
<1>12. TypeOK' /\ phase' = "running" /\ option' = "load" /\ \A b \in Chains : done'[b] = 0
  <2>1. files' \in [Chains -> Seq(Seq(Draw))]
    BY <1>2, <1>5 DEF TypeOK
  <2> QED BY <1>1, <1>5, <1>6, <1>9, <1>11, <2>1, BeginTypes
<1>13. Begins(1, runs, file, line)
  <2>1. \A b \in Chains : Len(files'[b]) = PreviousFile' /\ ~ (b < 1)
    BY <1>2, <1>5, <1>9 DEF Complete, Chains
  <2>2. IF line = MAX_nruns + 1 THEN file = PreviousFile' + 1
        ELSE line \in 1 .. MAX_nruns /\ At(file) + line - 1 = Before'
    BY <1>1, <1>3, <1>9, <1>10 DEF file, line
  <2> QED BY <1>1, <1>9, <1>12, <2>1, <2>2 DEF Begins, line
<1>14. Running'
  BY <1>1, <1>5, <1>9, <1>11, <1>13, SessionBegins
<1>15. ASSUME NEW b \in Chains
       PROVE  /\ Len(files'[b]) =< LastFileNumber'
              /\ \A k \in 1 .. Len(files'[b]) : Held(b, k)'
  <2>1. Len(files'[b]) = LastFileNumber /\ files'[b] = files[b]
    BY <1>2, <1>5 DEF Complete
  <2>2. LastFileNumber =< LastFileNumber'
    BY <1>9
  <2>3. ASSUME NEW k \in 1 .. Len(files'[b]) PROVE Held(b, k)'
    <3>1. Limit(b) = Total /\ Limit(b)' = Before'
      BY <1>2, <1>12 DEF Limit
    <3>2. Held(b, k)
      BY <1>2, <2>1 DEF IInv
    <3>3. Room(b, k)' = Room(b, k)
      BY <1>10, <3>1 DEF Room, At
    <3>4. k \in Nat \ {0} /\ Len(files[b]) \in Nat
      BY <1>3, <2>1
    <3>5. At(k) \in Nat
      <4>1. k = 1 \/ At(1) + MAX_nruns =< At(k)
        BY <3>4, AtGrows
      <4>2. At(1) = 0 /\ At(k) \in Int
        BY <3>4, AtNext
      <4> QED BY <1>1, <4>1, <4>2
    <3>6. \A i \in 1 .. Room(b, k) : AllDraws'[At(k) + i] = AllDraws[At(k) + i]
      <4>1. Room(b, k) =< Total - At(k) /\ Room(b, k) \in Int
        BY <1>1, <1>3, <3>1, <3>5, SMTT(30) DEF Room, MinOf
      <4>2. ASSUME NEW i \in 1 .. Room(b, k) PROVE At(k) + i \in 1 .. Total
        BY <1>3, <3>5, <4>1, SMTT(30)
      <4> QED BY <1>9, <4>2
    <3> QED BY <1>5, <2>1, <3>2, <3>3, <3>6 DEF Held, At
  <2> QED BY <1>3, <1>9, <2>1, <2>2, <2>3
<1> QED BY <1>9, <1>12, <1>14, <1>15 DEF IInv

\* A recovery finds a first chain that lacks a file, and takes up the session where it
\* began.
LEMMA RecoverKeeps == ASSUME IInv, Recover PROVE IInv'
<1>. DEFINE first == FirstIncomplete
            runs == MhDraws[Len(MhDraws)].runs
            file == IF SharesAFile THEN LastFileNumberInThePreviousMh
                                   ELSE LastFileNumberInThePreviousMh + 1
            line == IF SharesAFile THEN LastLineNumberInThePreviousMh + 1 ELSE 1
<1>1. /\ TypeOK /\ Recorded /\ Crashed /\ phase = "crashed" /\ ~ NothingMissing
      /\ \A b \in Chains : Len(files[b]) =< LastFileNumber
  BY DEF IInv, Recover
<1>2. /\ UNCHANGED <<MhDraws, LastFileNumber, LastLineNumber, files>>
      /\ \E from : Begin("recover", FALSE, first, runs, file, line, from)
  BY DEF Recover, disk
<1>3. exposed' \in BOOLEAN /\ exposed' = exposed
  BY <1>1 DEF Recover, TypeOK
<1>4. first \in Chains /\ \A c \in Chains : c < first => Len(files[c]) = LastFileNumber
  BY <1>1, MissingFiles
<1>5. /\ Recorded' /\ AllDraws' = AllDraws /\ Total' = Total /\ Before' = Before
      /\ PreviousFile' = PreviousFile /\ PreviousLine' = PreviousLine
      /\ Session' = Session /\ LastFileNumber' = LastFileNumber
  BY <1>1, <1>2, SameRecord
<1>6. /\ MAX_nruns \in Nat \ {0} /\ Session.runs \in Nat \ {0}
      /\ Before = At(PreviousFile) + PreviousLine /\ At(PreviousFile) \in Int
      /\ PreviousFile \in Nat /\ PreviousLine \in 1 .. MAX_nruns
      /\ SharesAFile <=> PreviousLine < MAX_nruns
  BY <1>1, RecordNumbers
<1>7. runs = Session.runs
  BY DEF Session
<1>8. /\ file = (IF SharesAFile THEN PreviousFile ELSE PreviousFile + 1)
      /\ line = (IF SharesAFile THEN PreviousLine + 1 ELSE 1)
  BY DEF PreviousFile, PreviousLine, SharesAFile
<1>. HIDE DEF first, runs, file, line
<1>9. file \in Int /\ line \in 1 .. MAX_nruns /\ At(file) + line - 1 = Before
  <2>1. At(PreviousFile + 1) = At(PreviousFile) + MAX_nruns
    BY <1>6, AtNext
  <2> QED BY <1>6, <1>8, <2>1
<1>10. PICK from : Begin("recover", FALSE, first, runs, file, line, from)
  BY <1>2
<1>11. TypeOK' /\ phase' = "running" /\ option' = "recover" /\ \A b \in Chains : done'[b] = 0
  <2>1. /\ files' \in [Chains -> Seq(Seq(Draw))] /\ MhDraws' \in Seq(Row)
        /\ LastFileNumber' \in Int /\ LastLineNumber' \in Int
    BY <1>1, <1>2 DEF TypeOK
  <2>2. runs \in Nat /\ line \in Nat /\ "recover" \in {"new", "load", "recover"}
    BY <1>6, <1>7, <1>9
  <2> QED BY <1>3, <1>4, <1>9, <1>10, <2>1, <2>2, BeginTypes
<1>12. Begins(first, runs, file, line)
  <2>1. ~ exposed' => line = 1
    BY <1>1, <1>3, <1>8 DEF Crashed
  <2>2. \A b \in Chains :
           Len(files'[b]) >= IF b < first THEN LastFileNumber' ELSE PreviousFile'
    BY <1>1, <1>2, <1>4, <1>5 DEF Crashed, TypeOK
  <2> QED BY <1>4, <1>5, <1>7, <1>9, <1>11, <2>1, <2>2 DEF Begins
<1>13. Running'
  <2>1. first \in Int /\ runs \in Nat \ {0} /\ line \in Nat
    BY <1>4, <1>6, <1>7, <1>9 DEF Chains
  <2> QED BY <1>5, <1>9, <1>10, <1>12, <2>1, SessionBegins
<1>14. ASSUME NEW b \in Chains, NEW k \in 1 .. Len(files'[b]) PROVE Held(b, k)'
  <2>1. Limit(b)' = Limit(b)
    BY <1>1, <1>5, <1>11 DEF Limit
  <2>2. Held(b, k) /\ files'[b] = files[b]
    BY <1>1, <1>2 DEF IInv
  <2> QED BY <1>3, <1>5, <2>1, <2>2, HeldStays
<1> QED BY <1>1, <1>2, <1>5, <1>11, <1>13, <1>14 DEF IInv

-------------------------------------------------------------------------------
(***************************************************************************)
(* While a session runs                                                    *)
(***************************************************************************)

\* Where the next row of a chain goes that has draws to make: into the last file of the
\* sessions before, where load_mh_file goes on in it, or into a file after them.
LEMMA ChainPlace ==
    ASSUME TypeOK, Recorded, Running, ~ Stuck, NEW b \in Chains, b >= fblck, done[b] < nruns
    PROVE  /\ NewFile[b] \in PreviousFile .. LastFileNumber /\ NewFile[b] >= 1
           /\ At(NewFile[b]) \in Int /\ NextRow(b) \in 1 .. MAX_nruns
           /\ At(NewFile[b]) + NextRow(b) - 1 = Before + done[b]
           /\ InitSizeArray[b] = MinOf(MAX_nruns, NextRow(b) - 1 + nruns - done[b])
           /\ done[b] # 0 => NextRow(b) = 1 /\ NewFile[b] > PreviousFile
           /\ done[b] = 0 =>
                 \/ NewFile[b] = PreviousFile + 1 /\ NextRow(b) = 1
                 \/ NewFile[b] = PreviousFile /\ NextRow(b) = PreviousLine + 1
           /\ option # "recover" /\ NewFile[b] = PreviousFile => LoadsOldFile(b)
<1>1. /\ MAX_nruns \in Nat \ {0} /\ Before \in Nat /\ Before + nruns = Total
      /\ nruns \in Nat \ {0}
      /\ Before = At(PreviousFile) + PreviousLine /\ At(PreviousFile) \in Int
      /\ PreviousFile \in 0 .. LastFileNumber /\ LastFileNumber \in Nat \ {0}
      /\ PreviousLine \in 1 .. MAX_nruns /\ LastLineNumber \in 1 .. MAX_nruns
      /\ Total = At(LastFileNumber) + LastLineNumber /\ At(LastFileNumber) \in Int
  BY nruns = Session.runs, RecordNumbers DEF Running
<1>2. InStep(b) /\ done[b] \in Nat /\ NewFile[b] \in Int
  BY DEF Running, TypeOK
<1>3. PICK N \in Int : N = NewFile[b]
  BY <1>2
<1>4. PICK r \in 1 .. MAX_nruns : r = NextRow(b)
  BY <1>2 DEF InStep
<1>5. PICK d \in Nat : d = done[b]
  BY <1>2
<1>6. PICK P \in Nat : P = PreviousFile
  BY <1>1
<1>7. /\ At(N) \in Int /\ At(P) \in Int /\ At(P + 1) = At(P) + MAX_nruns
      /\ At(0) = 0 - MAX_nruns
      /\ At(N) + r - 1 = At(P) + PreviousLine + d
      /\ d < nruns
  <2>1. At(N) + r - 1 = Before + d /\ Before = At(P) + PreviousLine
    BY <1>1, <1>2, <1>3, <1>4, <1>5, <1>6 DEF InStep
  <2>2. At(N) \in Int /\ At(P) \in Int
    <3>1. \A k \in Int : At(k) \in Int
      BY AtNext
    <3> QED BY <3>1
  <2>3. At(P + 1) = At(P) + MAX_nruns /\ At(0) = 0 - MAX_nruns
    BY AtNext
  <2> QED BY <1>1, <1>5, <2>1, <2>2, <2>3
<1>8. P =< N
  <2>1. PreviousLine \in 1 .. MAX_nruns /\ At(P) + PreviousLine =< At(N) + r
    BY <1>1, <1>4, <1>7
  <2> QED BY <2>1, AtOrder
<1>9. N =< LastFileNumber
  <2>1. /\ LastLineNumber \in 1 .. MAX_nruns /\ LastFileNumber \in Int
        /\ At(N) + r =< At(LastFileNumber) + LastLineNumber
    BY <1>1, <1>4, <1>6, <1>7
  <2> QED BY <2>1, AtOrder
<1>10. N >= 1
  <2>1. N < 0 => At(N) + MAX_nruns =< At(0)
    BY AtGrows
  <2>2. At(N) + r - 1 >= 0
    BY <1>1, <1>6, <1>7
  <2> QED BY <1>1, <1>4, <1>7, <2>1, <2>2
<1>11. ASSUME d # 0 PROVE r = 1 /\ N > P
  <2>1. r = 1
    BY <1>4, <1>5, <1>11 DEF NextRow
  <2> QED BY <1>1, <1>7, <1>8, <1>11, <2>1
<1>12. ASSUME d = 0
       PROVE  (N = P + 1 /\ r = 1) \/ (N = P /\ r = PreviousLine + 1)
  <2>1. N > P + 1 => At(P + 1) + MAX_nruns =< At(N)
    BY AtGrows
  <2>2. N = P \/ N = P + 1 \/ N > P + 1
    BY <1>8
  <2> QED BY <1>1, <1>4, <1>7, <1>12, <2>1, <2>2
<1>13. ASSUME option # "recover", N = P PROVE LoadsOldFile(b)
  <2>1. d = 0
    BY <1>11, <1>13
  <2>2. r = PreviousLine + 1 /\ fline = r /\ fline > 1
    BY <1>1, <1>4, <1>5, <1>12, <1>13, <2>1 DEF NextRow
  <2>3. option # "new"
    <3>. SUFFICES ASSUME option = "new" PROVE FALSE
      OBVIOUS
    <3>1. ~ OldMh
      BY DEF Running
    <3>2. PreviousLine = MAX_nruns
      BY <3>1 DEF PreviousLine
    <3> QED BY <1>1, <1>4, <2>2, <3>2
  <2>4. option = "load"
    BY <1>13, <2>3 DEF TypeOK
  <2> QED BY <1>5, <2>1, <2>2, <2>4 DEF LoadsOldFile
<1>14. N \in PreviousFile .. LastFileNumber
  BY <1>1, <1>6, <1>8, <1>9
<1>15. InitSizeArray[b] = MinOf(MAX_nruns, NextRow(b) - 1 + nruns - done[b])
       /\ At(NewFile[b]) + NextRow(b) - 1 = Before + done[b]
  BY <1>2 DEF InStep
<1> QED BY <1>3, <1>4, <1>5, <1>6, <1>7, <1>10, <1>11, <1>12, <1>13, <1>14, <1>15

\* The files that a chain has while the session runs.
LEMMA ChainFiles ==
    ASSUME TypeOK, Recorded, Running, NEW b \in Chains, Len(files[b]) =< LastFileNumber
    PROVE  /\ nruns = Session.runs /\ done[b] \in 0 .. nruns
           /\ files[b] \in Seq(Seq(Draw)) /\ Len(files[b]) \in Nat
           /\ PreviousFile =< Len(files[b])
           /\ b < fblck \/ done[b] = nruns => Len(files[b]) = LastFileNumber
           /\ b >= fblck /\ done[b] = 0 /\ option # "recover" => Len(files[b]) = PreviousFile
           /\ b >= fblck /\ done[b] < nruns /\ ~ Stuck =>
                 /\ Len(files[b]) + 1 >= NewFile[b]
                 /\ option # "recover" => \/ NewFile[b] = Len(files[b]) + 1
                                          \/ LoadsOldFile(b) /\ NewFile[b] = Len(files[b])
<1>1. /\ nruns = Session.runs /\ nruns \in Nat \ {0}
      /\ PreviousFile \in 0 .. LastFileNumber /\ LastFileNumber \in Nat \ {0}
  BY nruns = Session.runs, RecordNumbers DEF Running
<1>2. /\ done[b] \in 0 .. nruns /\ files[b] \in Seq(Seq(Draw)) /\ Len(files[b]) \in Nat
      /\ NewFile[b] \in Int /\ HasFiles(b) /\ b \in Int /\ fblck \in Int
  <2>1. done[b] \in Nat /\ done[b] =< nruns /\ HasFiles(b)
    BY DEF TypeOK, Running
  <2>2. files[b] \in Seq(Seq(Draw)) /\ NewFile[b] \in Int /\ b \in Int /\ fblck \in Int
    BY DEF TypeOK, Chains
  <2>3. Len(files[b]) \in Nat
    BY <2>2
  <2> QED BY <1>1, <2>1, <2>2, <2>3
<1>3. PICK l \in Nat : l = Len(files[b])
  BY <1>2
<1>4. PICK q \in Int : q = Due(b)
  BY <1>1, <1>2 DEF Due
<1>5. q =< l /\ (option # "recover" => l = q) /\ l =< LastFileNumber
  BY <1>2, <1>3, <1>4 DEF HasFiles
<1>6. CASE b < fblck \/ done[b] = nruns
  <2>1. q = LastFileNumber
    BY <1>4, <1>6 DEF Due
  <2> QED BY <1>1, <1>2, <1>3, <1>5, <1>6, <2>1
<1>7. CASE ~ (b < fblck \/ done[b] = nruns)
  <2>1. q = IF done[b] = 0 THEN PreviousFile ELSE NewFile[b] - 1
    BY <1>4, <1>7 DEF Due
  <2>2. b >= fblck /\ done[b] < nruns
    BY <1>1, <1>2, <1>7
  <2>3. Stuck => done[b] = 0
    BY DEF Running
  <2>4. ~ Stuck => /\ NewFile[b] \in PreviousFile .. LastFileNumber
                   /\ done[b] # 0 => NewFile[b] > PreviousFile
                   /\ done[b] = 0 => NewFile[b] = PreviousFile + 1 \/ NewFile[b] = PreviousFile
                   /\ option # "recover" /\ NewFile[b] = PreviousFile => LoadsOldFile(b)
    BY <2>2, ChainPlace
  <2>5. PreviousFile =< l
    BY <1>1, <1>2, <1>5, <2>1, <2>3, <2>4
  <2>6. ~ Stuck => l + 1 >= NewFile[b]
    BY <1>1, <1>2, <1>5, <2>1, <2>4
  <2>7. ~ Stuck /\ option # "recover" =>
           NewFile[b] = l + 1 \/ (LoadsOldFile(b) /\ NewFile[b] = l)
    BY <1>1, <1>2, <1>5, <2>1, <2>4
  <2>8. done[b] = 0 /\ option # "recover" => l = PreviousFile
    BY <1>5, <2>1
  <2> QED BY <1>1, <1>2, <1>3, <1>7, <2>5, <2>6, <2>7, <2>8
<1> QED BY <1>6, <1>7

\* A session that ends has run every chain.
LEMMA EndKeeps == ASSUME IInv, End PROVE IInv'
<1>1. /\ TypeOK /\ Recorded /\ Running /\ phase = "running" /\ phase' = "ended"
      /\ UNCHANGED <<files, MhDraws, LastFileNumber, LastLineNumber, session, chain, exposed>>
      /\ \A b \in fblck .. nblck : done[b] = nruns
      /\ \A b \in Chains : Len(files[b]) =< LastFileNumber
  BY DEF IInv, End
<1>2. /\ Recorded' /\ AllDraws' = AllDraws /\ Total' = Total /\ LastFileNumber' = LastFileNumber
  BY <1>1, SameRecord
<1>3. nruns \in Nat \ {0}
  BY <1>1, nruns = Session.runs, RecordNumbers DEF Running
<1>4. ASSUME NEW b \in Chains PROVE Len(files[b]) = LastFileNumber /\ Limit(b) = Total
  <2>1. b < fblck \/ done[b] = nruns
    BY <1>1 DEF Chains, TypeOK
  <2>2. Len(files[b]) = LastFileNumber
    BY <1>1, <2>1, ChainFiles
  <2>3. option = "load" => done[b] # 0
    BY <1>1, <1>3, <2>1 DEF Running, Chains
  <2> QED BY <2>2, <2>3 DEF Limit
<1>5. Complete'
  BY <1>1, <1>4 DEF Complete
<1>6. ASSUME NEW b \in Chains, NEW k \in 1 .. Len(files[b]) PROVE Held(b, k)'
  <2>1. Limit(b)' = Limit(b)
    BY <1>1, <1>2, <1>4 DEF Limit
  <2>2. Held(b, k)
    BY <1>1 DEF IInv
  <2>3. files'[b] = files[b] /\ (exposed => exposed')
    BY <1>1
  <2> QED BY <1>2, <2>1, <2>2, <2>3, HeldStays
<1>7. TypeOK'
  BY <1>1 DEF TypeOK, session, chain
<1> QED BY <1>1, <1>2, <1>5, <1>6, <1>7 DEF IInv

\* A session that crashes leaves what it has saved; where it began after a full file, all
\* that a chain holds is what it should hold in the end.
LEMMA CrashKeeps ==
    ASSUME IInv, phase = "running", phase' = "crashed", exposed' = (exposed \/ SharesAFile),
           UNCHANGED <<files, disk, session, chain>>
    PROVE  IInv'
<1>1. /\ TypeOK /\ Recorded /\ Running
      /\ UNCHANGED <<files, MhDraws, LastFileNumber, LastLineNumber, session, chain>>
      /\ \A b \in Chains : Len(files[b]) =< LastFileNumber
  BY DEF IInv, disk
<1>2. /\ Recorded' /\ AllDraws' = AllDraws /\ Total' = Total /\ LastFileNumber' = LastFileNumber
      /\ PreviousFile' = PreviousFile /\ SharesAFile' = SharesAFile
  BY <1>1, SameRecord
<1>3. exposed' \in BOOLEAN /\ (exposed => exposed') /\ (SharesAFile => exposed')
  OBVIOUS
<1>4. TypeOK'
  <2>1. /\ phase' \in {"none", "running", "crashed", "ended", "refused"}
        /\ option' \in {"new", "load", "recover"}
        /\ files' \in [Chains -> Seq(Seq(Draw))]
        /\ MhDraws' \in Seq(Row)
        /\ LastFileNumber' \in Int /\ LastLineNumber' \in Int
        /\ nruns' \in Nat /\ fblck' \in Chains /\ fline' \in Nat
        /\ NewFile' \in [Chains -> Int] /\ InitSizeArray' \in [Chains -> Int]
        /\ done' \in [Chains -> Nat]
    BY <1>1 DEF TypeOK, session, chain
  <2> QED BY <1>3, <2>1 DEF TypeOK
<1>5. Crashed'
  <2>1. \A b \in Chains : PreviousFile =< Len(files[b])
    BY <1>1, ChainFiles
  <2> QED BY <1>1, <1>2, <1>3, <2>1 DEF Crashed
<1>6. ASSUME NEW b \in Chains, NEW k \in 1 .. Len(files[b]) PROVE Held(b, k)'
  <2>1. Held(b, k) /\ files'[b] = files[b]
    BY <1>1 DEF IInv
  <2>2. Limit(b)' = Total
    BY <1>2 DEF Limit
  <2>3. CASE Limit(b) = Total
    BY <1>2, <1>3, <2>1, <2>2, <2>3, HeldStays
  <2>4. CASE Limit(b) # Total
    <3>1. Limit(b) = Before /\ option = "load" /\ done[b] = 0
      BY <2>4 DEF Limit
    <3>2. b >= fblck
      BY <1>1, <3>1 DEF Running, Chains
    <3>3. /\ MAX_nruns \in Nat \ {0} /\ Before \in Nat /\ Total \in Nat /\ Before =< Total
          /\ Before = At(PreviousFile) + PreviousLine /\ At(PreviousFile) \in Int
          /\ PreviousFile \in Nat /\ PreviousLine \in 1 .. MAX_nruns
          /\ SharesAFile <=> PreviousLine < MAX_nruns
      <4>1. Session.runs \in Nat /\ Before + Session.runs = Total
        BY <1>1, RecordNumbers
      <4>2. /\ MAX_nruns \in Nat \ {0} /\ Before \in Nat /\ Total \in Nat
            /\ Before = At(PreviousFile) + PreviousLine /\ At(PreviousFile) \in Int
            /\ PreviousFile \in Nat /\ PreviousLine \in 1 .. MAX_nruns
            /\ SharesAFile <=> PreviousLine < MAX_nruns
        BY <1>1, RecordNumbers
      <4> QED BY <4>1, <4>2
    <3>4. Len(files[b]) = PreviousFile
      BY <1>1, <3>1, <3>2, ChainFiles
    <3>5. At(k) \in Int /\ At(k) =< At(PreviousFile)
      <4>1. k \in Int /\ (k = PreviousFile \/ k < PreviousFile)
        BY <3>3, <3>4
      <4>2. At(k) \in Int
        BY <4>1, AtNext
      <4>3. k < PreviousFile => At(k) + MAX_nruns =< At(PreviousFile)
        BY <3>3, <4>1, AtGrows
      <4> QED BY <3>3, <4>1, <4>2, <4>3
    <3>6. /\ Room(b, k) = MinOf(MAX_nruns, Before - At(k))
          /\ Room(b, k)' = MinOf(MAX_nruns, Total - At(k))
      BY <2>2, <3>1 DEF Room, At
    <3>7. Room(b, k) =< Room(b, k)' /\ Room(b, k) \in Int /\ Room(b, k)' \in Int
      BY <3>3, <3>5, <3>6 DEF MinOf
    <3>8. ~ SharesAFile => Room(b, k) = Room(b, k)'
      BY <3>3, <3>5, <3>6 DEF MinOf
    <3>9. Len(files[b][k]) \in Int
      <4>1. files[b] \in Seq(Seq(Draw))
        BY <1>1 DEF TypeOK
      <4> QED BY <4>1
    <3>10. Len(files'[b][k]) =< Room(b, k)'
      BY <2>1, <3>7, <3>9 DEF Held
    <3>11. ASSUME ~ exposed'
           PROVE /\ Len(files'[b][k]) = Room(b, k)'
                 /\ \A i \in 1 .. Room(b, k)' : files'[b][k][i] = AllDraws'[At(k) + i]
      BY <1>2, <1>3, <2>1, <3>8, <3>11 DEF Held
    <3> QED BY <3>10, <3>11 DEF Held, At
  <2> QED BY <2>3, <2>4
<1> QED BY <1>1, <1>2, <1>4, <1>5, <1>6 DEF IInv

\* A file of m rows is filled from row r on, with the t - d draws that are left or until
\* it is full.
Fills(m, r, t, d, z, k) == z = MinOf(m, r - 1 + t - d) /\ k = MinOf(z - r + 1, t - d)

\* A file is filled from row r on, up to its end or that of the session.
LEMMA Filling ==
    ASSUME NEW m \in Nat, NEW r \in 1 .. m, NEW t \in Nat, NEW d \in Nat, d < t,
           NEW z, NEW k, Fills(m, r, t, d, z, k)
    PROVE  /\ z \in r .. m /\ k = z - r + 1 /\ k \in 1 .. t - d
           /\ t - d - k > 0 => z = m
<1>1. CASE m < r - 1 + t - d
  <2>1. z = m
    BY <1>1 DEF MinOf, Fills
  <2>2. k = m - r + 1
    BY <1>1, <2>1 DEF MinOf, Fills
  <2> QED BY <1>1, <2>1, <2>2
<1>2. CASE ~ (m < r - 1 + t - d)
  <2>1. z = r - 1 + t - d
    BY <1>2 DEF MinOf, Fills
  <2>2. z - r + 1 = t - d
    BY <2>1
  <2>3. k = t - d
    BY <2>2 DEF MinOf, Fills
  <2> QED BY <1>2, <2>1, <2>2, <2>3
<1> QED BY <1>1, <1>2

\* A file is written over or is the next one.
LEMMA WrittenFiles ==
    ASSUME NEW fs \in Seq(Seq(Draw)), NEW x \in Seq(Draw), NEW k \in 1 .. Len(fs) + 1
    PROVE  /\ Written(fs, k, x) \in Seq(Seq(Draw))
           /\ Len(Written(fs, k, x)) = IF k = Len(fs) + 1 THEN Len(fs) + 1 ELSE Len(fs)
           /\ Written(fs, k, x)[k] = x
           /\ \A j \in 1 .. Len(fs) : j # k => Written(fs, k, x)[j] = fs[j]
           /\ Written(fs, k, x) = IF k = Len(fs) + 1 THEN Append(fs, x) ELSE [fs EXCEPT ![k] = x]
<1>1. PICK l \in Nat : l = Len(fs) /\ DOMAIN fs = 1 .. l
  OBVIOUS
<1>2. CASE k = l + 1
  <2>1. k \notin DOMAIN fs
    BY <1>1, <1>2
  <2>2. Written(fs, k, x) = Append(fs, x)
    BY <2>1 DEF Written
  <2>3. /\ Append(fs, x) \in Seq(Seq(Draw)) /\ Len(Append(fs, x)) = l + 1
        /\ Append(fs, x)[l + 1] = x /\ \A j \in 1 .. l : Append(fs, x)[j] = fs[j]
    BY <1>1
  <2> QED BY <1>1, <1>2, <2>2, <2>3
<1>3. CASE k # l + 1
  <2>1. k \in 1 .. l /\ k \in DOMAIN fs
    BY <1>1, <1>3
  <2>2. Written(fs, k, x) = [fs EXCEPT ![k] = x]
    BY <2>1 DEF Written
  <2>3. /\ [fs EXCEPT ![k] = x] \in Seq(Seq(Draw)) /\ Len([fs EXCEPT ![k] = x]) = l
        /\ \A j \in 1 .. l : [fs EXCEPT ![k] = x][j] = IF j = k THEN x ELSE fs[j]
    <3>1. k \in 1 .. Len(fs)
      BY <1>1, <2>1
    <3>2. /\ [fs EXCEPT ![k] = x] \in Seq(Seq(Draw)) /\ Len([fs EXCEPT ![k] = x]) = Len(fs)
          /\ \A j \in 1 .. Len(fs) : [fs EXCEPT ![k] = x][j] = IF j = k THEN x ELSE fs[j]
      BY <3>1, ExceptSeq
    <3> QED BY <1>1, <3>2
  <2> QED BY <1>1, <1>3, <2>1, <2>2, <2>3
<1> QED BY <1>2, <1>3

\* Rows r .. z of x are the draws of session n after the first d.
Drawn(x, r, z, d, n) == \A i \in r .. z : x[i] = <<n, d + i - r + 1>>

\* The rows of chain b that are saved next: the old ones of the file, and its draws.
LEMMA SavedRows ==
    ASSUME IInv, NEW b \in Chains, Runs(b),
           LoadsOldFile(b) => NewFile[b] \in DOMAIN files[b],
           NEW irun, irun = NextRow(b),
           NEW k, k = MinOf(InitSizeArray[b] - irun + 1, nruns - done[b])
    PROVE  /\ ~ Stuck /\ b >= fblck /\ done[b] < nruns
           /\ irun \in 1 .. MAX_nruns /\ InitSizeArray[b] \in irun .. MAX_nruns
           /\ k = InitSizeArray[b] - irun + 1 /\ k \in 1 .. nruns - done[b]
           /\ nruns - done[b] - k > 0 => InitSizeArray[b] = MAX_nruns
           /\ WithDraws(b, irun, k) \in Seq(Draw) /\ Len(WithDraws(b, irun, k)) = InitSizeArray[b]
           /\ Drawn(WithDraws(b, irun, k), irun, InitSizeArray[b], done[b], Len(MhDraws))
           /\ LoadsOldFile(b) =>
                 /\ NewFile[b] = Len(files[b]) /\ NewFile[b] = PreviousFile
                 /\ irun = PreviousLine + 1
                 /\ Len(files[b][NewFile[b]]) =< irun - 1
                 /\ \A i \in 1 .. Len(files[b][NewFile[b]]) :
                       WithDraws(b, irun, k)[i] = files[b][NewFile[b]][i]
<1>. DEFINE size == InitSizeArray[b]
            old == files[b][NewFile[b]]
            start == StartOf(b)
            x2 == WithDraws(b, irun, k)
<1>1. /\ TypeOK /\ Recorded /\ Running /\ Len(files[b]) =< LastFileNumber
      /\ \A j \in 1 .. Len(files[b]) : Held(b, j)
  BY DEF IInv, Runs
<1>2. b >= fblck /\ done[b] < nruns
  BY <1>1 DEF Runs, TypeOK, Chains
<1>3. /\ done[b] \in 0 .. nruns /\ files[b] \in Seq(Seq(Draw)) /\ Len(files[b]) \in Nat
      /\ done[b] = 0 /\ option # "recover" => Len(files[b]) = PreviousFile
  BY <1>1, <1>2, ChainFiles
<1>4. /\ MAX_nruns \in Nat \ {0} /\ nruns \in Nat \ {0} /\ Len(MhDraws) \in Nat
      /\ PreviousFile \in Nat /\ PreviousLine \in 1 .. MAX_nruns
      /\ Before = At(PreviousFile) + PreviousLine /\ At(PreviousFile) \in Int
  <2>1. nruns = Session.runs
    BY <1>1 DEF Running
  <2>2. Len(MhDraws) \in Nat
    BY <1>1 DEF TypeOK
  <2>3. /\ MAX_nruns \in Nat \ {0} /\ Session.runs \in Nat \ {0}
        /\ PreviousFile \in Nat /\ PreviousLine \in 1 .. MAX_nruns
        /\ Before = At(PreviousFile) + PreviousLine /\ At(PreviousFile) \in Int
    BY <1>1, RecordNumbers
  <2> QED BY <2>1, <2>2, <2>3
<1>5. ~ Stuck
  <2>. SUFFICES ASSUME Stuck PROVE FALSE
    OBVIOUS
  <2>1. option = "load" /\ fline = MAX_nruns + 1 /\ done[b] = 0 /\ NewFile[b] = PreviousFile + 1
    BY <1>1 DEF Running, Stuck
  <2>2. LoadsOldFile(b)
    BY <1>4, <2>1 DEF LoadsOldFile
  <2> QED BY <1>3, <1>4, <2>1, <2>2
<1>6. /\ NewFile[b] \in Nat /\ NewFile[b] >= 1 /\ irun \in 1 .. MAX_nruns
      /\ size = MinOf(MAX_nruns, irun - 1 + nruns - done[b])
      /\ done[b] = 0 =>
            \/ NewFile[b] = PreviousFile + 1 /\ irun = 1
            \/ NewFile[b] = PreviousFile /\ irun = PreviousLine + 1
  <2>1. NewFile[b] \in PreviousFile .. LastFileNumber /\ NewFile[b] >= 1
    BY <1>1, <1>2, <1>5, ChainPlace
  <2>2. /\ irun \in 1 .. MAX_nruns /\ size = MinOf(MAX_nruns, irun - 1 + nruns - done[b])
        /\ done[b] = 0 =>
              \/ NewFile[b] = PreviousFile + 1 /\ irun = 1
              \/ NewFile[b] = PreviousFile /\ irun = PreviousLine + 1
    BY <1>1, <1>2, <1>5, ChainPlace
  <2> QED BY <1>4, <2>1, <2>2
<1>7. /\ size \in irun .. MAX_nruns /\ k = size - irun + 1 /\ k \in 1 .. nruns - done[b]
      /\ nruns - done[b] - k > 0 => size = MAX_nruns
  <2>1. MAX_nruns \in Nat /\ irun \in 1 .. MAX_nruns /\ nruns \in Nat /\ done[b] \in Nat
    BY <1>3, <1>4, <1>6
  <2>. HIDE DEF size
  <2>2. k = MinOf(size - irun + 1, nruns - done[b])
    BY DEF size
  <2>3. PICK r \in 1 .. MAX_nruns, t \in Nat, d \in Nat : r = irun /\ t = nruns /\ d = done[b]
    BY <2>1
  <2>4. size = MinOf(MAX_nruns, r - 1 + t - d) /\ k = MinOf(size - r + 1, t - d) /\ d < t
    BY <1>2, <1>6, <2>2, <2>3
  <2>5. Fills(MAX_nruns, r, t, d, size, k)
    BY <2>4 DEF Fills
  <2>6. /\ size \in r .. MAX_nruns /\ k = size - r + 1 /\ k \in 1 .. t - d
        /\ t - d - k > 0 => size = MAX_nruns
    BY <1>4, <2>4, <2>5, Filling
  <2> QED BY <2>3, <2>6
<1>8. ASSUME LoadsOldFile(b)
      PROVE  /\ done[b] = 0 /\ fline = irun
             /\ NewFile[b] = Len(files[b]) /\ NewFile[b] = PreviousFile
             /\ irun = PreviousLine + 1 /\ old \in Seq(Draw) /\ Len(old) \in 0 .. irun - 1
  <2>1. option = "load" /\ done[b] = 0 /\ fline = irun /\ NewFile[b] \in 1 .. Len(files[b])
    BY <1>3, <1>8 DEF LoadsOldFile, NextRow
  <2>2. Len(files[b]) = PreviousFile /\ NewFile[b] = PreviousFile /\ irun = PreviousLine + 1
    <3>1. Len(files[b]) = PreviousFile
      BY <1>3, <2>1
    <3>2. NewFile[b] # PreviousFile + 1
      BY <1>4, <2>1, <3>1
    <3> QED BY <1>6, <2>1, <3>1, <3>2
  <2>3. old \in Seq(Draw) /\ Len(old) \in Nat
    BY <1>3, <2>1
  <2>4. Len(old) =< Room(b, NewFile[b])
    BY <1>1, <2>1 DEF Held
  <2>5. Limit(b) = Before
    BY <2>1 DEF Limit, Runs
  <2>6. Len(old) =< MinOf(MAX_nruns, Before - At(PreviousFile))
    BY <2>2, <2>4, <2>5 DEF Room
  <2> QED BY <1>4, <2>1, <2>2, <2>3, <2>6 DEF MinOf
<1>9. Zero \in Draw
  BY DEF Zero, Draw
<1>10. start \in Seq(Draw) /\ Len(start) =< size
       /\ (LoadsOldFile(b) => \A i \in 1 .. Len(old) : start[i] = old[i] /\ i =< Len(start))
  <2>1. CASE LoadsOldFile(b)
    <3>. DEFINE zeros == [i \in 1 .. size - fline + 1 |-> Zero]
    <3>1. PICK m \in Nat : m = size - fline + 1
      BY <1>6, <1>7, <1>8, <2>1
    <3>2. zeros \in [1 .. m -> Draw]
      BY <1>9, <3>1
    <3>3. zeros \in Seq(Draw) /\ Len(zeros) = m
      <4>1. zeros \in Seq(Draw)
        BY <3>2, SeqDef, ZenonT(30)
      <4>2. DOMAIN zeros = 1 .. m
        BY <3>2
      <4> QED BY <4>1, <4>2, <3>1, LenProperties
    <3>4. start = old \o zeros
      BY <2>1 DEF StartOf
    <3>. HIDE DEF zeros, start, old, size
    <3>5. /\ old \o zeros \in Seq(Draw) /\ Len(old \o zeros) = Len(old) + m
          /\ \A i \in 1 .. Len(old) : (old \o zeros)[i] = old[i]
      BY <1>8, <2>1, <3>3
    <3>6. Len(old) + m =< size
      BY <1>6, <1>7, <1>8, <2>1, <3>1
    <3> QED BY <1>8, <2>1, <3>1, <3>4, <3>5, <3>6
  <2>2. CASE ~ LoadsOldFile(b)
    <3>1. start = [i \in 1 .. size |-> Zero] /\ size \in Nat
      BY <1>6, <1>7, <2>2 DEF StartOf
    <3>2. start \in [1 .. size -> Draw]
      BY <1>9, <3>1
    <3>. HIDE DEF start, size
    <3>3. start \in Seq(Draw)
      BY <3>1, <3>2, SeqDef
    <3>4. DOMAIN start = 1 .. size
      BY <3>2
    <3> QED BY <2>2, <3>1, <3>3, <3>4, LenProperties
  <2> QED BY <2>1, <2>2
<1>11. x2 = [i \in 1 .. size |-> IF i \in irun .. size
                                 THEN <<Len(MhDraws), done[b] + i - irun + 1>>
                                 ELSE IF i \in DOMAIN start THEN start[i] ELSE Zero]
  <2>1. irun + k - 1 = size
    BY <1>6, <1>7
  <2>2. (IF irun + k - 1 > Len(start) THEN irun + k - 1 ELSE Len(start)) = size
    <3>1. Len(start) \in Nat /\ size \in Nat
      BY <1>6, <1>7, <1>10
    <3> QED BY <1>10, <2>1, <3>1
  <2>3. x2 = [i \in 1 .. IF irun + k - 1 > Len(start) THEN irun + k - 1 ELSE Len(start) |->
                IF i \in irun .. irun + k - 1
                THEN <<Len(MhDraws), done[b] + i - irun + 1>>
                ELSE IF i \in DOMAIN start THEN start[i] ELSE Zero]
    BY DEF WithDraws, ThisSession
  <2>. HIDE DEF x2, start, size
  <2> QED BY <2>1, <2>2, <2>3
<1>. DEFINE value(i) == IF i \in irun .. size
                        THEN <<Len(MhDraws), done[b] + i - irun + 1>>
                        ELSE IF i \in DOMAIN start THEN start[i] ELSE Zero
<1>12. x2 = [i \in 1 .. size |-> value(i)]
  BY <1>11
<1>13. size \in Nat
  BY <1>6, <1>7
<1>. HIDE DEF x2, start, old, size
<1>14. ASSUME NEW i \in 1 .. size PROVE value(i) \in Draw
  <2>1. CASE i \in irun .. size
    <3>1. done[b] + i - irun + 1 \in Nat
      BY <1>3, <1>6, <1>13, <2>1
    <3> QED BY <1>4, <2>1, <3>1 DEF Draw
  <2>2. CASE i \notin irun .. size
    <3>1. i \in DOMAIN start => start[i] \in Draw
      BY <1>10
    <3> QED BY <1>9, <2>2, <3>1
  <2> QED BY <2>1, <2>2
<1>15. x2 \in Seq(Draw) /\ Len(x2) = size /\ \A i \in 1 .. size : x2[i] = value(i)
  <2>. HIDE DEF value
  <2>1. x2 \in [1 .. size -> Draw]
    BY <1>12, <1>14
  <2>2. x2 \in Seq(Draw)
    BY <1>13, <2>1, SeqDef
  <2>3. DOMAIN x2 = 1 .. size
    BY <2>1
  <2> QED BY <1>12, <1>13, <2>2, <2>3, LenProperties
<1>16. Drawn(x2, irun, size, done[b], Len(MhDraws))
  <2>1. \A i \in irun .. size : i \in 1 .. size
    BY <1>6, <1>13
  <2> QED BY <1>15, <2>1 DEF Drawn
<1>17. ASSUME LoadsOldFile(b), NEW i \in 1 .. Len(old) PROVE x2[i] = old[i]
  <2>1. i \in 1 .. Len(start) /\ start[i] = old[i] /\ i \notin irun .. size
    BY <1>6, <1>8, <1>10, <1>13, <1>17
  <2>2. i \in 1 .. size /\ i \in DOMAIN start
    <3>1. Len(start) \in Nat /\ DOMAIN start = 1 .. Len(start)
      BY <1>10
    <3> QED BY <1>10, <1>13, <2>1, <3>1
  <2> QED BY <1>15, <2>1, <2>2
<1> QED BY <1>2, <1>5, <1>6, <1>7, <1>8, <1>15, <1>16, <1>17 DEF x2, old, size

\* What a chain has after its next draws are saved.
LEMMA AdvancedChain ==
    ASSUME IInv, NEW b \in Chains, Advance(b)
    PROVE  LET irun == NextRow(b)
               k == InitSizeArray[b] - irun + 1
               x2 == WithDraws(b, irun, k)
               left == nruns - done[b] - k
           IN  /\ files' = [files EXCEPT ![b] = Written(files[b], NewFile[b], x2)]
               /\ done' = [done EXCEPT ![b] = done[b] + k]
               /\ InitSizeArray' = [InitSizeArray EXCEPT ![b] = MinOf(left, MAX_nruns)]
               /\ NewFile' = [NewFile EXCEPT ![b] = NextFile(b, left)]
               /\ UNCHANGED <<phase, disk, session, crashes, exposed>>
               /\ LoadsOldFile(b) => NewFile[b] \in DOMAIN files[b]
               /\ k = MinOf(InitSizeArray[b] - irun + 1, nruns - done[b])
<1>. DEFINE irun == NextRow(b)
            k == MinOf(InitSizeArray[b] - irun + 1, nruns - done[b])
<1>1. Runs(b) /\ (LoadsOldFile(b) => NewFile[b] \in DOMAIN files[b])
  BY DEF Advance
<1>2. k = InitSizeArray[b] - irun + 1
  <2>. HIDE DEF irun
  <2>1. irun = NextRow(b)
    BY DEF irun
  <2>2. PICK z : z = k
    OBVIOUS
  <2>3. z = MinOf(InitSizeArray[b] - irun + 1, nruns - done[b])
    BY <2>2
  <2>4. z = InitSizeArray[b] - irun + 1
    BY <1>1, <2>1, <2>3, SavedRows
  <2> QED BY <2>2, <2>4
<1>3. /\ files' = [files EXCEPT ![b] = Written(@, NewFile[b], WithDraws(b, irun, k))]
      /\ done' = [done EXCEPT ![b] = @ + k]
      /\ InitSizeArray' = [InitSizeArray EXCEPT ![b] = MinOf(nruns - done[b] - k, MAX_nruns)]
      /\ NewFile' = [NewFile EXCEPT ![b] = NextFile(b, nruns - done[b] - k)]
      /\ UNCHANGED <<phase, disk, session, crashes, exposed>>
  BY DEF Advance, SaveFile, NextRow
<1>. HIDE DEF irun, k
<1>4. irun = NextRow(b) /\ k = MinOf(InitSizeArray[b] - irun + 1, nruns - done[b])
  BY DEF irun, k
<1> QED BY <1>1, <1>2, <1>3, <1>4

\* The draws go into the rows that are theirs, in the file that is next.
LEMMA AdvanceKeeps == ASSUME IInv, NEW b \in Chains, Advance(b) PROVE IInv'
<1>1. /\ TypeOK /\ Recorded /\ Running /\ phase = "running" /\ Runs(b)
      /\ \A c \in Chains : Len(files[c]) =< LastFileNumber
      /\ \A c \in Chains : \A j \in 1 .. Len(files[c]) : Held(c, j)
      /\ LoadsOldFile(b) => NewFile[b] \in DOMAIN files[b]
  BY DEF IInv, Advance, Runs
<1>2. PICK r \in Int : r = NextRow(b)
  BY <1>1 DEF TypeOK, NextRow
<1>3. PICK z \in Int : z = InitSizeArray[b]
  BY <1>1 DEF TypeOK
<1>4. PICK k \in Int : k = z - r + 1
  OBVIOUS
<1>5. PICK x : x = WithDraws(b, r, k)
  OBVIOUS
<1>6. PICK d \in Nat : d = done[b]
  BY <1>1 DEF TypeOK
<1>7. /\ files' = [files EXCEPT ![b] = Written(files[b], NewFile[b], x)]
      /\ done' = [done EXCEPT ![b] = d + k]
      /\ InitSizeArray' = [InitSizeArray EXCEPT ![b] = MinOf(nruns - d - k, MAX_nruns)]
      /\ NewFile' = [NewFile EXCEPT ![b] = NextFile(b, nruns - d - k)]
      /\ UNCHANGED <<phase, disk, session, crashes, exposed>>
      /\ k = MinOf(z - r + 1, nruns - d)
  BY <1>2, <1>3, <1>4, <1>5, <1>6, AdvancedChain
<1>8. /\ ~ Stuck /\ b >= fblck /\ d < nruns
      /\ r \in 1 .. MAX_nruns /\ z \in r .. MAX_nruns /\ k \in 1 .. nruns - d
      /\ nruns - d - k > 0 => z = MAX_nruns
      /\ x \in Seq(Draw) /\ Len(x) = z
      /\ Drawn(x, r, z, d, Len(MhDraws))
      /\ LoadsOldFile(b) =>
            /\ NewFile[b] = Len(files[b]) /\ NewFile[b] = PreviousFile
            /\ r = PreviousLine + 1
            /\ \A i \in 1 .. Len(files[b][NewFile[b]]) : x[i] = files[b][NewFile[b]][i]
  <2>1. k = MinOf(InitSizeArray[b] - r + 1, nruns - done[b])
    BY <1>3, <1>6, <1>7
  <2>2. /\ ~ Stuck /\ b >= fblck /\ done[b] < nruns
        /\ r \in 1 .. MAX_nruns /\ InitSizeArray[b] \in r .. MAX_nruns
        /\ k \in 1 .. nruns - done[b]
        /\ nruns - done[b] - k > 0 => InitSizeArray[b] = MAX_nruns
        /\ WithDraws(b, r, k) \in Seq(Draw) /\ Len(WithDraws(b, r, k)) = InitSizeArray[b]
        /\ Drawn(WithDraws(b, r, k), r, InitSizeArray[b], done[b], Len(MhDraws))
    <3>1. IInv /\ Runs(b) /\ (LoadsOldFile(b) => NewFile[b] \in DOMAIN files[b])
      BY <1>1
    <3>2. /\ ~ Stuck /\ b >= fblck /\ done[b] < nruns
          /\ r \in 1 .. MAX_nruns /\ InitSizeArray[b] \in r .. MAX_nruns
      BY <1>2, <2>1, <3>1, SavedRows
    <3>3. /\ k \in 1 .. nruns - done[b]
          /\ nruns - done[b] - k > 0 => InitSizeArray[b] = MAX_nruns
      BY <1>2, <2>1, <3>1, SavedRows
    <3>4. WithDraws(b, r, k) \in Seq(Draw) /\ Len(WithDraws(b, r, k)) = InitSizeArray[b]
      BY <1>2, <2>1, <3>1, SavedRows
    <3>5. Drawn(WithDraws(b, r, k), r, InitSizeArray[b], done[b], Len(MhDraws))
      BY <1>2, <2>1, <3>1, SavedRows
    <3> QED BY <3>2, <3>3, <3>4, <3>5
  <2>3. LoadsOldFile(b) =>
            /\ NewFile[b] = Len(files[b]) /\ NewFile[b] = PreviousFile
            /\ r = PreviousLine + 1
            /\ \A i \in 1 .. Len(files[b][NewFile[b]]) :
                   WithDraws(b, r, k)[i] = files[b][NewFile[b]][i]
    BY <1>1, <1>2, <2>1, SavedRows
  <2> QED BY <1>3, <1>5, <1>6, <2>2, <2>3
<1>9. /\ nruns = Session.runs /\ files[b] \in Seq(Seq(Draw)) /\ Len(files[b]) \in Nat
      /\ Len(files[b]) + 1 >= NewFile[b]
      /\ option # "recover" => \/ NewFile[b] = Len(files[b]) + 1
                               \/ LoadsOldFile(b) /\ NewFile[b] = Len(files[b])
      /\ d = 0 /\ option # "recover" => Len(files[b]) = PreviousFile
  BY <1>1, <1>6, <1>8, ChainFiles
<1>10. /\ NewFile[b] \in PreviousFile .. LastFileNumber /\ NewFile[b] >= 1
       /\ At(NewFile[b]) \in Int /\ At(NewFile[b]) + r - 1 = Before + d
       /\ z = MinOf(MAX_nruns, r - 1 + nruns - d)
       /\ d # 0 => r = 1
       /\ d = 0 => \/ NewFile[b] = PreviousFile + 1 /\ r = 1
                   \/ NewFile[b] = PreviousFile /\ r = PreviousLine + 1
       /\ option # "recover" /\ NewFile[b] = PreviousFile => LoadsOldFile(b)
  BY <1>1, <1>2, <1>3, <1>6, <1>8, ChainPlace
<1>11. /\ MAX_nruns \in Nat \ {0} /\ Total \in Nat /\ Before \in Nat /\ nruns \in Nat \ {0}
       /\ Before + nruns = Total
       /\ Before = At(PreviousFile) + PreviousLine /\ At(PreviousFile) \in Int
       /\ Total = At(LastFileNumber) + LastLineNumber /\ At(LastFileNumber) \in Int
       /\ PreviousFile \in 0 .. LastFileNumber /\ LastFileNumber \in Nat \ {0}
       /\ PreviousLine \in 1 .. MAX_nruns /\ LastLineNumber \in 1 .. MAX_nruns
  BY <1>1, <1>9, RecordNumbers
<1>12. PICK l \in Nat : l = Len(files[b])
  BY <1>9
<1>13. PICK F \in Nat : F = LastFileNumber
  BY <1>11
<1>14. PICK K \in Nat : K = NewFile[b] /\ K >= 1 /\ K =< l + 1 /\ K =< F
  <2>1. PICK K \in Int : K = NewFile[b] /\ K >= 1 /\ K =< F
    BY <1>10, <1>11, <1>13
  <2>2. l + 1 >= K
    BY <1>9, <1>12, <2>1
  <2> QED BY <2>1, <2>2
<1>15. PICK a \in Int, B \in Int, t \in Nat, m \in Nat :
          /\ a = At(K) /\ B = Before /\ t = nruns /\ m = MAX_nruns /\ B + t = Total
          /\ a + r - 1 = B + d
  BY <1>10, <1>11, <1>14
<1>16. PICK fs : fs = Written(files[b], K, x)
  OBVIOUS
<1>17. /\ fs \in Seq(Seq(Draw)) /\ Len(fs) = (IF K = l + 1 THEN l + 1 ELSE l)
       /\ fs[K] = x /\ \A j \in 1 .. l : j # K => fs[j] = files[b][j]
  <2>1. /\ fs \in Seq(Seq(Draw))
        /\ Len(fs) = IF K = Len(files[b]) + 1 THEN Len(files[b]) + 1 ELSE Len(files[b])
        /\ fs[K] = x /\ \A j \in 1 .. Len(files[b]) : j # K => fs[j] = files[b][j]
    <3>1. /\ files[b] \in Seq(Seq(Draw)) /\ x \in Seq(Draw) /\ K \in 1 .. Len(files[b]) + 1
      BY <1>8, <1>9, <1>12, <1>14
    <3>2. PICK gs : gs = files[b]
      OBVIOUS
    <3>3. gs \in Seq(Seq(Draw)) /\ K \in 1 .. Len(gs) + 1 /\ fs = Written(gs, K, x)
      BY <1>16, <3>1, <3>2
    <3>4. /\ fs \in Seq(Seq(Draw))
          /\ Len(fs) = IF K = Len(gs) + 1 THEN Len(gs) + 1 ELSE Len(gs)
          /\ fs[K] = x /\ \A j \in 1 .. Len(gs) : j # K => fs[j] = gs[j]
      BY <3>1, <3>3, WrittenFiles
    <3> QED BY <3>2, <3>4
  <2> QED BY <1>12, <2>1
<1>18. PICK left \in Nat : left = nruns - d - k
  BY <1>8, <1>11
<1>19. /\ files'[b] = fs /\ done'[b] = d + k /\ InitSizeArray'[b] = MinOf(left, MAX_nruns)
       /\ NewFile'[b] = (IF left = 0 THEN K ELSE K + 1)
       /\ \A c \in Chains : c # b => /\ files'[c] = files[c] /\ done'[c] = done[c]
                                      /\ InitSizeArray'[c] = InitSizeArray[c]
                                      /\ NewFile'[c] = NewFile[c]
       /\ exposed' = exposed /\ phase' = "running" /\ option' = option
       /\ fblck' = fblck /\ fline' = fline /\ nruns' = nruns
  BY <1>1, <1>7, <1>14, <1>16, <1>18 DEF TypeOK, NextFile, session
<1>20. /\ UNCHANGED <<MhDraws, LastFileNumber, LastLineNumber>>
       /\ Recorded' /\ AllDraws' = AllDraws /\ Total' = Total /\ Before' = Before
       /\ PreviousFile' = PreviousFile /\ PreviousLine' = PreviousLine
       /\ Session' = Session /\ OldMh' = OldMh /\ LastFileNumber' = LastFileNumber
  <2>1. UNCHANGED <<MhDraws, LastFileNumber, LastLineNumber>>
    BY <1>7 DEF disk
  <2> QED BY <1>1, <2>1, SameRecord
<1>21. d + k \in 1 .. nruns /\ left = nruns - (d + k)
  <2>1. k \in 1 .. nruns - d /\ nruns \in Nat
    BY <1>8, <1>11
  <2> QED BY <1>18, <2>1
<1>22. left = 0 => K = LastFileNumber
  <2>. SUFFICES ASSUME left = 0 PROVE K = LastFileNumber
    OBVIOUS
  <2>1. At(K) + z = At(LastFileNumber) + LastLineNumber /\ z \in 1 .. MAX_nruns
    <3>1. z = r + k - 1 /\ nruns = d + k /\ z \in 1 .. MAX_nruns
      BY <1>4, <1>8, <1>11, <1>21
    <3>2. At(K) + z = Before + nruns
      BY <1>15, <3>1
    <3> QED BY <1>11, <3>1, <3>2
  <2> QED BY <1>11, <1>14, <2>1, AtOrder
<1>23. TypeOK'
  <2>1. files' \in [Chains -> Seq(Seq(Draw))]
    BY <1>1, <1>7, <1>14, <1>16, <1>17 DEF TypeOK
  <2>2. done' \in [Chains -> Nat]
    <3>1. d + k \in Nat
      BY <1>21
    <3> QED BY <1>1, <1>7, <3>1 DEF TypeOK
  <2>3. NewFile' \in [Chains -> Int]
    <3>1. NextFile(b, nruns - d - k) \in Int
      BY <1>14 DEF NextFile
    <3> QED BY <1>1, <1>7, <3>1 DEF TypeOK
  <2>4. InitSizeArray' \in [Chains -> Int]
    <3>1. MinOf(nruns - d - k, MAX_nruns) \in Int
      BY <1>11, <1>18 DEF MinOf
    <3> QED BY <1>1, <1>7, <3>1 DEF TypeOK
  <2>5. exposed' \in BOOLEAN
    BY <1>1, <1>7 DEF TypeOK
  <2>6. /\ phase' \in {"none", "running", "crashed", "ended", "refused"}
        /\ option' \in {"new", "load", "recover"}
        /\ MhDraws' \in Seq(Row)
        /\ LastFileNumber' \in Int /\ LastLineNumber' \in Int
        /\ nruns' \in Nat /\ fblck' \in Chains /\ fline' \in Nat
    BY <1>1, <1>19, <1>20 DEF TypeOK
  <2> QED BY <2>1, <2>2, <2>3, <2>4, <2>5, <2>6 DEF TypeOK
<1>24. \A c \in Chains : Len(files'[c]) =< LastFileNumber'
  <2>. SUFFICES ASSUME NEW c \in Chains PROVE Len(files'[c]) =< LastFileNumber
    BY <1>20
  <2>1. CASE c = b
    <3>1. l =< F
      BY <1>1, <1>12, <1>13
    <3>2. Len(fs) =< F
      BY <1>14, <1>17, <3>1
    <3> QED BY <1>13, <1>19, <2>1, <3>2
  <2>2. CASE c # b
    BY <1>1, <1>19, <2>2
  <2> QED BY <2>1, <2>2
<1>25. ASSUME NEW c \in Chains
       PROVE  HasFiles(c)' /\ done'[c] =< nruns' /\ (c >= fblck' /\ done'[c] < nruns' => InStep(c)')
  <2>1. CASE c # b
    <3>1. HasFiles(c) /\ done[c] =< nruns /\ (c >= fblck /\ done[c] < nruns => InStep(c))
      BY <1>1, <1>8 DEF Running
    <3>2. Due(c)' = Due(c)
      BY <1>19, <1>20, <2>1 DEF Due, PreviousFile
    <3>3. HasFiles(c)'
      BY <1>19, <2>1, <3>1, <3>2 DEF HasFiles
    <3>4. InStep(c)' <=> InStep(c)
      <4>1. NextRow(c)' = NextRow(c)
        BY <1>19, <2>1 DEF NextRow
      <4>2. At(NewFile[c])' = At(NewFile[c])
        BY <1>19, <2>1 DEF At
      <4> QED BY <1>19, <1>20, <2>1, <4>1, <4>2 DEF InStep, MinOf
    <3> QED BY <1>19, <2>1, <3>1, <3>3, <3>4
  <2>2. CASE c = b
    <3>1. CASE left = 0
      <4>1. done'[c] = nruns'
        <5>1. d + k = nruns
          BY <1>11, <1>21, <3>1
        <5> QED BY <1>19, <2>2, <5>1
      <4>2. Due(c)' = LastFileNumber
        BY <1>20, <4>1 DEF Due
      <4>3. Len(files'[c]) = LastFileNumber
        BY <1>1, <1>12, <1>14, <1>17, <1>19, <1>22, <2>2, <3>1
      <4> QED BY <1>11, <1>19, <4>1, <4>2, <4>3 DEF HasFiles
    <3>2. CASE left # 0
      <4>1. done'[c] = d + k /\ d + k < nruns /\ d + k # 0 /\ NewFile'[c] = K + 1
        <5>1. d + k < nruns /\ d + k # 0
          BY <1>11, <1>21, <3>2
        <5> QED BY <1>19, <2>2, <3>2, <5>1
      <4>2. ~ (c < fblck)
        <5>1. c \in Int /\ fblck \in Int /\ c >= fblck
          BY <1>1, <1>8, <2>2 DEF TypeOK, Chains
        <5> QED BY <5>1
      <4>3. Due(c)' = K
        BY <1>14, <1>19, <1>21, <4>1, <4>2 DEF Due
      <4>4. Len(files'[c]) >= K /\ (option' # "recover" => Len(files'[c]) = K)
        <5>1. Len(fs) >= K /\ (K >= l => Len(fs) = K)
          BY <1>14, <1>17
        <5>2. option # "recover" => K >= l
          BY <1>9, <1>12, <1>14
        <5> QED BY <1>19, <2>2, <5>1, <5>2
      <4>5. NextRow(c)' = 1
        BY <4>1 DEF NextRow
      <4>6. At(K + 1) = At(K) + MAX_nruns /\ At(NewFile[c])' = At(K + 1) /\ At(K) \in Int
        <5>1. At(K + 1) = At(K) + MAX_nruns /\ At(K) \in Int
          BY AtNext
        <5>2. At(NewFile[c])' = At(K + 1)
          BY <4>1 DEF At
        <5> QED BY <5>1, <5>2
      <4>7. z = MAX_nruns /\ At(K) + r - 1 = Before + d
        <5>1. z = MAX_nruns
          BY <1>8, <1>18, <3>2
        <5> QED BY <1>15, <5>1
      <4>8. At(K + 1) = Before + (d + k)
        <5>1. k = MAX_nruns - r + 1
          BY <1>4, <1>11, <4>7
        <5> QED BY <1>11, <4>6, <4>7, <5>1
      <4>9. At(NewFile[c])' + NextRow(c)' - 1 = Before' + done'[c]
        BY <1>11, <1>20, <1>21, <4>1, <4>5, <4>6, <4>8
      <4>10. InitSizeArray'[c] = MinOf(MAX_nruns, NextRow(c)' - 1 + nruns' - done'[c])
        <5>1. NextRow(c)' - 1 + nruns' - done'[c] = left
          BY <1>11, <1>19, <1>21, <4>1, <4>5
        <5>2. MinOf(left, MAX_nruns) = MinOf(MAX_nruns, left)
          BY <1>11 DEF MinOf
        <5> QED BY <1>19, <2>2, <5>1, <5>2
      <4>11. InStep(c)'
        BY <1>11, <4>5, <4>9, <4>10 DEF InStep
      <4>12. HasFiles(c)'
        BY <4>3, <4>4 DEF HasFiles
      <4> QED BY <1>11, <1>19, <1>21, <4>1, <4>11, <4>12
    <3> QED BY <3>1, <3>2
  <2> QED BY <2>1, <2>2
<1>26. Running'
  <2>1. ~ Stuck'
    BY <1>8, <1>19 DEF Stuck
  <2>2. /\ nruns' = Session'.runs
        /\ option' = "new" => ~ OldMh'
        /\ option' = "load" => OldMh' /\ fline' = PreviousLine' + 1
        /\ option' # "recover" => fblck' = 1
    BY <1>1, <1>19, <1>20 DEF Running
  <2>3. option' = "recover" /\ ~ exposed' => fline' = 1
    BY <1>1, <1>19 DEF Running
  <2> QED BY <1>25, <2>1, <2>2, <2>3 DEF Running
<1>27. ASSUME NEW c \in Chains, NEW j \in 1 .. Len(files'[c]) PROVE Held(c, j)'
  <2>1. CASE c # b
    <3>1. Held(c, j) /\ files'[c] = files[c] /\ (exposed => exposed')
      BY <1>1, <1>19, <2>1
    <3>2. Limit(c)' = Limit(c)
      BY <1>1, <1>19, <1>20, <2>1 DEF Limit
    <3> QED BY <1>20, <3>1, <3>2, HeldStays
  <2>2. CASE c = b /\ j # K
    <3>1. j \in 1 .. l /\ files'[c][j] = files[c][j] /\ Held(c, j)
      <4>1. Len(fs) =< l + 1 /\ (Len(fs) = l + 1 => K = l + 1) /\ Len(fs) \in Nat
        BY <1>17
      <4>2. j \in 1 .. l
        BY <1>19, <2>2, <4>1
      <4> QED BY <1>1, <1>12, <1>17, <1>19, <2>2, <4>2
    <3>2. Limit(c)' = Total
      <4>1. done'[c] # 0
        BY <1>19, <1>21, <2>2
      <4> QED BY <1>20, <4>1 DEF Limit
    <3>3. Room(c, j)' = Room(c, j)
      <4>1. CASE Limit(c) = Total
        BY <3>2, <4>1 DEF Room, At
      <4>2. CASE Limit(c) # Total
        <5>1. Limit(c) = Before /\ option = "load" /\ d = 0
          BY <1>6, <2>2, <4>2 DEF Limit
        <5>2. LoadsOldFile(b)
          <6>1. fline = PreviousLine + 1
            BY <1>1, <5>1 DEF Running
          <6> QED BY <1>6, <1>11, <5>1, <6>1 DEF LoadsOldFile
        <5>3. K = l /\ j < K /\ K = PreviousFile
          BY <1>8, <1>12, <1>14, <2>2, <3>1, <5>2
        <5>4. j \in Int /\ K \in Int
          BY <3>1
        <5>5. At(j) + MAX_nruns =< At(K) /\ At(j) \in Int
          BY <5>3, <5>4, AtGrows, AtNext
        <5>6. At(K) =< Before /\ Before =< Total /\ At(K) \in Int
          BY <1>11, <5>3, SMTT(30)
        <5>7. MinOf(MAX_nruns, Before - At(j)) = MAX_nruns
              /\ MinOf(MAX_nruns, Total - At(j)) = MAX_nruns
          <6>1. PICK u \in Int, v \in Int : u = Before - At(j) /\ v = Total - At(j)
            <7>1. Before \in Int /\ Total \in Int /\ At(j) \in Int
              BY <1>11, <5>5
            <7> QED BY <7>1
          <6>2. MAX_nruns =< u /\ MAX_nruns =< v
            <7>1. /\ Before \in Int /\ Total \in Int /\ MAX_nruns \in Int /\ At(j) \in Int
                  /\ At(j) + MAX_nruns =< Before /\ Before =< Total
              <8>1. Before \in Int /\ Total \in Int /\ MAX_nruns \in Int
                BY <1>11
              <8>2. At(j) \in Int /\ At(K) \in Int /\ At(j) + MAX_nruns =< At(K)
                    /\ At(K) =< Before /\ Before =< Total
                BY <5>5, <5>6
              <8> QED BY <8>1, <8>2
            <7> QED BY <6>1, <7>1
          <6>3. MinOf(MAX_nruns, u) = MAX_nruns /\ MinOf(MAX_nruns, v) = MAX_nruns
            BY <1>11, <6>2, SMTT(30) DEF MinOf
          <6> QED BY <6>1, <6>3
        <5> QED BY <3>2, <5>1, <5>7 DEF Room, At
      <4> QED BY <4>1, <4>2
    <3>4. /\ Len(files[c][j]) =< Room(c, j)
          /\ ~ exposed => /\ Len(files[c][j]) = Room(c, j)
                          /\ \A i \in 1 .. Room(c, j) : files[c][j][i] = AllDraws[At(j) + i]
      BY <3>1 DEF Held
    <3> QED BY <1>19, <1>20, <3>1, <3>3, <3>4 DEF Held, At
  <2>3. CASE c = b /\ j = K
    <3>1. files'[c][j] = x
      BY <1>17, <1>19, <2>3
    <3>2. Limit(c)' = Total
      <4>1. done'[c] # 0
        BY <1>19, <1>21, <2>3
      <4> QED BY <1>20, <4>1 DEF Limit
    <3>3. Room(c, j)' = z
      <4>1. Room(c, j)' = MinOf(MAX_nruns, Total - At(K))
        BY <2>3, <3>2 DEF Room, At
      <4>2. Total - At(K) = r - 1 + nruns - d
        BY <1>15
      <4> QED BY <1>10, <4>1, <4>2
    <3>4. ASSUME ~ exposed, NEW i \in 1 .. z PROVE x[i] = AllDraws[At(K) + i]
      <4>1. CASE i >= r
        <5>1. PICK g \in 1 .. nruns : g = d + i - r + 1
          <6>1. k \in 1 .. t - d
            BY <1>8, <1>15
          <6>2. d + i - r + 1 \in 1 .. t
            BY <1>4, <4>1, <6>1
          <6> QED BY <1>15, <6>2
        <5>2. x[i] = <<Len(MhDraws), g>>
          BY <1>8, <4>1, <5>1 DEF Drawn
        <5>3. At(K) + i = Before + g
          BY <1>15, <5>1
        <5>4. AllDraws[Before + g] = <<Len(MhDraws), g>>
          BY <1>1, <1>9, <5>1 DEF Recorded
        <5> QED BY <5>2, <5>3, <5>4
      <4>2. CASE i < r
        <5>1. d = 0 /\ K = PreviousFile /\ r = PreviousLine + 1
          BY <1>8, <1>10, <1>14, <4>2
        <5>2. option # "recover"
          <6>1. fline = r
            BY <1>2, <1>6, <5>1 DEF NextRow
          <6>2. fline # 1
            BY <1>8, <4>2, <6>1
          <6> QED BY <1>1, <3>4, <6>2 DEF Running
        <5>3. LoadsOldFile(b)
          BY <1>10, <1>14, <5>1, <5>2
        <5>4. Held(b, K) /\ K \in 1 .. l
          BY <1>1, <1>8, <1>12, <1>14, <5>3
        <5>5. Limit(b) = Before
          BY <1>1, <1>6, <5>1, <5>3 DEF Limit, LoadsOldFile
        <5>6. Room(b, K) = PreviousLine
          <6>1. Before - At(K) = PreviousLine
            BY <1>11, <5>1
          <6>2. MinOf(MAX_nruns, PreviousLine) = PreviousLine
            BY <1>11 DEF MinOf
          <6> QED BY <5>5, <6>1, <6>2 DEF Room
        <5>7. /\ Len(files[b][K]) = PreviousLine
              /\ \A q \in 1 .. PreviousLine : files[b][K][q] = AllDraws[At(K) + q]
          BY <3>4, <5>4, <5>6 DEF Held
        <5>8. i \in 1 .. PreviousLine
          BY <1>8, <1>11, <4>2, <5>1
        <5>9. x[i] = files[b][K][i]
          BY <1>8, <1>14, <5>3, <5>7, <5>8
        <5> QED BY <5>7, <5>8, <5>9
      <4> QED BY <1>8, <4>1, <4>2
    <3>5. Len(files'[c][j]) =< Room(c, j)'
      BY <1>8, <3>1, <3>3
    <3>6. ASSUME ~ exposed'
          PROVE  /\ Len(files'[c][j]) = Room(c, j)'
                 /\ \A i \in 1 .. Room(c, j)' : files'[c][j][i] = AllDraws'[At(j) + i]
      <4>1. ~ exposed
        BY <1>19, <3>6
      <4> QED BY <1>8, <1>20, <2>3, <3>1, <3>3, <3>4, <4>1
    <3> QED BY <3>5, <3>6 DEF Held, At
  <2> QED BY <2>1, <2>2, <2>3
<1> QED BY <1>19, <1>20, <1>23, <1>24, <1>26, <1>27 DEF IInv

\* Every step keeps the invariant.
LEMMA NextKeeps == ASSUME IInv, [Next]_vars PROVE IInv'
<1>1. ASSUME NEW runs \in Replics, NEW par \in BOOLEAN, StartNew(runs, par) PROVE IInv'
  BY <1>1, StartNewKeeps
<1>2. ASSUME NEW runs \in Replics, NEW par \in BOOLEAN, StartLoad(runs, par) PROVE IInv'
  BY <1>2, StartLoadKeeps
<1>3. CASE Recover
  BY <1>3, RecoverKeeps
<1>4. CASE Refuse
  BY <1>4, RefuseKeeps
<1>5. CASE Crash
  BY <1>5, CrashKeeps DEF Crash
<1>6. CASE End
  BY <1>6, EndKeeps
<1>7. ASSUME NEW b \in Chains, Advance(b) PROVE IInv'
  BY <1>7, AdvanceKeeps
<1>8. ASSUME NEW b \in Chains, LoadFails(b) PROVE IInv'
  <2>1. /\ phase = "running" /\ phase' = "crashed" /\ exposed' = (exposed \/ SharesAFile)
        /\ UNCHANGED <<files, disk, session, chain>>
    BY <1>8 DEF LoadFails, Runs
  <2> QED BY <2>1, CrashKeeps
<1>9. CASE UNCHANGED vars
  <2>1. /\ UNCHANGED <<files, disk, session, chain>> /\ phase' = phase /\ exposed' = exposed
    BY <1>9 DEF vars
  <2>2. /\ UNCHANGED <<MhDraws, LastFileNumber, LastLineNumber>>
        /\ UNCHANGED <<option, nruns, fblck, fline, NewFile, InitSizeArray, done>>
    BY <2>1 DEF disk, session, chain
  <2>3. TypeOK'
    <3>1. /\ TypeOK /\ exposed' \in BOOLEAN
      BY <2>1 DEF IInv, TypeOK
    <3> QED BY <2>1, <2>2, <3>1 DEF TypeOK
  <2>4. CASE phase = "none"
    BY <2>1, <2>2, <2>3, <2>4 DEF IInv
  <2>5. CASE phase # "none"
    <3>1. /\ Recorded' /\ AllDraws' = AllDraws /\ Total' = Total /\ Before' = Before
          /\ PreviousFile' = PreviousFile /\ PreviousLine' = PreviousLine
          /\ Session' = Session /\ OldMh' = OldMh /\ SharesAFile' = SharesAFile
          /\ LastFileNumber' = LastFileNumber
      BY <2>2, <2>5, SameRecord DEF IInv
    <3>2. ASSUME NEW b \in Chains, NEW k \in 1 .. Len(files[b]) PROVE Held(b, k)'
      <4>1. Limit(b)' = Limit(b)
        BY <2>1, <2>2, <3>1 DEF Limit
      <4>2. Held(b, k) /\ files'[b] = files[b] /\ (exposed => exposed')
        BY <2>1, <2>5 DEF IInv
      <4> QED BY <3>1, <4>1, <4>2, HeldStays
    <3>3. Running => Running'
      <4>1. Stuck' <=> Stuck
        BY <2>2 DEF Stuck
      <4>2. ASSUME NEW b \in Chains PROVE HasFiles(b)' <=> HasFiles(b)
        <5>1. Due(b)' = Due(b)
          BY <2>2, <3>1 DEF Due, PreviousFile
        <5> QED BY <2>1, <2>2, <5>1 DEF HasFiles
      <4>3. ASSUME NEW b \in Chains PROVE InStep(b)' <=> InStep(b)
        <5>1. NextRow(b)' = NextRow(b) /\ At(NewFile[b])' = At(NewFile[b])
          BY <2>2 DEF NextRow, At
        <5> QED BY <2>2, <3>1, <5>1 DEF InStep, MinOf
      <4> QED BY <2>1, <2>2, <3>1, <4>1, <4>2, <4>3 DEF Running, PreviousFile
    <3>4. (Crashed => Crashed') /\ (Complete => Complete')
      BY <2>1, <2>2, <3>1 DEF Crashed, Complete, PreviousFile
    <3> QED BY <2>1, <2>2, <2>3, <2>5, <3>1, <3>2, <3>3, <3>4 DEF IInv
  <2> QED BY <2>4, <2>5
<1> QED BY <1>1, <1>2, <1>3, <1>4, <1>5, <1>6, <1>7, <1>8, <1>9 DEF Next

\* What the record and the files hold, and where the chains are, follows from the record
\* of the sessions, whatever sessions, crashes and recoveries there have been.
THEOREM Invariance == Spec => []IInv
<1>1. IInv /\ [Next]_vars => IInv'
  BY NextKeeps
<1> QED BY InitEstablishes, <1>1, PTL DEF Spec

-------------------------------------------------------------------------------
(***************************************************************************)
(* The files of sessions that have ended                                   *)
(***************************************************************************)

\* A file that is followed by others has all its rows; the last one has the rest.
LEMMA RoomOf ==
    ASSUME TypeOK, Recorded, NEW b \in Chains, Limit(b) = Total, NEW k \in 1 .. LastFileNumber
    PROVE  Room(b, k) = IF k < LastFileNumber THEN MAX_nruns ELSE LastLineNumber
<1>1. PICK F \in Nat, m \in Nat, T \in Nat, e \in Int, n \in Int :
         /\ F = LastFileNumber /\ m = MAX_nruns /\ T = Total /\ e = At(F) /\ T = e + n
         /\ n = LastLineNumber /\ n \in 1 .. m
  BY RecordNumbers
<1>2. k \in Int /\ At(k) \in Int
  BY <1>1, AtNext
<1>3. PICK a \in Int : a = At(k)
  BY <1>2
<1>4. Room(b, k) = MinOf(m, T - a)
  BY <1>1, <1>3 DEF Room
<1>5. CASE k < LastFileNumber
  <2>1. a + m =< e
    BY <1>1, <1>2, <1>3, <1>5, AtGrows
  <2> QED BY <1>1, <1>4, <1>5, <2>1 DEF MinOf
<1>6. CASE ~ (k < LastFileNumber)
  <2>1. a = e
    BY <1>1, <1>2, <1>3, <1>6
  <2> QED BY <1>1, <1>4, <1>6, <2>1 DEF MinOf
<1> QED BY <1>5, <1>6

\* A chain that has all its files and is not exposed has the rows of all the sessions.
LEMMA AllRows ==
    ASSUME IInv, phase # "none", ~ exposed,
           NEW b \in Chains, Limit(b) = Total, Len(files[b]) = LastFileNumber
    PROVE  Rows(b) = AllDraws
<1>1. TypeOK /\ Recorded /\ \A k \in 1 .. Len(files[b]) : Held(b, k)
  BY DEF IInv
<1>2. files[b] \in Seq(Seq(Draw)) /\ AllDraws \in Seq(Draw)
  BY <1>1, RecordNumbers DEF TypeOK
<1>3. PICK F \in Nat \ {0}, m \in Nat \ {0}, n \in Int :
         /\ F = LastFileNumber /\ m = MAX_nruns /\ n = LastLineNumber /\ n \in 1 .. m
         /\ Total = At(F) + n
  <2>1. /\ LastFileNumber \in Nat \ {0} /\ MAX_nruns \in Nat \ {0} /\ LastLineNumber \in Int
        /\ LastLineNumber \in 1 .. MAX_nruns /\ Total = At(LastFileNumber) + LastLineNumber
    BY <1>1, RecordNumbers DEF TypeOK
  <2> QED BY <2>1
<1>4. PICK ss : ss = files[b]
  OBVIOUS
<1>5. ss \in Seq(Seq(Draw)) /\ Len(ss) = F
  BY <1>2, <1>3, <1>4
<1>. DEFINE at == [k \in Int |-> At(k)]
<1>6. ASSUME NEW k \in 1 .. F
      PROVE  /\ Len(ss[k]) = IF k < F THEN m ELSE n
             /\ \A i \in 1 .. Len(ss[k]) : ss[k][i] = AllDraws[at[k] + i]
  <2>1. Held(b, k) /\ k \in Int
    BY <1>1, <1>3
  <2>2. Room(b, k) = IF k < F THEN m ELSE n
    BY <1>1, <1>3, RoomOf
  <2>3. Len(ss[k]) = Room(b, k) /\ \A i \in 1 .. Room(b, k) : ss[k][i] = AllDraws[At(k) + i]
    BY <1>4, <2>1 DEF Held
  <2> QED BY <2>1, <2>2, <2>3
<1>7. Pieces(ss, AllDraws, at)
  <2>1. at[1] = 0
    BY AtNext
  <2>2. ASSUME NEW k \in 1 .. F - 1 PROVE at[k + 1] = at[k] + Len(ss[k])
    <3>1. k \in Int /\ k + 1 \in Int /\ k \in 1 .. F /\ k < F
      BY <1>3
    <3>2. at[k] = At(k) /\ at[k + 1] = At(k + 1) /\ At(k + 1) = At(k) + m
      BY <1>3, <3>1, AtNext
    <3> QED BY <1>6, <3>1, <3>2
  <2>. HIDE DEF at
  <2> QED BY <1>5, <1>6, <2>1, <2>2 DEF Pieces
<1>8. at[Len(ss)] + Len(ss[Len(ss)]) = Len(AllDraws)
  <2>1. F \in 1 .. F /\ at[F] = At(F)
    BY <1>3
  <2>2. Len(ss[F]) = n
    BY <1>3, <1>6, <2>1
  <2> QED BY <1>3, <1>5, <2>1, <2>2 DEF Total
<1>9. FlattenSeq(ss) = AllDraws
  <2>. HIDE DEF at
  <2> QED BY <1>2, <1>3, <1>5, <1>7, <1>8, FlattenPieces
<1> QED BY <1>4, <1>9 DEF Rows

\* Where nothing was lost in a file that sessions share, the numbers in the history are
\* those of the files: CutSample and the readers of the draws may compute with them.
THEOREM RecordMatchesFilesAlways == Spec => []RecordMatchesFiles
<1>1. ASSUME IInv, phase = "ended", ~ exposed
      PROVE  /\ LastFileNumber = ExpectedNumberOfMhFilesPerBlock
             /\ \A b \in Chains :
                    /\ Len(files[b]) = LastFileNumber
                    /\ Len(Last(files[b])) = LastLineNumber
                    /\ \A k \in 1 .. LastFileNumber - 1 : Len(files[b][k]) = MAX_nruns
  <2>1. /\ TypeOK /\ Recorded /\ Complete
        /\ \A b \in Chains : \A k \in 1 .. Len(files[b]) : Held(b, k)
    BY <1>1 DEF IInv
  <2>2. LastFileNumber = ExpectedNumberOfMhFilesPerBlock /\ LastFileNumber \in Nat \ {0}
    BY <2>1, RecordNumbers DEF Recorded, ExpectedNumberOfMhFilesPerBlock
  <2>3. ASSUME NEW b \in Chains
        PROVE  /\ Len(files[b]) = LastFileNumber
               /\ Len(Last(files[b])) = LastLineNumber
               /\ \A k \in 1 .. LastFileNumber - 1 : Len(files[b][k]) = MAX_nruns
    <3>1. Len(files[b]) = LastFileNumber
      BY <2>1 DEF Complete
    <3>2. Limit(b) = Total
      BY <1>1 DEF Limit
    <3>3. ASSUME NEW k \in 1 .. LastFileNumber
          PROVE  Len(files[b][k]) = IF k < LastFileNumber THEN MAX_nruns ELSE LastLineNumber
      <4>1. Room(b, k) = IF k < LastFileNumber THEN MAX_nruns ELSE LastLineNumber
        BY <2>1, <3>2, RoomOf
      <4>2. Held(b, k)
        BY <2>1, <3>1
      <4> QED BY <1>1, <4>1, <4>2 DEF Held
    <3>4. PICK F \in Nat \ {0} : F = LastFileNumber
      BY <2>2
    <3>5. F \in 1 .. F /\ ~ (F < F) /\ \A k \in 1 .. F - 1 : k \in 1 .. F /\ k < F
      OBVIOUS
    <3>6. Last(files[b]) = files[b][F]
      BY <3>1, <3>4 DEF Last
    <3> QED BY <3>1, <3>3, <3>4, <3>5, <3>6
  <2> QED BY <2>2, <2>3
<1>2. IInv => RecordMatchesFiles
  BY <1>1 DEF RecordMatchesFiles
<1> QED BY Invariance, <1>2, PTL

\* Sessions that have ended have left each of their draws once and in order, through
\* crashes and recoveries, and a recovery is refused only when nothing is missing.
THEOREM SessionsCompleteAlways == Spec => []SessionsComplete
<1>1. ASSUME IInv, phase \in {"ended", "refused"}, ~ exposed, NEW b \in Chains
      PROVE  Rows(b) = AllDraws
  <2>1. Limit(b) = Total
    BY <1>1 DEF Limit
  <2>2. Len(files[b]) = LastFileNumber /\ phase # "none"
    BY <1>1 DEF IInv, Complete
  <2> QED BY <1>1, <2>1, <2>2, AllRows
<1>2. IInv => SessionsComplete
  BY <1>1 DEF SessionsComplete
<1> QED BY Invariance, <1>2, PTL

\* mh_recover leaves no chain out that has draws to make.
THEOREM RecoversEveryChainAlways == Spec => []RecoversEveryChain
<1>1. ASSUME IInv, phase = "running", option = "recover", ~ exposed, NEW b \in 1 .. fblck - 1
      PROVE  Rows(b) = AllDraws
  <2>1. TypeOK /\ Recorded /\ Running /\ \A c \in Chains : Len(files[c]) =< LastFileNumber
    BY <1>1 DEF IInv
  <2>2. b \in Chains /\ b < fblck
    <3>1. fblck \in Chains /\ nblck \in Nat
      BY <2>1, ConstantsAssumption DEF TypeOK
    <3>2. fblck \in 1 .. nblck /\ b \in 1 .. nblck /\ b < fblck
      BY <3>1 DEF Chains
    <3> QED BY <3>2 DEF Chains
  <2>3. Len(files[b]) = LastFileNumber
    BY <2>1, <2>2, ChainFiles
  <2>4. Limit(b) = Total /\ phase # "none"
    BY <1>1 DEF Limit
  <2> QED BY <1>1, <2>2, <2>3, <2>4, AllRows
<1>2. IInv => RecoversEveryChain
  BY <1>1 DEF RecoversEveryChain
<1> QED BY Invariance, <1>2, PTL

\* What a session that recovers nothing saves next goes after the rows that are there,
\* or into the last file with the rows it had.
LEMMA SaveKeepsRows ==
    ASSUME IInv, option # "recover", NEW b \in Chains, Advance(b), NEW c \in Chains
    PROVE  IsPrefix(Rows(c), Rows(c)')
<1>1. /\ TypeOK /\ Recorded /\ Running /\ Runs(b) /\ Len(files[b]) =< LastFileNumber
      /\ LoadsOldFile(b) => NewFile[b] \in DOMAIN files[b]
  BY DEF IInv, Advance, Runs
<1>2. PICK r : r = NextRow(b)
  OBVIOUS
<1>3. PICK k : k = InitSizeArray[b] - r + 1
  OBVIOUS
<1>4. PICK x : x = WithDraws(b, r, k)
  OBVIOUS
<1>5. /\ files' = [files EXCEPT ![b] = Written(files[b], NewFile[b], x)]
      /\ k = MinOf(InitSizeArray[b] - r + 1, nruns - done[b])
  BY <1>2, <1>3, <1>4, AdvancedChain
<1>6. /\ ~ Stuck /\ b >= fblck /\ done[b] < nruns /\ x \in Seq(Draw)
      /\ r \in 1 .. MAX_nruns /\ InitSizeArray[b] \in r .. MAX_nruns /\ Len(x) = InitSizeArray[b]
  BY <1>1, <1>2, <1>4, <1>5, SavedRows
<1>7. LoadsOldFile(b) =>
         /\ NewFile[b] = Len(files[b]) /\ Len(files[b][NewFile[b]]) =< r - 1
         /\ \A i \in 1 .. Len(files[b][NewFile[b]]) : x[i] = files[b][NewFile[b]][i]
  BY <1>1, <1>2, <1>4, <1>5, SavedRows
<1>8. PICK ss \in Seq(Seq(Draw)) : ss = files[b]
  BY <1>1 DEF TypeOK
<1>9. files \in [Chains -> Seq(Seq(Draw))]
  BY <1>1 DEF TypeOK
<1>10. NewFile[b] = Len(ss) + 1 \/ (LoadsOldFile(b) /\ NewFile[b] = Len(ss))
  BY <1>1, <1>6, <1>8, ChainFiles
<1>11. CASE c # b
  <2>1. Rows(c)' = Rows(c)
    BY <1>5, <1>9, <1>11 DEF Rows
  <2>2. Rows(c) \in Seq(Draw)
    BY <1>9, FlattenType DEF Rows
  <2> QED BY <2>1, <2>2, PrefixReflexive
<1>12. CASE c = b /\ NewFile[b] = Len(ss) + 1
  <2>1. NewFile[b] \in 1 .. Len(ss) + 1
    BY <1>12, Len(ss) \in Nat
  <2>2. Written(ss, NewFile[b], x) = Append(ss, x)
    BY <1>6, <1>12, <2>1, WrittenFiles
  <2>3. Rows(c)' = FlattenSeq(Append(ss, x)) /\ Rows(c) = FlattenSeq(ss)
    BY <1>5, <1>8, <1>9, <1>12, <2>2 DEF Rows
  <2> QED BY <1>6, <2>3, FlattenAppendPrefix
<1>13. CASE c = b /\ LoadsOldFile(b) /\ NewFile[b] = Len(ss)
  <2>1. Len(ss) \in Nat \ {0}
    BY <1>1, <1>8, <1>13
  <2>2. NewFile[b] \in 1 .. Len(ss) + 1 /\ NewFile[b] # Len(ss) + 1
    BY <1>13, <2>1
  <2>3. Written(ss, NewFile[b], x) = [ss EXCEPT ![Len(ss)] = x]
    BY <1>6, <1>13, <2>2, WrittenFiles
  <2>4. Rows(c)' = FlattenSeq([ss EXCEPT ![Len(ss)] = x]) /\ Rows(c) = FlattenSeq(ss)
    BY <1>5, <1>8, <1>9, <1>13, <2>3 DEF Rows
  <2>5. Len(ss[Len(ss)]) =< Len(x) /\ \A i \in 1 .. Len(ss[Len(ss)]) : ss[Len(ss)][i] = x[i]
    <3>1. Len(ss[Len(ss)]) \in Int
      BY <2>1
    <3> QED BY <1>6, <1>7, <1>8, <1>13, <3>1
  <2> QED BY <1>6, <2>1, <2>4, <2>5, FlattenExtendPrefix
<1> QED BY <1>10, <1>11, <1>12, <1>13

\* load_mh_file "tells Dynare to add to previous simulations": no row that was saved is
\* changed or dropped until something is recovered.
THEOREM OldDrawsStayAlways == Spec => OldDrawsStay
<1>1. ASSUME IInv, [Next]_vars, phase = "running", option # "recover", NEW b \in Chains
      PROVE  IsPrefix(Rows(b), Rows(b)')
  <2>1. CASE UNCHANGED files
    <3>1. files[b] \in Seq(Seq(Draw)) /\ Rows(b)' = Rows(b)
      BY <1>1, <2>1 DEF IInv, TypeOK, Rows
    <3>2. Rows(b) \in Seq(Draw)
      BY <3>1, FlattenType DEF Rows
    <3> QED BY <3>1, <3>2, PrefixReflexive
  <2>2. CASE \E c \in Chains : Advance(c)
    BY <1>1, <2>2, SaveKeepsRows
  <2>3. UNCHANGED files \/ \E c \in Chains : Advance(c)
    BY <1>1 DEF Next, vars, StartNew, StartLoad, Recover, Refuse, Crash, End, LoadFails
  <2> QED BY <2>1, <2>2, <2>3
<1>2. IInv /\ [Next]_vars => [phase = "running" /\ option # "recover"
                               => \A b \in Chains : IsPrefix(Rows(b), Rows(b)')]_vars
  BY <1>1
<1> QED BY Invariance, <1>2, PTL DEF Spec, OldDrawsStay

===============================================================================
