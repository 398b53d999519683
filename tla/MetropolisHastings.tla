-------------------------- MODULE MetropolisHastings --------------------------
(***************************************************************************)
(* The files of a Metropolis-Hastings simulation and what becomes of them  *)
(* over several sessions (matlab/metropolis_hastings_initialization.m,     *)
(* random_walk_metropolis_hastings.m, ..._core.m).                         *)
(*                                                                         *)
(* A session draws mh_replic parameter vectors in each of nblck chains and *)
(* saves them in files of MAX_nruns rows, mh<k>_blck<b>.mat.  The history  *)
(* file mh_history.mat says how many files and rows there are; it is saved *)
(* when a session begins, with what the session is going to do, and when   *)
(* it ends.  A later session starts anew, adds draws to the files          *)
(* (load_mh_file), or takes up one that has crashed (mh_recover).          *)
(*                                                                         *)
(* A draw is <<session, number in the session>>.  Nothing but files        *)
(* survives a crash, so that the draws between two saves are one step.     *)
(* Not modelled: the values drawn, the log, the random seeds.              *)
(***************************************************************************)
EXTENDS Integers, Functions, SequencesExt

CONSTANTS nblck,        \* number of chains
          MAX_nruns,    \* rows of a full file
          Replics,      \* values of mh_replic
          MaxSessions,  \* bound: sessions in one history
          MaxCrashes    \* bound: crashes in one history

ASSUME ConstantsAssumption ==
    /\ {nblck, MAX_nruns, MaxSessions} \subseteq Nat \ {0}
    /\ Replics \subseteq Nat \ {0}
    /\ MaxCrashes \in Nat

Chains == 1 .. nblck

VARIABLES phase,          \* what the last session did
          option,         \* "new", "load" (load_mh_file) or "recover" (mh_recover)
          parallel,       \* the chains are distributed by masterParallel
          files,          \* files[b][k] is the sequence of the rows of mh<k>_blck<b>
          MhDraws,        \* record.MhDraws on disk, one row per session
          LastFileNumber, LastLineNumber, LastParameters,  \* of the record on disk
          nruns, fblck, fline,                             \* of the session
          NewFile, InitSizeArray, ix2, done,               \* per chain; done: draws
          last,           \* LastParameters of the record in memory
          crashes,
          exposed         \* a session crashed that shares a file with an earlier one

disk == <<MhDraws, LastFileNumber, LastLineNumber, LastParameters>>
session == <<option, parallel, nruns, fblck, fline>>
chain == <<NewFile, InitSizeArray, ix2, done, last>>
vars == <<phase, files, disk, session, chain, crashes, exposed>>

\* A row of zeros, as x2 and LastParameters are initialised, and InitialParameters.
Zero == <<0, 0>>
Initial == <<0, 1>>

MinOf(x, y) == IF x < y THEN x ELSE y
Ceil(x) == (x + MAX_nruns - 1) \div MAX_nruns

\* All the rows of chain b, file after file.
Rows(b) == FlattenSeq(files[b])

Init == /\ phase = "none"
        /\ option = "new" /\ parallel = FALSE
        /\ files = [b \in Chains |-> << >>]
        /\ MhDraws = << >> /\ LastFileNumber = 0 /\ LastLineNumber = 0
        /\ LastParameters = [b \in Chains |-> Zero]
        /\ nruns = 0 /\ fblck = 1 /\ fline = 1
        /\ NewFile = [b \in Chains |-> 1]
        /\ InitSizeArray = [b \in Chains |-> 0]
        /\ ix2 = [b \in Chains |-> Zero]
        /\ done = [b \in Chains |-> 0]
        /\ last = [b \in Chains |-> Zero]
        /\ crashes = 0
        /\ exposed = FALSE

-------------------------------------------------------------------------------
(***************************************************************************)
(* The beginning of a session                                              *)
(***************************************************************************)

\* Chains first .. nblck begin at row `line' of file `file', from `from'.  One chain
\* is never run in parallel.
Begin(opt, par, first, runs, file, line, from) ==
    /\ phase' = "running"
    /\ option' = opt /\ parallel' = (par /\ first # nblck)
    /\ fblck' = first /\ nruns' = runs /\ fline' = line
    /\ NewFile' = [b \in Chains |-> file]
    /\ InitSizeArray' = [b \in Chains |-> MinOf(MAX_nruns, line + runs - 1)]
    /\ ix2' = from
    /\ done' = [b \in Chains |-> 0]
    /\ last' = LastParameters'

\* Mutant of LinesInTheLastFile: the rows of a full file are not a remainder.
LinesInTheLastFile_Remainder(rows) == rows % MAX_nruns

\* Rows of the last of the files that take so many rows.
LinesInTheLastFile(rows) == rows - (Ceil(rows) - 1) * MAX_nruns

\* The row of record.MhDraws: `rows' of the draws need new files.
Anticipated(runs, rows) ==
    [runs |-> runs, files |-> Ceil(rows), lines |-> LinesInTheLastFile(rows)]

\* A new simulation: the files of any earlier one are deleted.
StartNew(runs, par) ==
    /\ phase # "running"
    /\ MhDraws' = << Anticipated(runs, runs) >>
    /\ LastFileNumber' = MhDraws'[1].files
    /\ LastLineNumber' = MhDraws'[1].lines
    /\ LastParameters' = [b \in Chains |-> Zero]
    /\ files' = [b \in Chains |-> << >>]
    /\ crashes' = 0
    /\ exposed' = FALSE
    /\ Begin("new", par, 1, runs, 1, 1, [b \in Chains |-> Initial])

\* load_mh_file, for which the user asks after a session that has ended or that he
\* was told needs no recovery: draws are added after the last row of the last file.
StartLoad(runs, par) ==
    /\ phase \in {"ended", "refused"}
    /\ Len(MhDraws) < MaxSessions
    /\ LET row == Anticipated(runs, runs - (MAX_nruns - LastLineNumber))
       IN  /\ MhDraws' = Append(MhDraws, row)
           /\ LastFileNumber' = LastFileNumber + row.files
           /\ LastLineNumber' = row.lines
    /\ UNCHANGED <<LastParameters, files, crashes, exposed>>
    /\ Begin("load", par, 1, runs,
             IF LastLineNumber < MAX_nruns THEN LastFileNumber ELSE LastFileNumber + 1,
             LastLineNumber + 1, LastParameters)

NumberOfFiles(sessions) == SumFunction([k \in DOMAIN sessions |-> sessions[k].files])

OldMh == Len(MhDraws) > 1
LastFileNumberInThePreviousMh == NumberOfFiles(Front(MhDraws))
ExpectedNumberOfMhFilesPerBlock == NumberOfFiles(MhDraws)
LastLineNumberInThePreviousMh ==
    IF OldMh THEN MhDraws[Len(MhDraws) - 1].lines ELSE 0

\* The session began in the middle of a file of the session before.
SharesAFile == OldMh /\ LastLineNumberInThePreviousMh < MAX_nruns

Incomplete(b) == Len(files[b]) < ExpectedNumberOfMhFilesPerBlock
NothingMissing ==
    SumFunction([b \in Chains |-> Len(files[b])]) = ExpectedNumberOfMhFilesPerBlock * nblck

\* Mutant of FirstIncomplete: the search does not stop at the first one.
FirstIncomplete_Last == CHOOSE b \in Chains :
                            Incomplete(b) /\ \A c \in Chains : c > b => ~ Incomplete(c)

FirstIncomplete == CHOOSE b \in Chains :
                       Incomplete(b) /\ \A c \in Chains : c < b => ~ Incomplete(c)

\* mh_recover: the chains that have files missing start again where the session
\* began, the first of them from the last draw it has saved.  (Run serially: what
\* masterParallel does with fblck > 1 is shown in DistributeJobs.)
Recover ==
    /\ phase = "crashed"
    /\ ~ NothingMissing
    /\ UNCHANGED <<disk, files, crashes, exposed>>
    /\ LET first == FirstIncomplete
           from == IF OldMh THEN LastParameters ELSE [b \in Chains |-> Initial]
           saved == Len(files[first])
       IN Begin("recover", FALSE, first, MhDraws[Len(MhDraws)].runs,
                IF SharesAFile THEN LastFileNumberInThePreviousMh
                               ELSE LastFileNumberInThePreviousMh + 1,
                IF SharesAFile THEN LastLineNumberInThePreviousMh + 1 ELSE 1,
                IF saved = 0 THEN from
                ELSE [from EXCEPT ![first] = Last(files[first][saved])])

\* "It appears that you don't need to use the mh_recover option!"
Refuse == /\ phase = "crashed"
          /\ NothingMissing
          /\ phase' = "refused"
          /\ UNCHANGED <<files, disk, session, chain, crashes, exposed>>

-------------------------------------------------------------------------------
(***************************************************************************)
(* The chains                                                              *)
(***************************************************************************)

ThisSession == Len(MhDraws)

\* Chain b is run: serially, after the chains before it.
Runs(b) == /\ phase = "running"
           /\ b \in fblck .. nblck
           /\ done[b] < nruns
           /\ parallel \/ \A c \in fblck .. b - 1 : done[c] = nruns

\* The draws of the session begin in a file that is there already.
LoadsOldFile(b) == option = "load" /\ fline > 1 /\ done[b] = 0

\* Mutant of StartOf: the old file is not loaded.
StartOf_Zeros(b) == [i \in 1 .. InitSizeArray[b] |-> Zero]

\* x2 before the next draw: the old rows and as many zeros as are to be drawn.
StartOf(b) ==
    IF LoadsOldFile(b)
    THEN files[b][NewFile[b]] \o [i \in 1 .. InitSizeArray[b] - fline + 1 |-> Zero]
    ELSE [i \in 1 .. InitSizeArray[b] |-> Zero]

\* x2 after k draws of chain b from row irun on; MATLAB lets it grow.
WithDraws(b, irun, k) ==
    LET x2 == StartOf(b)
    IN  [i \in 1 .. IF irun + k - 1 > Len(x2) THEN irun + k - 1 ELSE Len(x2) |->
            IF i \in irun .. irun + k - 1
            THEN <<ThisSession, done[b] + i - irun + 1>>
            ELSE IF i \in DOMAIN x2 THEN x2[i] ELSE Zero]

\* The file is written over, or is the next one.
Written(fs, k, x2) == IF k \in DOMAIN fs THEN [fs EXCEPT ![k] = x2] ELSE Append(fs, x2)

\* Mutant of NextFile: the next rows are written over the ones just saved.
NextFile_Same(b, left) == NewFile[b]

NextFile(b, left) == IF left = 0 THEN NewFile[b] ELSE NewFile[b] + 1

\* Draws up to the end of the file or of the session, and the save.
SaveFile(b) ==
    LET irun == IF done[b] = 0 THEN fline ELSE 1
        k == MinOf(InitSizeArray[b] - irun + 1, nruns - done[b])
        x2 == WithDraws(b, irun, k)
        left == nruns - done[b] - k
    IN  /\ files' = [files EXCEPT ![b] = Written(@, NewFile[b], x2)]
        /\ ix2' = [ix2 EXCEPT ![b] = x2[irun + k - 1]]
        /\ done' = [done EXCEPT ![b] = @ + k]
        /\ last' = IF left = 0 THEN [last EXCEPT ![b] = Last(x2)] ELSE last
        /\ InitSizeArray' = [InitSizeArray EXCEPT ![b] = MinOf(left, MAX_nruns)]
        /\ NewFile' = [NewFile EXCEPT ![b] = NextFile(b, left)]

Advance(b) == /\ Runs(b)
              /\ LoadsOldFile(b) => NewFile[b] \in DOMAIN files[b]
              /\ SaveFile(b)
              /\ UNCHANGED <<phase, disk, session, crashes, exposed>>

\* The file to be loaded is not there, since the last one was full: load fails.
\* This crash is the program's own and is not counted.
LoadFails(b) == /\ Runs(b)
                /\ LoadsOldFile(b)
                /\ NewFile[b] \notin DOMAIN files[b]
                /\ phase' = "crashed"
                /\ exposed' = (exposed \/ SharesAFile)
                /\ UNCHANGED <<files, disk, session, chain, crashes>>

\* Power, memory, a slave, the user: the session ends at any point.
Crash == /\ phase = "running"
         /\ crashes < MaxCrashes
         /\ crashes' = crashes + 1
         /\ phase' = "crashed"
         /\ exposed' = (exposed \/ SharesAFile)
         /\ UNCHANGED <<files, disk, session, chain>>

\* The record is saved again, with the last draws of the chains that were run.
End == /\ phase = "running"
       /\ \A b \in fblck .. nblck : done[b] = nruns
       /\ phase' = "ended"
       /\ LastParameters' = last
       /\ UNCHANGED <<files, MhDraws, LastFileNumber, LastLineNumber, session, chain,
                      crashes, exposed>>

Next == \/ \E runs \in Replics, par \in BOOLEAN :
               StartNew(runs, par) \/ StartLoad(runs, par)
        \/ Recover \/ Refuse \/ Crash \/ End
        \/ \E b \in Chains : Advance(b) \/ LoadFails(b)

Spec == Init /\ [][Next]_vars

-------------------------------------------------------------------------------
(***************************************************************************)
(* Properties                                                              *)
(***************************************************************************)

\* What the history promised when the session began is what the files hold when it
\* has ended: their number in every chain, full ones, and the rows of the last.
\* CutSample and the readers of the draws compute with these numbers.  (Not after a
\* crash in a file that two sessions share.)
RecordMatchesFiles ==
    phase = "ended" /\ ~ exposed =>
        /\ LastFileNumber = ExpectedNumberOfMhFilesPerBlock
        /\ \A b \in Chains :
               /\ Len(files[b]) = LastFileNumber
               /\ Len(Last(files[b])) = LastLineNumber
               /\ \A k \in 1 .. LastFileNumber - 1 : Len(files[b][k]) = MAX_nruns

\* The rows that the sessions of the history should have left in a chain.
AllDraws == FlattenSeq([s \in DOMAIN MhDraws |-> [j \in 1 .. MhDraws[s].runs |-> <<s, j>>]])

\* Sessions that have ended, through whatever crashes and recoveries, have left each
\* of their draws once and in order in every chain, unless one crashed that shared a
\* file with an earlier one.  A recovery that is refused was not needed.
SessionsComplete ==
    phase \in {"ended", "refused"} /\ ~ exposed => \A b \in Chains : Rows(b) = AllDraws

\* load_mh_file "tells Dynare to add to previous simulations": as long as nothing is
\* recovered a session never changes or drops a row that was saved before it.
OldDrawsStay ==
    [][phase = "running" /\ option # "recover"
       => \A b \in Chains : IsPrefix(Rows(b), Rows(b)')]_vars

\* A recovery leaves alone only chains in which all the rows of the session are.
RecoversEveryChain ==
    phase = "running" /\ option = "recover" /\ ~ exposed =>
        \A b \in 1 .. fblck - 1 : Rows(b) = AllDraws

===============================================================================
