----------------------------- MODULE MCPrograms -----------------------------
(***************************************************************************)
(* Programs that hand work to others, one of them per behaviour: the rest  *)
(* stay in an initial state of theirs.                                     *)
(***************************************************************************)
EXTENDS HttpClientPool, AsyncCrawler, MpFileProcess, RpcTraining

CONSTANT Responses      \* UrlFinder

VARIABLES
    program,            \* the program that runs
    finder, browser, link, handler, found_url, attempts, url

finderVars == <<finder, browser, link, handler, found_url, attempts, url>>

Finder == INSTANCE UrlFinder WITH pc <- finder

\* The domains are interchangeable: the first task is in a fixed one.  A program that does
\* not run stays in an initial state of its own.
FirstDomain == domain[1] = CHOOSE d \in Domain : TRUE
IdleCrawler == program # "crawler" => \A t \in Task : domain[t] = domain[1]
IdleFile == program # "file" => kind = <<>>
IdleTraining == program # "training" => test = "dlrm" /\ ddp_mode = "none"

ProgramsInit ==
    /\ program \in {"pool", "crawler", "file", "training", "finder"}
    /\ Init
    /\ CrawlerInit /\ FirstDomain /\ IdleCrawler
    /\ FileInit /\ IdleFile
    /\ TrainingInit /\ IdleTraining
    /\ Finder!Init

RunPool ==
    /\ program = "pool" /\ Next
    /\ UNCHANGED <<program, crawlerVars, fileVars, trainingVars, finderVars>>
RunCrawler ==
    /\ program = "crawler" /\ CrawlerNext
    /\ UNCHANGED <<program, vars, fileVars, trainingVars, finderVars>>
RunFile ==
    /\ program = "file" /\ FileNext
    /\ UNCHANGED <<program, vars, crawlerVars, trainingVars, finderVars>>
RunTraining ==
    /\ program = "training" /\ TrainingNext
    /\ UNCHANGED <<program, vars, crawlerVars, fileVars, finderVars>>
RunFinder ==
    /\ program = "finder" /\ Finder!Next
    /\ UNCHANGED <<program, vars, crawlerVars, fileVars, trainingVars>>

ProgramsNext == RunPool \/ RunCrawler \/ RunFile \/ RunTraining \/ RunFinder

programsVars == <<program, vars, crawlerVars, fileVars, trainingVars, finderVars>>

\* The fairness of each module, for the program that runs.
PoolFairness ==
    /\ WF_vars(program = "pool" /\ Start)
    /\ WF_vars(program = "pool" /\ WaitReturns)
    /\ WF_vars(program = "pool" /\ StopReturns)
    /\ \A i \in Item : SF_vars(program = "pool" /\ Send(i))
    /\ \A w \in Worker : WF_vars(program = "pool" /\ WorkerStep(w))

CrawlerFairness ==
    /\ WF_crawlerVars(program = "crawler" /\ Generator)
    /\ WF_crawlerVars(program = "crawler" /\ Resume)
    /\ \A t \in Task : WF_crawlerVars(program = "crawler" /\ CrawlCompletes(t))

FileFairness ==
    /\ WF_fileVars(program = "file" /\ Main)
    /\ WF_fileVars(program = "file" /\ ReporterEnds)
    /\ \A p \in Procs : WF_fileVars(program = "file" /\ (Process(p) \/ WorkerEnds(p)))

TrainingFairness ==
    /\ WF_trainingVars(program = "training" /\ Master)
    /\ \A m \in {"em", "net"} : WF_trainingVars(program = "training" /\ Construct(m))
    /\ \A t \in AllTrainers : WF_trainingVars(program = "training" /\ t \in Trainers /\ Constructor(t))
    /\ \A t \in AllTrainers, e \in 0 .. NumEpochs - 1 :
         WF_trainingVars(program = "training" /\ t \in Trainers /\ e \in Epoch /\ Work(t, e))

ProgramsSpec ==
    /\ ProgramsInit /\ [][ProgramsNext]_programsVars
    /\ PoolFairness /\ CrawlerFairness /\ FileFairness /\ TrainingFairness
    /\ WF_finderVars(program = "finder" /\ Finder!Program)

-----------------------------------------------------------------------------
ProgramsTypeOK == TypeOK /\ CrawlerTypeOK /\ FileTypeOK /\ TrainingTypeOK /\ Finder!TypeOK

\* The crawler yields every task and ends, unless it is abandoned; run() of the file
\* program returns; the master of the training gets all its answers; the finder of the URL
\* returns what was found in time.
ProgramsEnd ==
    <> /\ program = "crawler" =>
             abandons > 0 \/ (generator = "end" /\ \A t \in Task : place[t] = "yielded")
       /\ program = "file" => main = "end"
       /\ program = "training" => master = "done"
       /\ program = "finder" => finder = "done" /\ Finder!FoundIsReturned
=============================================================================
