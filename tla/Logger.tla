------------------------------- MODULE Logger -------------------------------
(***************************************************************************)
(* The asynchronous logger (lualib-src/lua-log.c), which the "log" service *)
(* of every process drives (common/log.lua).  The front end is that        *)
(* service's thread: append() copies a line into the current buffer and    *)
(* links a full one into a list, under a mutex.  The back end is the       *)
(* thread of worker_func(): it swaps the list out under the mutex, writes  *)
(* it, rolls the file by size and by day, and hands two buffers back.      *)
(*                                                                         *)
(* Buffers are heap addresses with a `next` pointer, so that a buffer that *)
(* is leaked, linked twice or used after free() shows.  Lines are numbers  *)
(* in the order of acceptance and each has length 1.  A critical section   *)
(* is one action; what the worker does on its own data is one action.      *)
(* The wait on the condition may end at any moment (signal, timeout), so   *)
(* it is the worker staying at "lock".                                     *)
(***************************************************************************)
EXTENDS Naturals, FiniteSets, Sequences, SequencesExt

CONSTANTS
  Buffer,      \* addresses that calloc may return
  None,        \* NULL
  Stdout,      \* the stream used once a file could not be opened
  BufferSize,  \* LOG_BUFFER_SIZE
  Limit,       \* a swapped list longer than this is cut (25 in the code)
  RollSize,    \* inst.rollsize
  MaxLine,     \* bound: lines accepted from the services
  MaxDay,      \* bound: days
  CanFail,     \* whether fopen may fail
  CanStop      \* whether the service is told to stop

Day == 0 .. MaxDay
File == Day \X {0, 1}

\* log_init allocates two buffers before there is a logger to speak of.
ASSUME LoggerAssumption ==
  /\ \E b, c \in Buffer : b # c
  /\ None \notin Buffer \cup File
  /\ Stdout \notin File \cup {None}
  /\ BufferSize \in Nat \ {0, 1}
  /\ Limit \in Nat \ {0, 1}
  /\ RollSize \in Nat \ {0}
  /\ MaxLine \in Nat
  /\ MaxDay \in Nat
  /\ CanFail \in BOOLEAN /\ CanStop \in BOOLEAN

VARIABLES
  \* the heap
  alloc, data, next,
  \* inst, under its mutex
  curr_buffer, next_buffer, buffers,
  \* the worker: its place in worker_func, its spare buffers, its list
  pc, new_buffer1, new_buffer2, buffers_to_write,
  \* inst, used by the worker only
  handle, written_bytes, roll_mday,
  \* log_exit
  running, front,
  \* the clock, the count of accepted lines, which of them are the worker's
  \* notices, and what reached which file
  today, lines, notices, out

heap == <<alloc, data, next>>
shared == <<curr_buffer, next_buffer, buffers>>
worker == <<pc, new_buffer1, new_buffer2, buffers_to_write>>
file == <<handle, written_bytes, roll_mday>>
vars == <<heap, shared, worker, file, running, front, today, lines, notices, out>>

EmptyList == [head |-> None, tail |-> None, size |-> 0]

\* calloc: which free address it returns makes no difference.
Calloc(taken) == CHOOSE b \in Buffer \ taken : TRUE

\* The buffers that the next pointers lead to from h, and the lines in them.
Chain(h) ==
  LET chain[b \in Buffer] ==
        <<b>> \o IF next[b] = None THEN <<>> ELSE chain[next[b]]
  IN  IF h = None THEN <<>> ELSE chain[h]

Contents(h) ==
  LET text[b \in Buffer] ==
        data[b] \o IF next[b] = None THEN <<>> ELSE text[next[b]]
  IN  IF h = None THEN <<>> ELSE text[h]

\* Defects: a recycled buffer keeps its pointer, or its size; the spare
\* buffer is not checked; only the tail is linked; the day of the roll is
\* not recorded; the flag is not read; the wait has no timeout; the current
\* buffer is not counted; the notice goes to stderr only.
Zeroed_NoNext(S) ==
  data' = [b \in Buffer |-> IF b \in S THEN <<>> ELSE data[b]] /\ UNCHANGED next
Zeroed_NoSize(S) ==
  next' = [b \in Buffer |-> IF b \in S THEN None ELSE next[b]] /\ UNCHANGED data
Linked_Tail(full, fresh) ==
  IF buffers.head = None THEN next ELSE [next EXCEPT ![buffers.tail] = full]
RollDay_Kept(now) == roll_mday
Again_Always == TRUE
WaitEnds_Signal == buffers.head # None
WithCurrent_Uncounted ==
  [head |-> IF buffers.head = None THEN curr_buffer ELSE buffers.head,
   tail |-> curr_buffer, size |-> buffers.size]
Notice_Stderr == UNCHANGED <<heap, shared, lines, notices>>

\* memset of buffers to 0; the ones that are freed are cleared as well, so
\* that what calloc returns is clear.
Zeroed(S) ==
  /\ data' = [b \in Buffer |-> IF b \in S THEN <<>> ELSE data[b]]
  /\ next' = [b \in Buffer |-> IF b \in S THEN None ELSE next[b]]

List == [head : Buffer \cup {None}, tail : Buffer \cup {None}, size : Nat]

Init ==
  /\ \E b, c \in Buffer :
       /\ b = Calloc({}) /\ c = Calloc({b})
       /\ alloc = {b, c} /\ curr_buffer = b /\ next_buffer = c
  /\ data = [b \in Buffer |-> <<>>]
  /\ next = [b \in Buffer |-> None]
  /\ buffers = EmptyList
  /\ pc = "start" /\ new_buffer1 = None /\ new_buffer2 = None
  /\ buffers_to_write = EmptyList
  /\ handle = None /\ written_bytes = 0 /\ roll_mday = 0
  /\ running = TRUE /\ front = "up"
  /\ today = 0 /\ lines = 0 /\ notices = {} /\ out = <<>>

----------------------------------------------------------------------------
(* append *)

\* The buffer that becomes current when the current one is full.
Spare == IF next_buffer # None THEN next_buffer ELSE Calloc(alloc)

\* The full buffer is linked behind the list, and the next current one
\* behind it: worker_func finds the current buffer at the end of the chain.
Linked(full, fresh) ==
  LET linked == IF buffers.head = None THEN next
                ELSE [next EXCEPT ![buffers.tail] = full]
  IN  [linked EXCEPT ![full] = fresh]

\* append() of the next line: into the current buffer if it fits, else the
\* current buffer is linked into the list and the spare one, or a new one,
\* becomes current and takes the line.
Fits == Len(data[curr_buffer]) + 1 < BufferSize

AppendFits ==
  /\ Fits
  /\ data' = [data EXCEPT ![curr_buffer] = Append(@, lines + 1)]
  /\ UNCHANGED <<alloc, next, shared>>

AppendFull ==
  LET full == curr_buffer
      fresh == Spare
  IN  /\ ~Fits
      /\ next_buffer # None \/ alloc # Buffer
      /\ buffers' = [head |-> IF buffers.head = None THEN full ELSE buffers.head,
                     tail |-> full,
                     size |-> buffers.size + 1]
      /\ next' = Linked(full, fresh)
      /\ curr_buffer' = fresh
      /\ next_buffer' = None
      /\ alloc' = alloc \cup {fresh}
      /\ data' = [data EXCEPT ![fresh] = Append(@, lines + 1)]

AppendLine ==
  /\ AppendFits \/ AppendFull
  /\ lines' = lines + 1

\* ldebug, linfo, lwarning, lerror: a line of the service.
Log ==
  /\ front = "up"
  /\ lines < MaxLine
  /\ AppendLine
  /\ UNCHANGED <<worker, file, running, front, today, notices, out>>

----------------------------------------------------------------------------
(* rollfile *)

Reached(bytes) == bytes >= RollSize
Exceeded(bytes) == Reached(bytes) /\ bytes # RollSize

RollDay(now) == now

\* The file of today is opened: number 0, or number 1 if the bytes written
\* have reached the roll size, and the count restarts only then.  The day
\* for roll_mday is read after the name was made, so midnight may pass.
OpenFile(bytes) == \E now \in {today, today + 1} \cap Day :
  /\ handle # Stdout
  /\ handle' = <<today, IF Reached(bytes) THEN 1 ELSE 0>>
  /\ written_bytes' = IF Reached(bytes) THEN 0 ELSE bytes
  /\ roll_mday' = RollDay(now)
  /\ today' = now

\* fopen fails, for number 0 or after it for number 1: the logger writes to
\* stdout from then on and no file is opened any more.
OpenFails(bytes) ==
  /\ CanFail
  /\ handle # Stdout
  /\ handle' = Stdout
  /\ written_bytes' \in {bytes} \cup (IF Reached(bytes) THEN {0} ELSE {})
  /\ UNCHANGED <<roll_mday, today>>

StaysOnStdout(bytes) ==
  /\ handle = Stdout
  /\ written_bytes' = bytes
  /\ UNCHANGED <<handle, roll_mday, today>>

rollfile(bytes) == OpenFile(bytes) \/ OpenFails(bytes) \/ StaysOnStdout(bytes)

----------------------------------------------------------------------------
(* worker_func *)

\* The worker opens the first file and allocates its two spare buffers.
Start ==
  LET b == Calloc(alloc)
      c == Calloc(alloc \cup {b})
  IN  /\ pc = "start"
      /\ Cardinality(Buffer \ alloc) >= 2
      /\ rollfile(written_bytes)
      /\ alloc' = alloc \cup {b, c}
      /\ new_buffer1' = b /\ new_buffer2' = c
      /\ pc' = "loop"
      /\ UNCHANGED <<data, next, shared, buffers_to_write, running, front, lines, notices, out>>

Again == running

Loop ==
  /\ pc = "loop"
  /\ pc' = IF Again THEN "lock" ELSE "done"
  /\ UNCHANGED <<heap, shared, new_buffer1, new_buffer2, buffers_to_write, file,
                 running, front, today, lines, notices, out>>

\* The list with the current buffer as its tail; append has linked the two.
WithCurrent ==
  [head |-> IF buffers.head = None THEN curr_buffer ELSE buffers.head,
   tail |-> curr_buffer,
   size |-> buffers.size + 1]

\* With an empty list the worker waits, for a signal or for the interval at
\* most; pthread_cond_timedwait may return at any moment.
WaitEnds == TRUE

\* Under the mutex, at the end of the wait or with a list that is not empty:
\* roll the file on a new day, take the list and the current buffer, and
\* give the front end a current and, if it has none, a spare buffer.
Swap ==
  /\ pc = "lock" /\ WaitEnds
  /\ \/ roll_mday # today /\ rollfile(written_bytes)
     \/ roll_mday = today /\ UNCHANGED <<file, today>>
  /\ buffers_to_write' = WithCurrent
  /\ buffers' = EmptyList
  /\ curr_buffer' = new_buffer1
  /\ new_buffer1' = None
  /\ \/ next_buffer = None /\ next_buffer' = new_buffer2 /\ new_buffer2' = None
     \/ next_buffer # None /\ UNCHANGED <<next_buffer, new_buffer2>>
  /\ pc' = IF buffers_to_write'.size > Limit THEN "notice" ELSE "write"
  /\ UNCHANGED <<heap, running, front, lines, notices, out>>

\* Too many buffers: the worker logs, through append(), that it drops some.
Notice == AppendLine /\ notices' = notices \cup {lines'}

DropNotice ==
  /\ pc = "notice"
  /\ Notice
  /\ pc' = "cut"
  /\ UNCHANGED <<new_buffer1, new_buffer2, buffers_to_write, file, running, front,
                 today, out>>

\* Only the first two buffers of the list are kept.
Cut ==
  LET second == next[buffers_to_write.head]
      dropped == ToSet(Chain(next[second]))
  IN  /\ pc = "cut"
      /\ alloc' = alloc \ dropped
      /\ data' = [b \in Buffer |-> IF b \in dropped THEN <<>> ELSE data[b]]
      /\ next' = [b \in Buffer |-> IF b = second \/ b \in dropped THEN None ELSE next[b]]
      /\ buffers_to_write' = [buffers_to_write EXCEPT !.tail = second, !.size = 2]
      /\ pc' = "write"
      /\ UNCHANGED <<shared, new_buffer1, new_buffer2, file, running, front,
                     today, lines, notices, out>>

\* The list is written to the open file, which is rolled if it has grown
\* beyond the roll size.
Write ==
  LET text == Contents(buffers_to_write.head)
      bytes == written_bytes + Len(text)
  IN  /\ pc = "write"
      /\ out' = out \o [i \in 1 .. Len(text) |-> [line |-> text[i], file |-> handle]]
      /\ \/ Exceeded(bytes) /\ rollfile(bytes)
         \/ /\ ~Exceeded(bytes)
            /\ written_bytes' = bytes
            /\ UNCHANGED <<handle, roll_mday, today>>
      /\ pc' = "recycle"
      /\ UNCHANGED <<heap, shared, new_buffer1, new_buffer2, buffers_to_write,
                     running, front, lines, notices>>

\* The first buffer of the list becomes the first spare, the next one the
\* second spare if that is missing, both cleared; the rest is freed.
Recycle ==
  LET first == buffers_to_write.head
      rest == next[first]
      spares == IF new_buffer2 = None THEN {first, rest} ELSE {first}
      chain == ToSet(Chain(first))
  IN  /\ pc = "recycle"
      /\ new_buffer1' = first
      /\ new_buffer2' = IF new_buffer2 = None THEN rest ELSE new_buffer2
      /\ Zeroed(chain)
      /\ alloc' = alloc \ (chain \ spares)
      /\ buffers_to_write' = EmptyList
      /\ pc' = "loop"
      /\ UNCHANGED <<shared, file, running, front, today, lines, notices, out>>

----------------------------------------------------------------------------
(* log_exit, the clock *)

\* log_exit: the flag is cleared and the front end waits for the thread;
\* lfatal does the same after its line.
Exit ==
  /\ CanStop
  /\ front = "up"
  /\ running' = FALSE
  /\ front' = "joining"
  /\ UNCHANGED <<heap, shared, worker, file, today, lines, notices, out>>

Joined ==
  /\ front = "joining" /\ pc = "done"
  /\ front' = "closed"
  /\ UNCHANGED <<heap, shared, worker, file, running, today, lines, notices, out>>

Midnight ==
  /\ today < MaxDay
  /\ today' = today + 1
  /\ UNCHANGED <<heap, shared, worker, file, running, front, lines, notices, out>>

Work == Start \/ Loop \/ Swap \/ DropNotice \/ Cut \/ Write \/ Recycle

Next == Log \/ Work \/ Exit \/ Joined \/ Midnight

Spec == Init /\ [][Next]_vars

\* The worker is a thread of its own and its wait is timed; pthread_join
\* returns when the thread has ended.
FairSpec == Spec /\ WF_vars(Work) /\ WF_vars(Joined)
----------------------------------------------------------------------------
(* Properties *)

TypeOK ==
  /\ alloc \subseteq Buffer
  /\ data \in [Buffer -> Seq(1 .. lines)]
  /\ next \in [Buffer -> Buffer \cup {None}]
  /\ curr_buffer \in Buffer
  /\ {next_buffer, new_buffer1, new_buffer2} \subseteq Buffer \cup {None}
  /\ buffers \in List /\ buffers_to_write \in List
  /\ pc \in {"start", "loop", "lock", "notice", "cut", "write", "recycle", "done"}
  /\ handle \in File \cup {None, Stdout}
  /\ written_bytes \in Nat /\ roll_mday \in Day /\ today \in Day
  /\ running \in BOOLEAN /\ front \in {"up", "joining", "closed"}
  /\ lines \in Nat /\ notices \subseteq 1 .. lines
  /\ out \in Seq([line : 1 .. lines, file : File \cup {Stdout}])

\* The first buffer of the front end: the list and, linked behind it, the
\* current buffer.
FrontHead == IF buffers.head = None THEN curr_buffer ELSE buffers.head

FrontChain == Chain(FrontHead)
WorkChain == Chain(buffers_to_write.head)

One(b) == IF b = None THEN <<>> ELSE <<b>>
Spares == One(next_buffer) \o One(new_buffer1) \o One(new_buffer2)

\* Every allocated buffer is in exactly one place: the front end's chain,
\* the worker's chain, or one of the three spares; so none is leaked, freed
\* while in use, or written by both threads (append 179-205, worker_func
\* 250-274, 295-305, 322-347).
OwnedOnce ==
  LET owned == FrontChain \o WorkChain \o Spares
  IN  IsInjective(owned) /\ ToSet(owned) = alloc

\* The lists are what their head, tail and size say, the chain of the front
\* end ends in the current buffer, and the spares are clean: so no assertion
\* of lua-log.c fails (179, 189, 227-229, 278, 325, 334), and a swapped list
\* always has the buffers the worker takes back from it.
ListsSound ==
  /\ TypeOK
  /\ Len(FrontChain) = buffers.size + 1
  /\ Last(FrontChain) = curr_buffer
  /\ IF buffers.size = 0 THEN buffers = EmptyList
     ELSE FrontChain[buffers.size] = buffers.tail
  /\ Len(WorkChain) = buffers_to_write.size
  /\ buffers_to_write.size > 0 => Last(WorkChain) = buffers_to_write.tail
  /\ pc \in {"loop", "lock", "done"} => /\ buffers_to_write = EmptyList
                                /\ new_buffer1 # None /\ new_buffer2 # None
  /\ pc = "recycle" => buffers_to_write.size >= IF new_buffer2 = None THEN 2 ELSE 1
  /\ \A i \in 1 .. Len(Spares) : data[Spares[i]] = <<>> /\ next[Spares[i]] = None

Pending ==
  (IF pc = "recycle" THEN <<>> ELSE Contents(buffers_to_write.head))
    \o Contents(FrontHead)

Written == [i \in 1 .. Len(out) |-> out[i].line]

\* The logger keeps the promise of LineLog: lines reach the log once and in
\* the order they were accepted, and a line is lost only to a cut, which
\* keeps the oldest buffers and the notice.
LinesOnly == INSTANCE LineLog WITH accepted <- lines, queue <- Pending, log <- Written

KeepsLog == LinesOnly!Spec
InOrder == LinesOnly!InOrder

\* No line vanishes silently: whenever a line has been thrown away, a notice
\* accepted after it has been written or still waits to be (280-307).
DropsAreNoted ==
  LET kept == ToSet(Written \o Pending)
  IN  \A n \in (1 .. lines) \ kept : \E m \in notices \cap kept : m > n

Follows(g, f) ==
  \/ f = None
  \/ g = Stdout
  \/ f \in File /\ g \in File /\ (f[1] < g[1] \/ (f[1] = g[1] /\ f[2] <= g[2]))

\* The logger never goes back to a file it has left: files follow each other
\* by day and number, and after stdout comes no file (rollfile 99-163).
FilesInOrder == [][Follows(handle', handle)]_vars

\* An accepted line does not wait for ever: it is written or cut, unless the
\* service is told to stop (the timed wait 234-236, the loop 225-365).
Settles == \A n \in 1 .. MaxLine :
  lines >= n ~> n \notin ToSet(Pending) \/ front = "closed"

\* log_exit returns: the worker sees the flag after at most one more round.
StopEnds == front = "joining" ~> front = "closed"

----------------------------------------------------------------------------
(* What the comments of lua-log.c say of the files, and the code does not do *)

BytesIn(f) == Cardinality({i \in 1 .. Len(out) : out[i].file = f})
Writing == pc = "write" /\ handle \in File

\* "When a log file has reached 1G, roll to a new file" (18).
RollsBySize == Writing => BytesIn(handle) <= RollSize

\* written_bytes is "the bytes already written to the file" (51).
CountsTheFile == Writing => written_bytes = BytesIn(handle)

\* "A new day, roll the log" (242): the open file is that of the day the
\* worker takes it to be.
RollsByDay == Writing => handle[1] = roll_mday
============================================================================
