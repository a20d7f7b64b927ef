----------------------------- MODULE SemThreads -----------------------------
(***************************************************************************)
(* lab9_sems/thread_example.c: a writer thread composes a message in       *)
(* shared_buffer once a second, a reader thread prints the buffer in a     *)
(* loop without a pause, and a semaphore of initial value 1 keeps them     *)
(* apart.  Both run until the process is interrupted.                      *)
(*                                                                         *)
(* snprintf and printf go through the buffer piece by piece.  A piece is   *)
(* identified by the number of the message it belongs to; 0 is the text    *)
(* "Initial empty buffer".                                                 *)
(***************************************************************************)
EXTENDS Integers, Sequences

CONSTANTS
  Pieces,     (* how many pieces the buffer is written and read in          *)
  Numbers     (* bound: message_counter is kept modulo this                 *)

VARIABLES
  shared_buffer,
  message_counter,
  buffer_semaphore,
  writer,            (* where the writer thread is                          *)
  reader,            (* where the reader thread is                          *)
  at,                (* at.writer, at.reader: the next piece of each        *)
  printed,           (* what the reader has printed of its current line     *)
  shown,             (* the last line it completed                          *)
  main

vars == <<shared_buffer, message_counter, buffer_semaphore, writer, reader,
          at, printed, shown, main>>

Whole(n) == [k \in 1..Pieces |-> n]

Init ==
  /\ shared_buffer = Whole(0)
  /\ message_counter = 0
  /\ buffer_semaphore = 1
  /\ writer = "unborn" /\ reader = "unborn"
  /\ at = [writer |-> 1, reader |-> 1]
  /\ printed = <<>>
  /\ shown = Whole(0)
  /\ main = "init"

-----------------------------------------------------------------------------
(* The semaphore.  A definition whose name ends in _Bug is a wrong version *)
(* of the one that follows it, there to be swapped in; nothing uses it.    *)

sem_wait_Bug == UNCHANGED buffer_semaphore
sem_wait == buffer_semaphore > 0 /\ buffer_semaphore' = buffer_semaphore - 1
sem_post == buffer_semaphore' = buffer_semaphore + 1

ProcessAlive == main # "failed"

-----------------------------------------------------------------------------
(* writer_thread_function                                                  *)

WriterWait ==
  /\ ProcessAlive /\ writer = "wait"
  /\ sem_wait
  /\ message_counter' = (message_counter + 1) % Numbers
  /\ writer' = "write"
  /\ UNCHANGED <<shared_buffer, reader, at, printed, shown, main>>

WritePiece ==
  /\ ProcessAlive /\ writer = "write"
  /\ shared_buffer' = [shared_buffer EXCEPT ![at.writer] = message_counter]
  /\ IF at.writer < Pieces
     THEN at' = [at EXCEPT !.writer = @ + 1] /\ UNCHANGED writer
     ELSE at' = [at EXCEPT !.writer = 1] /\ writer' = "post"
  /\ UNCHANGED <<message_counter, buffer_semaphore, reader, printed, shown,
                 main>>

WriterPost_Bug ==
  /\ ProcessAlive /\ writer = "post"
  /\ writer' = "sleep"
  /\ UNCHANGED <<shared_buffer, message_counter, buffer_semaphore, reader, at,
                 printed, shown, main>>

WriterPost ==
  /\ ProcessAlive /\ writer = "post"
  /\ sem_post
  /\ writer' = "sleep"
  /\ UNCHANGED <<shared_buffer, message_counter, reader, at, printed, shown,
                 main>>

(* sleep(1)                                                                *)
WriterWake ==
  /\ ProcessAlive /\ writer = "sleep"
  /\ writer' = "wait"
  /\ UNCHANGED <<shared_buffer, message_counter, buffer_semaphore, reader, at,
                 printed, shown, main>>

WriterStep == WriterWait \/ WritePiece \/ WriterPost \/ WriterWake

-----------------------------------------------------------------------------
(* reader_thread_function                                                  *)

ReaderWait ==
  /\ ProcessAlive /\ reader = "wait"
  /\ sem_wait
  /\ reader' = "read"
  /\ UNCHANGED <<shared_buffer, message_counter, writer, at, printed, shown,
                 main>>

ReadPiece ==
  /\ ProcessAlive /\ reader = "read"
  /\ LET line == Append(printed, shared_buffer[at.reader])
     IN  IF at.reader < Pieces
         THEN /\ printed' = line
              /\ at' = [at EXCEPT !.reader = @ + 1]
              /\ UNCHANGED <<shown, reader>>
         ELSE /\ printed' = <<>> /\ shown' = line
              /\ at' = [at EXCEPT !.reader = 1]
              /\ reader' = "post"
  /\ UNCHANGED <<shared_buffer, message_counter, buffer_semaphore, writer,
                 main>>

(* Nothing comes between sem_post and the next sem_wait.                   *)
ReaderPost ==
  /\ ProcessAlive /\ reader = "post"
  /\ sem_post
  /\ reader' = "wait"
  /\ UNCHANGED <<shared_buffer, message_counter, writer, at, printed, shown,
                 main>>

ReaderStep == ReaderWait \/ ReadPiece \/ ReaderPost

-----------------------------------------------------------------------------
(* main: initialise, create the writer, create the reader, join for ever.  *)

MainProceeds ==
  \/ main = "init" /\ main' = "create_writer" /\ UNCHANGED <<writer, reader>>
  \/ /\ main = "create_writer"
     /\ main' = "create_reader" /\ writer' = "wait" /\ UNCHANGED reader
  \/ /\ main = "create_reader"
     /\ main' = "joining" /\ reader' = "wait" /\ UNCHANGED writer

MainFails ==
  /\ main \in {"init", "create_writer", "create_reader"}
  /\ main' = "failed"
  /\ UNCHANGED <<writer, reader>>

MainStep ==
  /\ MainProceeds \/ MainFails
  /\ UNCHANGED <<shared_buffer, message_counter, buffer_semaphore, at,
                 printed, shown>>

Exited == ~ProcessAlive /\ UNCHANGED vars

Next == WriterStep \/ ReaderStep \/ MainStep \/ Exited

Spec == Init /\ [][Next]_vars

(***************************************************************************)
(* The reader always gets its turn, for the writer sleeps for a second     *)
(* after each message (strong fairness of ReaderWait).  The reader never   *)
(* sleeps: it takes the semaphore back as soon as it has given it up, and  *)
(* nothing in sem_wait makes it queue behind the writer (weak fairness).   *)
(***************************************************************************)
FairSpec ==
  /\ Spec
  /\ WF_vars(WriterStep)
  /\ WF_vars(ReaderStep) /\ SF_vars(ReaderWait)

-----------------------------------------------------------------------------
TypeOK ==
  /\ shared_buffer \in [1..Pieces -> 0..Numbers - 1]
  /\ message_counter \in 0..Numbers - 1
  /\ buffer_semaphore \in 0..1
  /\ writer \in {"unborn", "wait", "write", "post", "sleep"}
  /\ reader \in {"unborn", "wait", "read", "post"}
  /\ at \in [writer : 1..Pieces, reader : 1..Pieces]
  /\ printed \in Seq(0..Numbers - 1)
  /\ shown \in [1..Pieces -> 0..Numbers - 1]
  /\ main \in {"init", "create_writer", "create_reader", "joining", "failed"}

(* The semaphore counts who is between its sem_wait and its sem_post.      *)
Exclusion ==
  /\ ~ (writer \in {"write", "post"} /\ reader \in {"read", "post"})
  /\ buffer_semaphore =
       IF writer \in {"write", "post"} \/ reader \in {"read", "post"} THEN 0 ELSE 1

(* Outside of a write the buffer holds the last message, inside it does up *)
(* to the next piece; and so does what the reader has printed of its line. *)
BufferIsCurrent ==
  /\ writer # "write" => at.writer = 1 /\ shared_buffer = Whole(message_counter)
  /\ \A k \in 1..Pieces : k < at.writer => shared_buffer[k] = message_counter

LineIsCurrent ==
  /\ Len(printed) = at.reader - 1
  /\ reader # "read" => at.reader = 1
  /\ \A k \in 1..Len(printed) : printed[k] = message_counter

(* main creates the writer first.                                          *)
Unborn ==
  /\ main \in {"init", "create_writer"} => writer = "unborn"
  /\ main \in {"init", "create_writer", "create_reader"} => reader = "unborn"

IInv == TypeOK /\ Unborn /\ Exclusion /\ BufferIsCurrent /\ LineIsCurrent

(* Every line the reader completes holds one whole message, the last one   *)
(* that was written, although buffer and counter change piece by piece     *)
(* (thread_example.c:19-37, 48-60).                                        *)
LinesAreCurrent ==
  [][reader = "read" /\ reader' = "post" => shown' = Whole(message_counter)]_vars

(* A message that has been written is printed unless the writer replaces   *)
(* it first: the reader never waits for ever (thread_example.c:47-62).     *)
ReaderKeepsUp ==
  \A n \in 0..Numbers - 1 :
    writer = "sleep" /\ reader # "unborn" /\ message_counter = n
      ~> message_counter # n \/ shown = Whole(n)

(* "Write every second" (thread_example.c:38), while "No sleep needed here *)
(* - semaphore is already released" (thread_example.c:61): a writer that   *)
(* wants to write gets to write.                                           *)
WriterKeepsWriting == writer = "wait" ~> writer = "write" \/ ~ProcessAlive
=============================================================================
