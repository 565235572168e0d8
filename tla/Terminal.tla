------------------------------ MODULE Terminal ------------------------------
(***************************************************************************)
(* Terminal input: a client that reads with sys_read from a                *)
(* TerminalInputFileWrapper (src/include/ExeTypes.h), and the host that    *)
(* owns the stream behind it and resumes the client's suspended reads.     *)
(*                                                                         *)
(* Machine leaves open what a read answers; here the wrapper's buffer, the *)
(* stream and its state decide.  A blocking stream (std::cin of the        *)
(* console driver) holds get() until there is a line or the user ends the  *)
(* input; any other (a string stream that an interactive host fills) is at *)
(* its end whenever it has no more.                                        *)
(***************************************************************************)
EXTENDS Integers, Sequences, FiniteSetsExt

CONSTANTS
  Char,       (* what can be typed                                         *)
  Newline,    (* the one that ends a line                                  *)
  Kinds,      (* streams: interactive or not, blocking or not              *)
  Caps,       (* sizes of the client's buffers                             *)
  MaxFed      (* bound: characters typed                                   *)

ASSUME TerminalAssumption ==
  /\ Newline \in Char
  /\ Kinds \subseteq [interactive : BOOLEAN, blocking : BOOLEAN]
  /\ Caps \subseteq Nat
  /\ MaxFed \in Nat

VARIABLES
  kind,             (* the stream and how the wrapper was made             *)
  stream,           (* the characters the stream holds                     *)
  end,              (* how many of them come before the end of input that  *)
                    (* the user of a blocking stream signalled, or Never   *)
  eof,              (* its eofbit and failbit, set together by get()       *)
  b, b_pos,         (* the wrapper's buffer and the read head in it        *)
  request,          (* capacity of the read the client is in, or Idle      *)
  suspended,        (* the read that gave nothing suspended the machine    *)
  fed,              (* history: what was typed,                            *)
  received          (* and what the client was given                       *)

streamVars == <<stream, end, eof>>
wrapperVars == <<b, b_pos>>
clientVars == <<request, suspended, received>>
terminalVars == <<kind, streamVars, wrapperVars, clientVars, fed>>

Idle == -1
Never == -1

TerminalInit ==
  /\ kind \in Kinds
  /\ stream = <<>> /\ end = Never /\ eof = FALSE
  /\ b = <<>> /\ b_pos = 0
  /\ request = Idle /\ suspended = FALSE
  /\ fed = <<>> /\ received = <<>>

-----------------------------------------------------------------------------
(* The wrapper.                                                            *)

\* Mutant: the buffer is refilled before every read.
BufferIgnored == TRUE

\* Mutant: a buffer that was read to its end is not refilled.
BufferUnfilled == Len(b) = 0

BufferEmpty == b_pos >= Len(b)

(* The loop of get() takes n characters, none but the last a newline.      *)
Unbroken(n) == \A i \in 1 .. n : stream[i] # Newline
Takes(n) == /\ b' = SubSeq(stream, 1, n)
            /\ stream' = SubSeq(stream, n + 1, Len(stream))

\* Mutant: the newline does not stop the refill.
RefillPastLine ==
  \/ eof /\ b' = <<>> /\ UNCHANGED streamVars
  \/ ~eof /\ Takes(Len(stream)) /\ end' = Never /\ eof' = TRUE

(* The refill of an empty buffer: up to a newline, up to the end of input, *)
(* or up to where a stream that does not block is dry.  After an end       *)
(* get() gives nothing.                                                    *)
Refill ==
  \/ /\ eof
     /\ b' = <<>> /\ UNCHANGED streamVars
  \/ /\ ~eof
     /\ \E n \in 1 .. (IF end = Never THEN Len(stream) ELSE end) :
          /\ stream[n] = Newline /\ Unbroken(n - 1) /\ Takes(n)
          /\ end' = (IF end = Never THEN Never ELSE end - n)
          /\ eof' = FALSE
  \/ /\ ~eof /\ end # Never /\ Unbroken(end)
     /\ Takes(end) /\ end' = Never /\ eof' = TRUE
  \/ /\ ~eof /\ ~kind.blocking /\ Unbroken(Len(stream))
     /\ Takes(Len(stream)) /\ eof' = TRUE /\ UNCHANGED end

\* Mutant: the read head is moved by what was asked for.
HandOverUnbounded(line, pos) ==
  LET n == Min({Len(line) - pos, request})
  IN /\ b_pos' = pos + request
     /\ request' = Idle
     /\ received' = received \o SubSeq(line, pos + 1, pos + n)
     /\ UNCHANGED suspended

(* sys_read of the wrapper, with the buffer holding line and its head at   *)
(* pos.  With nothing to give, an interactive read suspends and will be    *)
(* repeated; any other answers 0.                                          *)
HandOver(line, pos) ==
  LET n == Min({Len(line) - pos, request})
  IN /\ b_pos' = pos + n
     /\ \/ /\ n = 0 /\ kind.interactive
           /\ suspended' = TRUE
           /\ UNCHANGED <<request, received>>
        \/ /\ n > 0 \/ ~kind.interactive
           /\ request' = Idle
           /\ received' = received \o SubSeq(line, pos + 1, pos + n)
           /\ UNCHANGED suspended

Read ==
  /\ request # Idle /\ ~suspended
  /\ \/ BufferEmpty /\ Refill /\ HandOver(b', 0)
     \/ ~BufferEmpty /\ HandOver(b, b_pos) /\ UNCHANGED <<b, streamVars>>
  /\ UNCHANGED <<kind, fed>>

(* The client comes to its next read.                                      *)
Request(n) ==
  /\ request = Idle
  /\ request' = n
  /\ UNCHANGED <<kind, streamVars, wrapperVars, suspended, received, fed>>

-----------------------------------------------------------------------------
(* The host and its user.                                                  *)

Type(c) ==
  /\ Len(fed) < MaxFed
  /\ stream' = Append(stream, c) /\ fed' = Append(fed, c)
  /\ UNCHANGED <<kind, end, eof, wrapperVars, clientVars>>

(* The user ends the input of a blocking stream,                           *)
EndInput ==
  /\ kind.blocking /\ ~eof /\ end = Never
  /\ end' = Len(stream)
  /\ UNCHANGED <<kind, stream, eof, wrapperVars, clientVars, fed>>

(* The host of an interactive stream may clear its state, which nothing in *)
(* the machine does,                                                       *)
Clear ==
  /\ kind.interactive /\ eof
  /\ eof' = FALSE
  /\ UNCHANGED <<kind, stream, end, wrapperVars, clientVars, fed>>

(* and may resume the client.                                              *)
Resume ==
  /\ suspended
  /\ suspended' = FALSE
  /\ UNCHANGED <<kind, streamVars, wrapperVars, request, received, fed>>

TerminalNext ==
  \/ Read \/ (\E n \in Caps : Request(n))
  \/ (\E c \in Char : Type(c)) \/ EndInput \/ Clear \/ Resume

(* The machine is ticked as long as it runs, and the client goes on        *)
(* reading.  Nothing makes a host clear its stream or resume its client.   *)
Fairness ==
  WF_terminalVars(Read) /\ WF_terminalVars(\E n \in Caps : Request(n))

TerminalSpec == TerminalInit /\ [][TerminalNext]_terminalVars /\ Fairness

-----------------------------------------------------------------------------
(* Correctness.                                                            *)

TerminalTypeOK ==
  /\ kind \in Kinds
  /\ stream \in Seq(Char) /\ end \in 0 .. Len(stream) \cup {Never} /\ eof \in BOOLEAN
  /\ b \in Seq(Char) /\ b_pos \in 0 .. Len(b)
  /\ request \in Caps \cup {Idle}
  /\ suspended \in BOOLEAN
  /\ fed \in Seq(Char) /\ received \in Seq(Char)

(* Every character typed is with the client, in the rest of the buffer or  *)
(* still in the stream, in that order, whatever the sizes of the reads and *)
(* however often they are repeated.                                        *)
NothingLost ==
  received \o SubSeq(b, b_pos + 1, Len(b)) \o stream = fed

(* The wrapper is an input stream: in order, once, a line at a time.       *)
Input == INSTANCE InputStream
ReadsAreInput == Input!Spec

(* What is typed reaches a client that keeps reading: at once, or with its *)
(* line if the stream blocks.  Only what is still in the stream may be     *)
(* kept from it, and only if from some time on the stream is at an end     *)
(* that nobody clears or the client suspended by a host that does not      *)
(* resume it: a host that does both again and again loses nothing.         *)
Offered(k) == /\ k \in DOMAIN fed
              /\ kind.blocking => \E j \in k .. Len(fed) : fed[j] = Newline
Stuck(k) == k > Len(fed) - Len(stream) /\ (eof \/ suspended)
InputArrives ==
  \A k \in 1 .. MaxFed : Offered(k) ~> (Len(received) >= k \/ []Stuck(k))

=============================================================================
