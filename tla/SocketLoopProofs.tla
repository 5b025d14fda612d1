-------------------------- MODULE SocketLoopProofs --------------------------
(***************************************************************************)
(* Proofs about the accept loop, for any number of connections, any table  *)
(* size and any response length: every dispatched request has exactly one  *)
(* response, and a prompt client is not dropped before it is answered      *)
(* unless its own worker is to blame.  SocketInv is the inductive          *)
(* invariant; one lemma per action shows that the action preserves it.     *)
(***************************************************************************)
EXTENDS SocketLoop, TLAPS, SequenceTheorems, WellFoundedInduction

USE DEF vars, loopVars, clientVars, controlVars, Open, Backlog, Requests, Chunks

(* Arithmetic, constants and sequences.                                    *)

\* The bounds the numeric steps need.
LEMMA Limits == MaxClients \in Nat /\ MaxClients \in 0..MaxClients /\ ResponseUnits \in Nat /\ ResponseUnits > 0
BY LimitsAssumption

\* Prompt connections are connections of the wgd command.
LEMMA ClientFacts == Prompt \subseteq Clients /\ Prompt \subseteq Cli
BY ClientsAssumption

\* Products are cited through these two facts.
LEMMA TimesZero == \A r \in Nat : 0 * r = 0
OBVIOUS

\* One more request adds one response.
LEMMA TimesSucc == \A d, r \in Nat : (d + 1) * r = d * r + r
OBVIOUS

\* A one-chunk stream is not empty.
LEMMA OneLong == \A r : <<r>> # <<>> /\ Len(<<r>>) = 1
OBVIOUS

\* Every nonempty set of naturals has a least element.
LEMMA LeastNat ==
  ASSUME NEW T, T \subseteq Nat, T # {}
  PROVE  \E x \in T : \A y \in T : x <= y
<1> DEFINE R == {ss \in Nat \X Nat : ss[1] < ss[2]}
<1>1. IsWellFoundedOn(R, Nat)
  BY NatLessThanWellFounded DEF OpToRel
<1>2. \E x \in T : \A y \in T : ~(<<y, x>> \in R)
  <2> HIDE DEF R
  <2> QED BY <1>1, WFMin
<1>3. PICK x \in T : \A y \in T : ~(<<y, x>> \in R)
  BY <1>2
<1>4. ASSUME NEW y \in T PROVE x <= y
  <2>1. x \in Nat /\ y \in Nat
    OBVIOUS
  <2>2. ASSUME y < x PROVE <<y, x>> \in R
    BY <2>1, <2>2
  <2> QED BY <1>3, <2>1, <2>2
<1> QED BY <1>4

\* The first newline of a complete input lies inside it.
LEMMA End1Type ==
  ASSUME NEW s \in Seq(Chunks), Complete(s)
  PROVE  End1(s) \in 1..Len(s)
<1> DEFINE T == {n \in 1..Len(s) : s[n] \notin {"part", "torn"}}
<1>1. T \subseteq Nat /\ T # {}
  BY DEF Complete
<1>2. PICK n \in T : \A m \in T : n <= m
  BY <1>1, LeastNat
<1>3. /\ n \in 1..Len(s)
      /\ s[n] \notin {"part", "torn"}
      /\ \A m \in 1..n - 1 : s[m] \in {"part", "torn"}
  BY <1>2
<1> QED BY <1>3 DEF End1

\* A stream that is one whole request is read, cut and used up.
LEMMA ReadOne ==
  ASSUME NEW r \in Requests
  PROVE  /\ Complete(<<r>>) /\ End1(<<r>>) = 1
         /\ <<>> \o SubSeq(<<r>>, 1, 1) = <<r>>
         /\ SubSeq(<<r>>, 2, 1) = <<>>
<1>1. Len(<<r>>) = 1 /\ <<r>>[1] = r /\ r \notin {"part", "torn"}
  OBVIOUS
<1>2. Complete(<<r>>)
  BY <1>1 DEF Complete
<1>3. End1(<<r>>) = 1
  BY <1>1 DEF End1
<1>4. <<r>> \in Seq(Requests)
  OBVIOUS
<1>6. SubSeq(<<r>>, 1, 1) = <<r>> 
  BY <1>4, <1>1, SubSeqFull
<1>7. SubSeq(<<r>>, 2, 1) = <<>>
  BY <1>4, <1>1, SubSeqEmpty
<1>5. <<>> \o <<r>> = <<r>>
  OBVIOUS
<1> QED BY <1>2, <1>3, <1>4, <1>5, <1>6, <1>7

\* The probe read of a pending client leaves a stream.
LEMMA ProbedType ==
  ASSUME NEW s \in Seq(Chunks), NEW t \in Probed(s)
  PROVE  t \in Seq(Chunks)
<1>1. CASE s = <<>>
  BY <1>1 DEF Probed
<1>2. CASE s # <<>>
  <2>1. Tail(s) \in Seq(Chunks)
    BY <1>2
  <2>2. (IF Head(s) \in {"part", "torn"} THEN "torn" ELSE "bad") \in Chunks
    OBVIOUS
  <2>3. <<IF Head(s) \in {"part", "torn"} THEN "torn" ELSE "bad">> \o Tail(s) \in Seq(Chunks)
    BY <2>1, <2>2
  <2> QED BY <1>2, <2>1, <2>3 DEF Probed
<1> QED BY <1>1, <1>2

(* One connection.                                                         *)

\* The types of one connection's state, as numbers.
LEMMA ClientTypes ==
  ASSUME TypeOK, NEW d \in Clients
  PROVE  /\ got[d] \in Nat /\ buf[d] \in Nat /\ out[d] \in Nat
         /\ sent[d] \in Nat /\ dispatched[d] \in Nat
         /\ buf[d] = 0 \/ buf[d] = 1
         /\ wire[d] \in Seq(Chunks) /\ input[d] \in Seq(Chunks)
         /\ dispatched[d] * ResponseUnits \in Nat
BY Limits DEF TypeOK

\* One connection's part of the response count.
LEMMA Count ==
  ASSUME SocketInv, NEW d \in Clients, conn[d] = "open"
  PROVE  /\ pending[d] = "no" => dispatched[d] * ResponseUnits = got[d] + buf[d] + out[d]
         /\ pending[d] # "no" =>
              dispatched[d] * ResponseUnits = got[d] + buf[d] + ResponseUnits /\ out[d] = 0
<1>1. TypeOK /\ OneResponseEach /\ OneAtATime /\ d \in Open
  BY DEF SocketInv
<1> QED
  BY <1>1, ClientTypes, Limits DEF OneResponseEach, OneAtATime

\* A connection that is answered owes nothing and waits for nothing.
LEMMA AnsweredIdle ==
  ASSUME SocketInv, NEW d \in Clients, conn[d] = "open", Answered(d)
  PROVE  pending[d] = "no" /\ out[d] = 0 /\ buf[d] = 0
<1>1. /\ got[d] \in Nat /\ buf[d] \in Nat /\ out[d] \in Nat
      /\ got[d] = dispatched[d] * ResponseUnits
  BY ClientTypes DEF SocketInv, Answered
<1>2. pending[d] = "no"
  BY <1>1, Count, Limits
<1>3. got[d] = got[d] + buf[d] + out[d]
  BY <1>1, <1>2, Count
<1> QED BY <1>1, <1>2, <1>3

\* What write() does to a connection.
LEMMA WriteEffect ==
  ASSUME TypeOK, NEW c \in Clients, NEW units \in 0..ResponseUnits, Write(c, units)
  PROVE  /\ out' \in [Clients -> 0..ResponseUnits]
         /\ buf' \in [Clients -> {0, 1}]
         /\ conn' \in [Clients -> {"out", "backlog", "open", "gone"}]
         /\ \A d \in Clients \ {c} : out'[d] = out[d] /\ buf'[d] = buf[d] /\ conn'[d] = conn[d]
         /\ c \in hung => conn'[c] = "gone"
         /\ c \notin hung => conn'[c] = conn[c] /\ out'[c] + buf'[c] = units + buf[c]
<1>1. units \in Nat /\ units <= ResponseUnits /\ (buf[c] = 0 \/ buf[c] = 1)
  BY Limits, ClientTypes
<1>2. /\ Min2(units, 1 - buf[c]) \in Nat
      /\ units - Min2(units, 1 - buf[c]) \in 0..ResponseUnits
      /\ buf[c] + Min2(units, 1 - buf[c]) \in {0, 1}
  BY <1>1, Limits DEF Min2
<1>3. out' \in [Clients -> 0..ResponseUnits]
  BY <1>2 DEF Write, TypeOK
<1>4. buf' \in [Clients -> {0, 1}]
  BY <1>2 DEF Write, TypeOK
<1>5. conn' \in [Clients -> {"out", "backlog", "open", "gone"}]
  BY DEF Write, TypeOK
<1>6. \A d \in Clients \ {c} : out'[d] = out[d] /\ buf'[d] = buf[d] /\ conn'[d] = conn[d]
  BY DEF Write, TypeOK
<1>7. c \in hung => conn'[c] = "gone"
  BY DEF Write, TypeOK
<1>8. ASSUME c \notin hung
      PROVE  conn'[c] = conn[c] /\ out'[c] + buf'[c] = units + buf[c]
  <2>1. conn'[c] = conn[c] /\ out'[c] = units - Min2(units, 1 - buf[c])
        /\ buf'[c] = buf[c] + Min2(units, 1 - buf[c])
    BY <1>8 DEF Write, TypeOK
  <2> QED BY <2>1, <1>1, <1>2
<1> QED BY <1>3, <1>4, <1>5, <1>6, <1>7, <1>8

\* The single request of a prompt connection is read whole.
LEMMA PromptRead ==
  ASSUME SocketInv, NEW c \in Prompt, conn[c] = "open", pending[c] = "no", out[c] = 0,
         NEW n \in (IF wire[c] = <<>> THEN {0} ELSE 1..Len(wire[c]))
  PROVE  LET inp == input[c] \o SubSeq(wire[c], 1, n) IN
         \/ wire[c] = <<>> /\ n = 0 /\ inp = <<>>
         \/ /\ sent[c] = 1 /\ dispatched[c] = 0
            /\ \E r \in Requests : wire[c] = <<r>> /\ inp = <<r>>
            /\ n = 1 /\ Complete(inp) /\ End1(inp) = 1 /\ Len(inp) = 1
            /\ SubSeq(inp, End1(inp) + 1, Len(inp)) = <<>>
            /\ SubSeq(wire[c], n + 1, Len(wire[c])) = <<>>
<1>1. input[c] = <<>> /\ PromptStages(c)
  BY DEF SocketInv, PromptShape
<1>2. CASE wire[c] = <<>>
  <2>1. n = 0
    BY <1>2
  <2>2. SubSeq(wire[c], 1, 0) = <<>>
    BY SubSeqEmpty
  <2>3. <<>> \o <<>> = <<>>
    OBVIOUS
  <2> QED BY <1>1, <1>2, <2>1, <2>2, <2>3
<1>3. CASE wire[c] # <<>>
  <2>1. sent[c] = 1 /\ dispatched[c] = 0 /\ \E r \in Requests : wire[c] = <<r>>
    BY <1>1, <1>3 DEF PromptStages
  <2>2. PICK r \in Requests : wire[c] = <<r>>
    BY <2>1
  <2>3. n = 1
    BY <1>3, <2>2, OneLong
  <2>4. input[c] \o SubSeq(wire[c], 1, n) = <<r>>
    BY <1>1, <2>2, <2>3, ReadOne
  <2>5. /\ Complete(<<r>>) /\ End1(<<r>>) = 1 /\ Len(<<r>>) = 1
        /\ SubSeq(<<r>>, 1 + 1, 1) = <<>>
    BY ReadOne, OneLong
  <2> QED BY <2>1, <2>2, <2>3, <2>4, <2>5
<1> QED BY <1>2, <1>3

\* What the control requests do to the lease table.
LEMMA ControlTypes ==
  ASSUME TypeOK, NEW c \in Clients, NEW r, Control(c, r)
  PROVE  leases' \subseteq Processes /\ granted' \subseteq Processes /\ shutdown_requested' \in BOOLEAN
<1>1. ProcOf[c] \in Processes
  BY ClientsAssumption
<1>2. leases' \subseteq Processes
  <2>1. leases' \in {Live(leases) \cup {ProcOf[c]}, Live(leases \ {ProcOf[c]}), Live(leases), leases}
    BY DEF Control
  <2> QED BY <1>1, <2>1 DEF Live, TypeOK
<1>3. granted' \subseteq Processes
  BY <1>1 DEF Control, TypeOK
<1>4. shutdown_requested' \in BOOLEAN
  BY DEF Control
<1> QED BY <1>2, <1>3, <1>4

-----------------------------------------------------------------------------
(* Actions that leave every connection alone need only types.              *)

\* SocketInv speaks of connections only, apart from types.
LEMMA Frame ==
  ASSUME SocketInv, TypeOK',
         UNCHANGED <<conn, hung, late, wire, input, out, pending, buf, sent, dispatched, got>>
  PROVE  SocketInv'
BY DEF SocketInv, OneResponseEach, Unaccepted, OneAtATime, PromptShape, PromptStages,
       PromptExcused, Answered

\* Passes of the loop, sleeping and waking, and what the environment does beside it.
LEMMA QuietInv ==
  ASSUME SocketInv,
         \/ AcceptDone \/ StepDone \/ Stay \/ Sleep \/ Wake
         \/ IdleElapse \/ BackgroundDone \/ Launch
         \/ \E p \in Processes : Die(p)
  PROVE  SocketInv'
<1> USE Limits DEF SocketInv, TypeOK
<1>1. CASE AcceptDone
  <2>1. TypeOK'
    BY <1>1 DEF AcceptDone
  <2> QED BY <1>1, <2>1, Frame DEF AcceptDone
<1>2. CASE StepDone
  <2>1. TypeOK'
    BY <1>2 DEF StepDone
  <2> QED BY <1>2, <2>1, Frame DEF StepDone
<1>3. CASE Stay
  <2>1. TypeOK'
    BY <1>3 DEF Stay, Live
  <2> QED BY <1>3, <2>1, Frame DEF Stay
<1>4. CASE Sleep
  <2>1. TypeOK'
    BY <1>4 DEF Sleep
  <2> QED BY <1>4, <2>1, Frame DEF Sleep
<1>5. CASE Wake
  <2>1. TypeOK'
    BY <1>5 DEF Wake
  <2> QED BY <1>5, <2>1, Frame DEF Wake
<1>6. CASE IdleElapse
  <2>1. TypeOK'
    BY <1>6 DEF IdleElapse
  <2> QED BY <1>6, <2>1, Frame DEF IdleElapse
<1>7. CASE BackgroundDone
  <2>1. TypeOK'
    BY <1>7 DEF BackgroundDone
  <2> QED BY <1>7, <2>1, Frame DEF BackgroundDone
<1>8. CASE Launch
  <2>1. TypeOK'
    BY <1>8 DEF Launch
  <2> QED BY <1>8, <2>1, Frame DEF Launch
<1>9. ASSUME NEW p \in Processes, Die(p) PROVE SocketInv'
  <2>1. TypeOK'
    BY <1>9 DEF Die
  <2> QED BY <1>9, <2>1, Frame DEF Die
<1> QED BY <1>1, <1>2, <1>3, <1>4, <1>5, <1>6, <1>7, <1>8, <1>9

-----------------------------------------------------------------------------
(* Actions of clients.                                                     *)

\* A connection enters the backlog.
LEMMA ConnectInv ==
  ASSUME SocketInv, NEW c \in Clients, Connect(c)
  PROVE  SocketInv'
<1>1. TypeOK'
  BY ClientFacts, Limits DEF SocketInv, Connect, TypeOK
<1>2. OneResponseEach'
  BY ClientFacts, Limits DEF SocketInv, Connect, TypeOK, OneResponseEach, Unaccepted, OneAtATime
<1>3. Unaccepted'
  BY ClientFacts, Limits DEF SocketInv, Connect, TypeOK, Unaccepted
<1>4. OneAtATime'
  BY ClientFacts, Limits DEF SocketInv, Connect, TypeOK, OneAtATime, Unaccepted
<1>5. PromptShape'
  BY ClientFacts, Limits DEF SocketInv, Connect, TypeOK, PromptShape, PromptStages, Unaccepted
<1>6. PromptExcused'
  BY ClientFacts, Limits DEF SocketInv, Connect, TypeOK, PromptExcused, PromptShape, PromptStages, Unaccepted, OneResponseEach, OneAtATime, Answered
<1> QED BY <1>1, <1>2, <1>3, <1>4, <1>5, <1>6 DEF SocketInv

\* A chunk is sent: a prompt connection moves to its second stage.
LEMMA SendInv ==
  ASSUME SocketInv, NEW c \in Clients, Send(c)
  PROVE  SocketInv'
<1> PICK chunk \in Asks[c] : Sending(c, chunk)
  BY DEF Send
<1>0. chunk \in Chunks /\ (c \in Cli => chunk \in Requests)
  BY ClientsAssumption
<1>a. UNCHANGED <<place, quota, todo, conn, hung, late, input, out, pending, got, buf,
                  dispatched, leases, alive, shutdown_requested, idle, background>>
  BY DEF Sending
<1>b. wire' = [wire EXCEPT ![c] = Append(@, chunk)] /\ sent' = [sent EXCEPT ![c] = @ + 1]
      /\ granted' \subseteq Processes
  BY DEF Sending, SocketInv, TypeOK
<1>1. TypeOK'
  <2>1. wire' \in [Clients -> Seq(Chunks)] /\ sent' \in [Clients -> Nat]
    BY <1>0, <1>b DEF SocketInv, TypeOK
  <2> QED
    BY <1>a, <1>b, <2>1 DEF SocketInv, TypeOK
<1>2. PromptShape'
  <2> SUFFICES ASSUME NEW d \in Prompt
               PROVE  /\ conn[d] = "out" => sent'[d] = 0
                      /\ conn[d] # "gone" => input[d] = <<>> /\ PromptStages(d)'
    BY <1>a DEF PromptShape
  <2>1. CASE d # c
    BY <2>1, <1>a, <1>b DEF SocketInv, PromptShape, PromptStages, TypeOK
  <2>2. CASE d = c
    <3>1. conn[d] # "out" /\ sent[d] = 0 /\ chunk \in Requests
      BY <2>2, <1>0, ClientFacts DEF Send
    <3>2. conn[d] # "gone" => input[d] = <<>> /\ wire[d] = <<>> /\ dispatched[d] = 0
      BY <3>1 DEF SocketInv, PromptShape, PromptStages
    <3>3. wire[d] = <<>> => wire'[d] = <<chunk>>
      BY <2>2, <1>b DEF SocketInv, TypeOK
    <3>4. sent'[d] = 1
      BY <2>2, <3>1, <1>b DEF SocketInv, TypeOK
    <3> QED BY <3>1, <3>2, <3>3, <3>4, <1>a DEF PromptStages
  <2> QED BY <2>1, <2>2
<1>3. PromptExcused'
  <2> SUFFICES ASSUME NEW d \in Prompt, conn[d] # "gone"
               PROVE  /\ d \in hung => sent'[d] > 0 /\ Answered(d)'
                      /\ d \in late => (sent'[d] > 0 /\ Answered(d)') \/ pending[d] # "no"
    BY <1>a DEF PromptExcused
  <2>1. CASE d # c
    BY <2>1, <1>a, <1>b DEF SocketInv, PromptExcused, Answered, TypeOK
  <2>2. CASE d = c
    <3>1. d \notin hung
      BY <2>2 DEF Send
    <3>2. sent[d] = 0 /\ dispatched[d] = 0 /\ conn[d] \in {"backlog", "open"}
      BY <2>2 DEF Send, SocketInv, PromptShape, PromptStages
    <3>3. pending[d] = "no"
      <4>1. CASE conn[d] = "backlog"
        BY <4>1, ClientFacts DEF SocketInv, Unaccepted
      <4>2. CASE conn[d] = "open" /\ pending[d] # "no"
        <5>1. 0 = got[d] + buf[d] + ResponseUnits
          BY <3>2, <4>2, TimesZero, Count, Limits, ClientFacts
        <5>2. got[d] \in Nat /\ buf[d] \in Nat
          BY ClientTypes, ClientFacts DEF SocketInv
        <5> QED BY <5>1, <5>2, Limits
      <4> QED BY <3>2, <4>1, <4>2
    <3>4. ~(d \in late)
      BY <3>2, <3>3 DEF SocketInv, PromptExcused
    <3> QED BY <3>1, <3>4
  <2> QED BY <2>1, <2>2
<1>4. OneResponseEach' /\ Unaccepted' /\ OneAtATime'
  BY <1>a DEF SocketInv, OneResponseEach, Unaccepted, OneAtATime
<1> QED BY <1>1, <1>2, <1>3, <1>4 DEF SocketInv

\* A client reads: units move from the send buffer to the client.
LEMMA ReceiveInv ==
  ASSUME SocketInv, NEW c \in Clients, Receive(c)
  PROVE  SocketInv'
<1>0. buf[c] = 1 /\ buf' = [buf EXCEPT ![c] = 0] /\ got' = [got EXCEPT ![c] = @ + buf[c]]
  BY DEF SocketInv, TypeOK, Receive
<1>a. UNCHANGED <<place, quota, todo, conn, hung, late, wire, input, out, pending, sent,
                  dispatched, leases, granted, alive, shutdown_requested, idle, background>>
  BY DEF Receive
<1>1. TypeOK'
  BY <1>0, <1>a DEF SocketInv, TypeOK
<1>2. OneResponseEach'
  <2> SUFFICES ASSUME NEW d \in Open
               PROVE  dispatched[d] * ResponseUnits = got'[d] + buf'[d] + out[d]
                        + (IF pending[d] = "no" THEN 0 ELSE ResponseUnits)
    BY <1>a DEF OneResponseEach
  <2>1. got'[d] + buf'[d] = got[d] + buf[d]
    BY <1>0 DEF SocketInv, TypeOK
  <2> QED
    BY <2>1 DEF SocketInv, OneResponseEach
<1>3. PromptExcused'
  <2> SUFFICES ASSUME NEW d \in Prompt, conn[d] # "gone"
               PROVE  /\ d \in hung => sent'[d] > 0 /\ Answered(d)'
                      /\ d \in late => (sent'[d] > 0 /\ Answered(d)') \/ pending[d] # "no"
    BY <1>a DEF PromptExcused
  <2>1. CASE d # c
    BY <2>1, <1>0, <1>a DEF SocketInv, PromptExcused, Answered, TypeOK
  <2>2. CASE d = c
    <3>1. /\ got[d] \in Nat /\ out[d] \in Nat /\ conn[d] = "open"
          /\ (IF pending[d] = "no" THEN 0 ELSE ResponseUnits) \in Nat
      BY <2>2, <1>0, Limits DEF SocketInv, TypeOK, Unaccepted
    <3>2. dispatched[d] * ResponseUnits = got[d] + 1 + out[d]
             + (IF pending[d] = "no" THEN 0 ELSE ResponseUnits)
      BY <2>2, <3>1, <1>0 DEF SocketInv, OneResponseEach
    <3>3. ~Answered(d)
      BY <3>1, <3>2 DEF Answered
    <3> QED
      BY <3>3, <2>2, <1>a DEF SocketInv, PromptExcused
  <2> QED BY <2>1, <2>2
<1>4. Unaccepted'
  BY <1>0, <1>a DEF SocketInv, Unaccepted, TypeOK
<1>5. OneAtATime' /\ PromptShape'
  BY <1>a DEF SocketInv, OneAtATime, PromptShape, PromptStages
<1> QED BY <1>1, <1>2, <1>3, <1>4, <1>5 DEF SocketInv

\* A client closes its end.
LEMMA HangupInv ==
  ASSUME SocketInv, NEW c \in Clients, Hangup(c)
  PROVE  SocketInv'
<1>1. TypeOK'
  BY ClientFacts, Limits DEF SocketInv, Hangup, TypeOK
<1>2. OneResponseEach'
  BY ClientFacts, Limits DEF SocketInv, Hangup, TypeOK, OneResponseEach, Unaccepted, OneAtATime
<1>3. Unaccepted'
  BY ClientFacts, Limits DEF SocketInv, Hangup, TypeOK, Unaccepted
<1>4. OneAtATime'
  BY ClientFacts, Limits DEF SocketInv, Hangup, TypeOK, OneAtATime, Unaccepted
<1>5. PromptShape'
  BY ClientFacts, Limits DEF SocketInv, Hangup, TypeOK, PromptShape, PromptStages, Unaccepted
<1>6. PromptExcused'
  BY ClientFacts, Limits DEF SocketInv, Hangup, TypeOK, PromptExcused, PromptShape, PromptStages, Unaccepted, OneResponseEach, OneAtATime, Answered
<1> QED BY <1>1, <1>2, <1>3, <1>4, <1>5, <1>6 DEF SocketInv

-----------------------------------------------------------------------------
(* Actions of the loop, of workers and of the clock.                       *)

\* A connection is accepted into the table, or refused at its limit.
LEMMA AcceptOneInv ==
  ASSUME SocketInv, NEW c \in Clients, AcceptOne(c)
  PROVE  SocketInv'
<1>1. TypeOK'
  BY ClientFacts, Limits DEF SocketInv, AcceptOne, TypeOK
<1>2. OneResponseEach'
  BY ClientFacts, Limits DEF SocketInv, AcceptOne, TypeOK, OneResponseEach, Unaccepted, OneAtATime
<1>3. Unaccepted'
  BY ClientFacts, Limits DEF SocketInv, AcceptOne, TypeOK, Unaccepted
<1>4. OneAtATime'
  BY ClientFacts, Limits DEF SocketInv, AcceptOne, TypeOK, OneAtATime, Unaccepted
<1>5. PromptShape'
  BY ClientFacts, Limits DEF SocketInv, AcceptOne, TypeOK, PromptShape, PromptStages, Unaccepted
<1>6. PromptExcused'
  <2> SUFFICES ASSUME NEW d \in Prompt, conn'[d] # "gone"
               PROVE  /\ d \in hung => sent[d] > 0 /\ Answered(d)
                      /\ d \in late => (sent[d] > 0 /\ Answered(d)) \/ pending[d] # "no"
    BY DEF AcceptOne, PromptExcused, Answered
  <2>1. CASE d # c
    BY <2>1 DEF AcceptOne, SocketInv, PromptExcused, TypeOK
  <2>2. CASE d = c
    BY <2>2 DEF AcceptOne, SocketInv, TypeOK, Unaccepted, PromptExcused, Answered
  <2> QED BY <2>1, <2>2
<1> QED BY <1>1, <1>2, <1>3, <1>4, <1>5, <1>6 DEF SocketInv

\* The daemon ends on a failed accept.
LEMMA AcceptErrorInv ==
  ASSUME SocketInv, AcceptError
  PROVE  SocketInv'
<1>1. TypeOK'
  BY ClientFacts, Limits DEF SocketInv, AcceptError, End, TypeOK
<1>2. OneResponseEach'
  BY ClientFacts, Limits DEF SocketInv, AcceptError, End, TypeOK, OneResponseEach, Unaccepted, OneAtATime
<1>3. Unaccepted'
  BY ClientFacts, Limits DEF SocketInv, AcceptError, End, TypeOK, Unaccepted
<1>4. OneAtATime'
  BY ClientFacts, Limits DEF SocketInv, AcceptError, End, TypeOK, OneAtATime, Unaccepted
<1>5. PromptShape'
  BY ClientFacts, Limits DEF SocketInv, AcceptError, End, TypeOK, PromptShape, PromptStages, Unaccepted
<1>6. PromptExcused'
  BY ClientFacts, Limits DEF SocketInv, AcceptError, End, TypeOK, PromptExcused, PromptShape, PromptStages, Unaccepted, OneResponseEach, OneAtATime, Answered
<1> QED BY <1>1, <1>2, <1>3, <1>4, <1>5, <1>6 DEF SocketInv

\* The daemon leaves on request.
LEMMA ExitOnShutdownInv ==
  ASSUME SocketInv, ExitOnShutdown
  PROVE  SocketInv'
<1>1. TypeOK'
  BY ClientFacts, Limits DEF SocketInv, ExitOnShutdown, End, Live, TypeOK
<1>2. OneResponseEach'
  BY ClientFacts, Limits DEF SocketInv, ExitOnShutdown, End, Live, TypeOK, OneResponseEach, Unaccepted, OneAtATime
<1>3. Unaccepted'
  BY ClientFacts, Limits DEF SocketInv, ExitOnShutdown, End, Live, TypeOK, Unaccepted
<1>4. OneAtATime'
  BY ClientFacts, Limits DEF SocketInv, ExitOnShutdown, End, Live, TypeOK, OneAtATime, Unaccepted
<1>5. PromptShape'
  BY ClientFacts, Limits DEF SocketInv, ExitOnShutdown, End, Live, TypeOK, PromptShape, PromptStages, Unaccepted
<1>6. PromptExcused'
  BY ClientFacts, Limits DEF SocketInv, ExitOnShutdown, End, Live, TypeOK, PromptExcused, PromptShape, PromptStages, Unaccepted, OneResponseEach, OneAtATime, Answered
<1> QED BY <1>1, <1>2, <1>3, <1>4, <1>5, <1>6 DEF SocketInv

\* The daemon idles out.
LEMMA ExitOnIdleInv ==
  ASSUME SocketInv, ExitOnIdle
  PROVE  SocketInv'
<1>1. TypeOK'
  BY ClientFacts, Limits DEF SocketInv, ExitOnIdle, End, Live, TypeOK
<1>2. OneResponseEach'
  BY ClientFacts, Limits DEF SocketInv, ExitOnIdle, End, Live, TypeOK, OneResponseEach, Unaccepted, OneAtATime
<1>3. Unaccepted'
  BY ClientFacts, Limits DEF SocketInv, ExitOnIdle, End, Live, TypeOK, Unaccepted
<1>4. OneAtATime'
  BY ClientFacts, Limits DEF SocketInv, ExitOnIdle, End, Live, TypeOK, OneAtATime, Unaccepted
<1>5. PromptShape'
  BY ClientFacts, Limits DEF SocketInv, ExitOnIdle, End, Live, TypeOK, PromptShape, PromptStages, Unaccepted
<1>6. PromptExcused'
  BY ClientFacts, Limits DEF SocketInv, ExitOnIdle, End, Live, TypeOK, PromptExcused, PromptShape, PromptStages, Unaccepted, OneResponseEach, OneAtATime, Answered
<1> QED BY <1>1, <1>2, <1>3, <1>4, <1>5, <1>6 DEF SocketInv

\* A deadline passes while the loop sleeps.
LEMMA ExpireInv ==
  ASSUME SocketInv, NEW c \in Clients, Expire(c)
  PROVE  SocketInv'
<1>1. TypeOK'
  BY ClientFacts, Limits DEF SocketInv, Expire, Asleep, NeedsNothing, FdReady, TypeOK
<1>2. OneResponseEach'
  BY ClientFacts, Limits DEF SocketInv, Expire, Asleep, NeedsNothing, FdReady, TypeOK, OneResponseEach, Unaccepted, OneAtATime
<1>3. Unaccepted'
  BY ClientFacts, Limits DEF SocketInv, Expire, Asleep, NeedsNothing, FdReady, TypeOK, Unaccepted
<1>4. OneAtATime'
  BY ClientFacts, Limits DEF SocketInv, Expire, Asleep, NeedsNothing, FdReady, TypeOK, OneAtATime, Unaccepted
<1>5. PromptShape'
  BY ClientFacts, Limits DEF SocketInv, Expire, Asleep, NeedsNothing, FdReady, TypeOK, PromptShape, PromptStages, Unaccepted
<1>6. PromptExcused'
  <2> SUFFICES ASSUME NEW d \in Prompt, conn[d] # "gone"
               PROVE  /\ d \in hung => sent[d] > 0 /\ Answered(d)
                      /\ d \in late' => (sent[d] > 0 /\ Answered(d)) \/ pending[d] # "no"
    BY DEF Expire, PromptExcused, Answered
  <2>1. CASE d # c
    BY <2>1 DEF Expire, SocketInv, PromptExcused
  <2>2. CASE d = c
    <3>1. d \notin hung
      BY <2>2 DEF Expire, NeedsNothing, FdReady
    <3>2. ASSUME pending[d] = "no" PROVE Answered(d)
      <4>1. sent[d] > 0 /\ buf[d] = 0 /\ out[d] = 0 /\ wire[d] = <<>>
        BY <2>2, <3>2 DEF Expire, NeedsNothing, FdReady, SocketInv, TypeOK
      <4>2. sent[d] = 1 /\ dispatched[d] = 1
        <5>1. PromptStages(d)
          BY <2>2 DEF Expire, SocketInv, PromptShape
        <5> QED BY <5>1, <4>1, OneLong DEF PromptStages
      <4>3. dispatched[d] * ResponseUnits = got[d]
        BY <4>1, <3>2, <2>2, Count, ClientTypes DEF SocketInv, Expire
      <4> QED BY <4>2, <4>3 DEF Answered
    <3>3. sent[d] > 0
      BY <2>2 DEF Expire
    <3> QED BY <3>1, <3>2, <3>3
  <2> QED BY <2>1, <2>2
<1> QED BY <1>1, <1>2, <1>3, <1>4, <1>5, <1>6 DEF SocketInv

\* A worker answers or dies.
LEMMA WorkerEndsInv ==
  ASSUME SocketInv, NEW c \in Clients, NEW how \in {"done", "dead"}, WorkerEnds(c, how)
  PROVE  SocketInv'
<1>1. TypeOK'
  BY ClientFacts, Limits DEF SocketInv, WorkerEnds, TypeOK
<1>2. OneResponseEach'
  BY ClientFacts, Limits DEF SocketInv, WorkerEnds, TypeOK, OneResponseEach, Unaccepted, OneAtATime
<1>3. Unaccepted'
  BY ClientFacts, Limits DEF SocketInv, WorkerEnds, TypeOK, Unaccepted
<1>4. OneAtATime'
  BY ClientFacts, Limits DEF SocketInv, WorkerEnds, TypeOK, OneAtATime, Unaccepted
<1>5. PromptShape'
  BY ClientFacts, Limits DEF SocketInv, WorkerEnds, TypeOK, PromptShape, PromptStages, Unaccepted
<1>6. PromptExcused'
  BY ClientFacts, Limits DEF SocketInv, WorkerEnds, TypeOK, PromptExcused, PromptShape, PromptStages, Unaccepted, OneResponseEach, OneAtATime, Answered
<1> QED BY <1>1, <1>2, <1>3, <1>4, <1>5, <1>6 DEF SocketInv

\* A client is dropped: nothing is claimed of a connection that is gone.
LEMMA DropInv ==
  ASSUME SocketInv, NEW c \in Clients, Stepping(c), Drop(c)
  PROVE  SocketInv'
<1> USE DEF SocketInv, Stepping, Drop
<1>1. TypeOK'
  BY DEF TypeOK
<1>2. OneResponseEach' /\ Unaccepted' /\ OneAtATime'
  BY DEF TypeOK, OneResponseEach, Unaccepted, OneAtATime
<1>3. PromptShape' /\ PromptExcused'
  BY ClientFacts DEF TypeOK, PromptShape, PromptStages, PromptExcused, Answered
<1> QED BY <1>1, <1>2, <1>3

\* A pending client: the response, if there is one, is queued and written.
LEMMA StepPendingInv ==
  ASSUME SocketInv, NEW c \in Clients, StepPending(c)
  PROVE  SocketInv'
<1> USE DEF SocketInv
<1>a. /\ UNCHANGED <<place, quota, late, hung, sent, got, alive, background>>
      /\ UNCHANGED <<input, dispatched, leases, shutdown_requested, granted, idle>>
      /\ todo' = todo \ {c} /\ c \in todo /\ conn[c] = "open" /\ pending[c] # "no" /\ c \notin late
  BY DEF StepPending, Stepping, TypeOK
<1>b. PICK s \in Probed(wire[c]) : wire' = [wire EXCEPT ![c] = s]
  BY DEF StepPending
<1>c. wire' \in [Clients -> Seq(Chunks)]
  BY <1>b, ProbedType, ClientTypes DEF TypeOK
<1>d. c \in Prompt => wire[c] = <<>> /\ s = <<>> /\ c \notin hung
  <2> SUFFICES ASSUME c \in Prompt PROVE wire[c] = <<>> /\ s = <<>> /\ c \notin hung
    OBVIOUS
  <2>1. dispatched[c] # 0
    BY <1>a, Count, ClientTypes, Limits, TimesZero
  <2>2. wire[c] = <<>>
    BY <1>a, <2>1 DEF PromptShape, PromptStages
  <2>3. c \notin hung
    BY <1>a, AnsweredIdle DEF PromptExcused
  <2> QED BY <2>2, <2>3, <1>b DEF Probed
<1>1. CASE pending[c] = "done"
  <2>1. Write(c, ResponseUnits) /\ pending' = [pending EXCEPT ![c] = "no"]
    BY <1>1 DEF StepPending
  <2>2. ResponseUnits \in 0..ResponseUnits
    BY Limits
  <2>3. /\ out' \in [Clients -> 0..ResponseUnits]
        /\ buf' \in [Clients -> {0, 1}]
        /\ conn' \in [Clients -> {"out", "backlog", "open", "gone"}]
        /\ \A d \in Clients \ {c} : out'[d] = out[d] /\ buf'[d] = buf[d] /\ conn'[d] = conn[d]
        /\ c \in hung => conn'[c] = "gone"
        /\ c \notin hung => conn'[c] = conn[c] /\ out'[c] + buf'[c] = ResponseUnits + buf[c]
    BY <2>1, <2>2, WriteEffect
  <2>4. pending' \in [Clients -> {"no", "busy", "done", "dead"}]
        /\ pending'[c] = "no" /\ \A d \in Clients \ {c} : pending'[d] = pending[d]
    BY <2>1 DEF TypeOK
  <2>5. TypeOK'
    <3>1. todo' \subseteq Open'
      BY <1>a, <2>3 DEF TypeOK
    <3> QED BY <1>a, <1>c, <2>3, <2>4, <3>1 DEF TypeOK
  <2>6. OneResponseEach'
    <3> SUFFICES ASSUME NEW d \in Clients, conn'[d] = "open"
                 PROVE  dispatched[d] * ResponseUnits = got[d] + buf'[d] + out'[d]
                          + (IF pending'[d] = "no" THEN 0 ELSE ResponseUnits)
      BY <1>a DEF OneResponseEach
    <3>1. CASE d # c
      BY <3>1, <2>3, <2>4 DEF OneResponseEach
    <3>2. CASE d = c
      <4>1. dispatched[c] * ResponseUnits = got[c] + buf[c] + ResponseUnits
        BY <1>a, Count
      <4>2. out'[c] + buf'[c] = ResponseUnits + buf[c]
        BY <3>2, <2>3
      <4>3. got[c] \in Nat /\ buf[c] \in Nat
        BY ClientTypes
      <4>4. out'[c] \in Nat /\ buf'[c] \in Nat
        BY <2>3, Limits
      <4> QED BY <3>2, <4>1, <4>2, <4>3, <4>4, <2>4, Limits
    <3> QED BY <3>1, <3>2
  <2>7. Unaccepted'
    BY <1>a, <2>3, <2>4 DEF Unaccepted
  <2>8. OneAtATime'
    BY <1>a, <2>3, <2>4 DEF OneAtATime
  <2>9. PromptShape'
    <3>1. \A d \in Prompt : wire'[d] = wire[d]
      BY <1>b, <1>d, ClientFacts DEF TypeOK
    <3>2. \A d \in Prompt : conn'[d] = conn[d] \/ conn'[d] = "gone"
      BY <2>3, ClientFacts
    <3> QED
      BY <1>a, <3>1, <3>2 DEF PromptShape, PromptStages
  <2>10. PromptExcused'
    BY <1>a, <1>d, <2>3, <2>4, ClientFacts DEF PromptExcused, Answered
  <2> QED BY <2>5, <2>6, <2>7, <2>8, <2>9, <2>10
<1>2. CASE pending[c] # "done"
  <2>1. UNCHANGED <<out, buf, conn, pending>>
    BY <1>2 DEF StepPending, NoWrite
  <2>2. TypeOK'
    BY <1>a, <1>c, <2>1 DEF TypeOK
  <2>3. OneResponseEach' /\ Unaccepted' /\ OneAtATime' /\ PromptExcused'
    BY <1>a, <2>1 DEF OneResponseEach, Unaccepted, OneAtATime, PromptExcused, Answered
  <2>4. PromptShape'
    BY <1>a, <1>b, <1>d, <2>1, ClientFacts DEF PromptShape, PromptStages, TypeOK
  <2> QED BY <2>2, <2>3, <2>4
<1> QED BY <1>1, <1>2

\* More of a queued response is written.
LEMMA StepWriteInv ==
  ASSUME SocketInv, NEW c \in Clients, StepWrite(c)
  PROVE  SocketInv'
<1> USE DEF SocketInv
<1>a. /\ UNCHANGED <<place, quota, late, hung, sent, got, alive, background>>
      /\ UNCHANGED <<input, pending, wire, dispatched, leases, shutdown_requested, granted, idle>>
      /\ todo' = todo \ {c} /\ c \in todo /\ conn[c] = "open" /\ pending[c] = "no" /\ c \notin late
  BY DEF StepWrite, Stepping, TypeOK
<1>b. out[c] \in 0..ResponseUnits /\ Write(c, out[c])
  BY DEF StepWrite, TypeOK
<1>1. /\ out' \in [Clients -> 0..ResponseUnits]
      /\ buf' \in [Clients -> {0, 1}]
      /\ conn' \in [Clients -> {"out", "backlog", "open", "gone"}]
      /\ \A d \in Clients \ {c} : out'[d] = out[d] /\ buf'[d] = buf[d] /\ conn'[d] = conn[d]
      /\ c \in hung => conn'[c] = "gone"
      /\ c \notin hung => conn'[c] = conn[c] /\ out'[c] + buf'[c] = out[c] + buf[c]
  BY <1>b, WriteEffect
<1>2. TypeOK'
  <2>1. todo' \subseteq Open'
    BY <1>a, <1>1 DEF TypeOK
  <2> QED BY <1>a, <1>1, <2>1 DEF TypeOK
<1>3. OneResponseEach'
  <2> SUFFICES ASSUME NEW d \in Clients, conn'[d] = "open"
               PROVE  dispatched[d] * ResponseUnits = got[d] + buf'[d] + out'[d]
                        + (IF pending[d] = "no" THEN 0 ELSE ResponseUnits)
    BY <1>a DEF OneResponseEach
  <2>1. CASE d # c
    BY <2>1, <1>1 DEF OneResponseEach
  <2>2. CASE d = c
    <3>1. dispatched[c] * ResponseUnits = got[c] + buf[c] + out[c]
      BY <1>a, Count
    <3>2. out'[c] + buf'[c] = out[c] + buf[c]
      BY <2>2, <1>1
    <3>3. got[c] \in Nat /\ buf[c] \in Nat /\ out[c] \in Nat
      BY ClientTypes
    <3>4. out'[c] \in Nat /\ buf'[c] \in Nat
      BY <1>1, Limits
    <3> QED BY <2>2, <3>1, <3>2, <3>3, <3>4, <1>a
  <2> QED BY <2>1, <2>2
<1>4. Unaccepted' /\ OneAtATime' /\ PromptShape'
  BY <1>a, <1>1, ClientFacts DEF Unaccepted, OneAtATime, PromptShape, PromptStages
<1>5. PromptExcused'
  BY <1>a, <1>1, ClientFacts DEF PromptExcused, Answered
<1> QED BY <1>2, <1>3, <1>4, <1>5

\* Input is read and the first complete request dispatched.
LEMMA StepReadInv ==
  ASSUME SocketInv, NEW c \in Clients, StepRead(c)
  PROVE  SocketInv'
<1> USE DEF SocketInv
<1>0. PICK n \in (IF wire[c] = <<>> THEN {0} ELSE 1..Len(wire[c])) :
        LET inp == input[c] \o SubSeq(wire[c], 1, n) IN
        IF Len(inp) > MaxInput THEN Drop(c)
        ELSE
        /\ wire' = [wire EXCEPT ![c] = SubSeq(@, n + 1, Len(@))]
        /\ IF Complete(inp)
             THEN /\ input' = [input EXCEPT ![c] = SubSeq(inp, End1(inp) + 1, Len(inp))]
                  /\ Dispatch(c, FirstRequest(inp))
             ELSE /\ input' = [input EXCEPT ![c] = inp]
                  /\ NoWrite
                  /\ UNCHANGED <<pending, dispatched, controlVars, idle>>
  BY DEF StepRead
<1> DEFINE inp == input[c] \o SubSeq(wire[c], 1, n)
<1>a. /\ UNCHANGED <<place, quota, late, hung, sent, got, alive, background>>
      /\ todo' = todo \ {c} /\ c \in todo /\ conn[c] = "open" /\ pending[c] = "no"
      /\ out[c] = 0 /\ c \notin late /\ ~AtEof(c) /\ Stepping(c)
  BY DEF StepRead, Stepping, TypeOK
<1>b. n \in Nat /\ n <= Len(wire[c]) /\ wire[c] \in Seq(Chunks) /\ input[c] \in Seq(Chunks)
      /\ Len(wire[c]) \in Nat
  BY ClientTypes
<1>c. inp \in Seq(Chunks) /\ SubSeq(wire[c], n + 1, Len(wire[c])) \in Seq(Chunks)
  <2>1. SubSeq(wire[c], 1, n) \in Seq(Chunks) /\ SubSeq(wire[c], n + 1, Len(wire[c])) \in Seq(Chunks)
    BY <1>b, SubSeqProperties
  <2> QED BY <1>b, <2>1
<1>1. CASE Len(inp) > MaxInput
  BY <1>0, <1>1, <1>a, DropInv
<1>2. CASE ~(Len(inp) > MaxInput) /\ ~Complete(inp)
  <2>1. /\ wire' = [wire EXCEPT ![c] = SubSeq(@, n + 1, Len(@))]
        /\ input' = [input EXCEPT ![c] = inp]
        /\ UNCHANGED <<out, buf, conn, pending, dispatched, leases, shutdown_requested, granted, idle>>
    BY <1>0, <1>2 DEF NoWrite
  <2>2. TypeOK'
    <3>1. wire' \in [Clients -> Seq(Chunks)] /\ input' \in [Clients -> Seq(Chunks)]
      BY <2>1, <1>c DEF TypeOK
    <3> QED BY <3>1, <1>a, <2>1 DEF TypeOK
  <2>3. OneResponseEach' /\ OneAtATime' /\ PromptExcused'
    BY <1>a, <2>1 DEF OneResponseEach, OneAtATime, PromptExcused, Answered
  <2>4. Unaccepted'
    BY <1>a, <2>1 DEF Unaccepted, TypeOK
  <2>5. PromptShape'
    <3>1. c \in Prompt => wire'[c] = wire[c] /\ input'[c] = input[c]
      <4> HAVE c \in Prompt
      <4>1. wire[c] = <<>> /\ n = 0 /\ inp = <<>>
        BY <1>2, <1>a, PromptRead
      <4>2. input[c] = <<>>
        BY <1>a DEF PromptShape
      <4>3. wire'[c] = SubSeq(wire[c], 1, Len(wire[c])) /\ input'[c] = inp
        BY <2>1, <4>1 DEF TypeOK
      <4>4. SubSeq(wire[c], 1, Len(wire[c])) = wire[c]
        BY <1>b, SubSeqFull
      <4> QED BY <4>1, <4>2, <4>3, <4>4
    <3>2. \A d \in Prompt : wire'[d] = wire[d] /\ input'[d] = input[d]
      BY <3>1, <2>1, ClientFacts DEF TypeOK
    <3> QED BY <3>2, <1>a, <2>1 DEF PromptShape, PromptStages
  <2> QED BY <2>2, <2>3, <2>4, <2>5
<1>3. CASE ~(Len(inp) > MaxInput) /\ Complete(inp)
  <2>1. /\ wire' = [wire EXCEPT ![c] = SubSeq(@, n + 1, Len(@))]
        /\ input' = [input EXCEPT ![c] = SubSeq(inp, End1(inp) + 1, Len(inp))]
        /\ Dispatch(c, FirstRequest(inp))
    BY <1>0, <1>3
  <2>2. /\ dispatched' = [dispatched EXCEPT ![c] = @ + 1]
        /\ idle' = FALSE /\ Control(c, FirstRequest(inp))
    BY <2>1 DEF Dispatch
  <2>3. /\ wire' \in [Clients -> Seq(Chunks)] /\ input' \in [Clients -> Seq(Chunks)]
        /\ dispatched' \in [Clients -> Nat]
    <3>1. End1(inp) \in 1..Len(inp)
      BY <1>c, <1>3, End1Type
    <3>2. SubSeq(inp, End1(inp) + 1, Len(inp)) \in Seq(Chunks)
      <4>1. End1(inp) + 1 \in Int /\ Len(inp) \in Int
        BY <1>c, <3>1
      <4> HIDE DEF inp
      <4>2. \A i \in (End1(inp) + 1)..Len(inp) : inp[i] \in Chunks
        BY <1>c, <3>1
      <4> QED BY <4>1, <4>2, SubSeqProperties
    <3> HIDE DEF inp
    <3>3. wire' \in [Clients -> Seq(Chunks)]
      BY <2>1, <1>c DEF TypeOK
    <3>4. input' \in [Clients -> Seq(Chunks)]
      BY <2>1, <3>2 DEF TypeOK
    <3>5. dispatched' \in [Clients -> Nat]
      BY <2>2 DEF TypeOK
    <3> QED BY <3>3, <3>4, <3>5
  <2>4. leases' \subseteq Processes /\ granted' \subseteq Processes /\ shutdown_requested' \in BOOLEAN
    BY <2>2, ControlTypes
  <2>5. /\ out' \in [Clients -> 0..ResponseUnits]
        /\ buf' \in [Clients -> {0, 1}]
        /\ conn' \in [Clients -> {"out", "backlog", "open", "gone"}]
        /\ pending' \in [Clients -> {"no", "busy", "done", "dead"}]
        /\ \A d \in Clients \ {c} : /\ out'[d] = out[d] /\ buf'[d] = buf[d]
                                    /\ conn'[d] = conn[d] /\ pending'[d] = pending[d]
        /\ conn'[c] \in {"open", "gone"}
        /\ conn'[c] = "open" =>
             \/ pending'[c] = "no" /\ out'[c] + buf'[c] = ResponseUnits + buf[c]
             \/ pending'[c] = "busy" /\ out'[c] = 0 /\ buf'[c] = buf[c]
    <3> HIDE DEF inp
    <3>1. CASE FirstRequest(inp) = "work"
      <4>1. UNCHANGED <<out, buf, conn>> /\ pending' = [pending EXCEPT ![c] = "busy"]
        BY <2>1, <3>1 DEF Dispatch, NoWrite
      <4> QED BY <4>1, <1>a DEF TypeOK
    <3>2. CASE FirstRequest(inp) # "work"
      <4>1. Write(c, ResponseUnits) /\ UNCHANGED pending
        BY <2>1, <3>2 DEF Dispatch
      <4>2. ResponseUnits \in 0..ResponseUnits
        BY Limits
      <4> QED BY <4>1, <4>2, <1>a, WriteEffect DEF TypeOK
    <3> QED BY <3>1, <3>2
  <2>6. TypeOK'
    <3>1. todo' \subseteq Open'
      BY <1>a, <2>5 DEF TypeOK
    <3> QED BY <1>a, <2>2, <2>3, <2>4, <2>5, <3>1 DEF TypeOK
  <2>7. OneResponseEach'
    <3> SUFFICES ASSUME NEW d \in Clients, conn'[d] = "open"
                 PROVE  dispatched'[d] * ResponseUnits = got[d] + buf'[d] + out'[d]
                          + (IF pending'[d] = "no" THEN 0 ELSE ResponseUnits)
      BY <1>a DEF OneResponseEach
    <3>1. CASE d # c
      <4>1. dispatched'[d] = dispatched[d]
        BY <3>1, <2>2 DEF TypeOK
      <4> QED BY <3>1, <4>1, <2>5 DEF OneResponseEach
    <3>2. CASE d = c
      <4>1. dispatched'[c] = dispatched[c] + 1
        BY <2>2 DEF TypeOK
      <4>2. dispatched'[c] * ResponseUnits = dispatched[c] * ResponseUnits + ResponseUnits
        BY <4>1, TimesSucc, ClientTypes, Limits
      <4>3. dispatched[c] * ResponseUnits = got[c] + buf[c]
        BY <1>a, Count, ClientTypes
      <4>4. got[c] \in Nat /\ buf[c] \in Nat
        BY ClientTypes
      <4>5. out'[c] \in Nat /\ buf'[c] \in Nat
        BY <2>5, Limits
      <4>6. CASE pending'[c] = "no" /\ out'[c] + buf'[c] = ResponseUnits + buf[c]
        BY <3>2, <4>2, <4>3, <4>4, <4>5, <4>6, Limits
      <4>7. CASE pending'[c] = "busy" /\ out'[c] = 0 /\ buf'[c] = buf[c]
        BY <3>2, <4>2, <4>3, <4>4, <4>7, Limits
      <4> QED BY <3>2, <4>6, <4>7, <2>5
    <3> QED BY <3>1, <3>2
  <2>8. Unaccepted'
    <3> HIDE DEF inp
    <3>1. \A d \in Clients \ {c} : dispatched'[d] = dispatched[d] /\ input'[d] = input[d]
      BY <2>1, <2>2 DEF TypeOK
    <3> QED BY <1>a, <2>5, <3>1 DEF Unaccepted
  <2>9. OneAtATime'
    BY <1>a, <2>5 DEF OneAtATime
  <2>10. c \in Prompt => /\ sent[c] = 1 /\ dispatched[c] = 0
                         /\ wire'[c] = <<>> /\ input'[c] = <<>> /\ dispatched'[c] = 1
    <3> HAVE c \in Prompt
    <3>1. /\ sent[c] = 1 /\ dispatched[c] = 0
          /\ SubSeq(inp, End1(inp) + 1, Len(inp)) = <<>>
          /\ SubSeq(wire[c], n + 1, Len(wire[c])) = <<>>
      <4>1. inp # <<>>
        <5>1. ~Complete(<<>>)
          BY DEF Complete
        <5> QED BY <5>1, <1>3
      <4> QED BY <4>1, <1>a, PromptRead
    <3> HIDE DEF inp
    <3> QED BY <3>1, <2>1, <2>2 DEF TypeOK
  <2>11. PromptShape'
    <3> HIDE DEF inp
    <3>1. \A d \in Prompt \ {c} : /\ dispatched'[d] = dispatched[d] /\ input'[d] = input[d]
                                  /\ wire'[d] = wire[d] /\ conn'[d] = conn[d]
      BY <2>1, <2>2, <2>5, ClientFacts DEF TypeOK
    <3>2. \A d \in Prompt \ {c} : PromptStages(d)' <=> PromptStages(d)
      BY <3>1, <1>a DEF PromptStages
    <3>3. c \in Prompt => PromptStages(c)' /\ input'[c] = <<>>
      BY <2>10, <1>a DEF PromptStages
    <3> QED BY <1>a, <2>5, <3>1, <3>2, <3>3 DEF PromptShape
  <2>12. PromptExcused'
    <3>1. c \in Prompt => c \notin hung
      BY <2>10, <1>a DEF PromptExcused, Answered
    <3>2. \A d \in Prompt \ {c} : dispatched'[d] = dispatched[d] /\ pending'[d] = pending[d] /\ conn'[d] = conn[d]
      BY <2>2, <2>5, ClientFacts DEF TypeOK
    <3> QED BY <1>a, <3>1, <3>2 DEF PromptExcused, Answered
  <2> QED BY <2>6, <2>7, <2>8, <2>9, <2>11, <2>12
<1> QED BY <1>1, <1>2, <1>3

-----------------------------------------------------------------------------
\* The invariant holds before the first daemon is started.
LEMMA InitInv == Init => SocketInv
<1> SUFFICES ASSUME Init PROVE SocketInv
  OBVIOUS
<1>0. /\ wire \in [Clients -> Seq(Chunks)] /\ input \in [Clients -> Seq(Chunks)]
      /\ conn \in [Clients -> {"out", "backlog", "open", "gone"}]
      /\ pending \in [Clients -> {"no", "busy", "done", "dead"}]
      /\ out \in [Clients -> 0..ResponseUnits] /\ buf \in [Clients -> {0, 1}]
      /\ sent \in [Clients -> Nat] /\ dispatched \in [Clients -> Nat] /\ got \in [Clients -> Nat]
  BY Limits DEF Init
<1>a. quota \in 0..MaxClients
  BY Limits DEF Init
<1>1. TypeOK
  BY <1>0, <1>a DEF Init, TypeOK
<1>2. OneResponseEach /\ Unaccepted /\ OneAtATime
  BY DEF Init, OneResponseEach, Unaccepted, OneAtATime
<1>3. PromptShape /\ PromptExcused
  BY ClientFacts DEF Init, PromptShape, PromptStages, PromptExcused
<1> QED BY <1>1, <1>2, <1>3 DEF SocketInv

\* Every step preserves the invariant.
LEMMA StepInv == SocketInv /\ [Next]_vars => SocketInv'
<1> SUFFICES ASSUME SocketInv, [Next]_vars PROVE SocketInv'
  OBVIOUS
<1>1. CASE LoopNext
  <2>1. ASSUME NEW c \in Clients, Step(c) PROVE SocketInv'
    BY <2>1, DropInv, StepPendingInv, StepWriteInv, StepReadInv
       DEF Step, StepLate, StepPendingEnd, StepReadEnd
  <2> QED BY <1>1, <2>1, AcceptOneInv, QuietInv, ExitOnShutdownInv, ExitOnIdleInv DEF LoopNext
<1>2. CASE ClientNext
  BY <1>2, ConnectInv, SendInv, ReceiveInv, HangupInv, QuietInv DEF ClientNext
<1>3. CASE Environment
  BY <1>3, ExpireInv, WorkerEndsInv, QuietInv, AcceptErrorInv
     DEF Environment, WorkerDone, WorkerDies
<1>4. CASE UNCHANGED vars
  <2>1. TypeOK'
    BY <1>4 DEF SocketInv, TypeOK
  <2> QED BY <1>4, <2>1, Frame
<1> QED BY <1>1, <1>2, <1>3, <1>4 DEF Next

\* The inductive invariant holds in every reachable state.
THEOREM SocketInduction == Spec => []SocketInv
BY InitInv, StepInv, PTL DEF Spec

\* The loop's state is always well typed: the table, the buffers and the lease set.
THEOREM SocketTyped == Spec => []TypeOK
BY SocketInduction, PTL DEF SocketInv

\* Every dispatched request of an open connection has exactly one response, for any
\* number of clients, any response length and any chunking of the input.
THEOREM ResponsesCounted == Spec => []OneResponseEach
BY SocketInduction, PTL DEF SocketInv

\* A step that closes a prompt connection finds it answered, or waiting for a worker.
LEMMA PromptStep ==
  ASSUME SocketInv, [Next]_vars, ~AcceptFaults, NEW c \in Prompt,
         conn[c] = "open", conn'[c] = "gone"
  PROVE  Answered(c) \/ pending[c] # "no"
<1> SUFFICES ASSUME pending[c] = "no" PROVE Answered(c)
  OBVIOUS
<1>0. c \in Clients /\ (c \in hung => Answered(c)) /\ (c \in late => Answered(c))
  BY ClientFacts DEF SocketInv, PromptExcused
<1>1. ASSUME NEW d \in Clients, Step(d) PROVE Answered(c)
  <2>1. conn'[c] # conn[c] => d = c
    BY <1>1, <1>0 DEF Step, StepLate, StepPendingEnd, StepPending, StepReadEnd, StepRead, StepWrite,
                Drop, Write, NoWrite, Dispatch, SocketInv, TypeOK
  <2>2. d = c
    BY <2>1
  <2>3. CASE StepLate(c)
    BY <2>3, <1>0 DEF StepLate
  <2>4. CASE StepReadEnd(c)
    BY <2>4, <1>0 DEF StepReadEnd, AtEof
  <2>5. CASE StepWrite(c)
    BY <2>5, <1>0 DEF StepWrite, Write, SocketInv, TypeOK
  <2>6. CASE StepRead(c)
    <3>1. c \in hung \/ \E n \in (IF wire[c] = <<>> THEN {0} ELSE 1..Len(wire[c])) :
                          Len(input[c] \o SubSeq(wire[c], 1, n)) > MaxInput
      BY <2>6, <1>0 DEF StepRead, Dispatch, Write, NoWrite, SocketInv, TypeOK
    <3>2. ASSUME NEW n \in (IF wire[c] = <<>> THEN {0} ELSE 1..Len(wire[c]))
          PROVE  ~(Len(input[c] \o SubSeq(wire[c], 1, n)) > MaxInput)
      <4>1. out[c] = 0
        BY <2>6 DEF StepRead
      <4>2. \/ input[c] \o SubSeq(wire[c], 1, n) = <<>>
            \/ Len(input[c] \o SubSeq(wire[c], 1, n)) = 1
        BY <4>1, PromptRead
      <4> QED BY <4>2, LimitsAssumption
    <3> QED BY <3>1, <3>2, <1>0
  <2> QED BY <1>1, <2>2, <2>3, <2>4, <2>5, <2>6 DEF Step, StepPendingEnd, StepPending
<1>2. ASSUME ~\E d \in Clients : Step(d) PROVE FALSE
  <2>1. CASE LoopNext
    <3>1. ASSUME NEW d \in Clients, AcceptOne(d) PROVE FALSE
      BY <3>1, <1>0 DEF AcceptOne, SocketInv, TypeOK
    <3>2. CASE ExitOnShutdown \/ ExitOnIdle
      BY <3>2, <1>0 DEF ExitOnShutdown, ExitOnIdle, Resting
    <3> QED BY <2>1, <1>2, <3>1, <3>2 DEF LoopNext, AcceptDone, StepDone, Stay, Sleep, Wake
  <2>2. CASE ClientNext
    BY <2>2, <1>0 DEF ClientNext, Connect, Send, Sending, Receive, Hangup, Die, SocketInv, TypeOK
  <2>3. CASE Environment
    BY <2>3, <1>0 DEF Environment, Expire, WorkerDone, WorkerDies, WorkerEnds, IdleElapse,
                BackgroundDone, Launch, AcceptError
  <2> QED BY <2>1, <2>2, <2>3 DEF Next
<1> QED BY <1>1, <1>2

\* While accept() itself does not fail, a prompt client is never closed before it is
\* answered except on account of its own worker, whatever the other clients do.
THEOREM PromptServed == ~AcceptFaults /\ Spec => PromptNotCutOff
<1> SUFFICES ASSUME ~AcceptFaults PROVE Spec => PromptNotCutOff
  OBVIOUS
<1>1. SocketInv /\ [Next]_vars =>
        [\A c \in Prompt : conn[c] = "open" /\ conn'[c] = "gone"
           => Answered(c) \/ pending[c] # "no"]_vars
  BY PromptStep
<1> QED BY <1>1, SocketInduction, PTL DEF Spec, PromptNotCutOff

-----------------------------------------------------------------------------
(* Leases.                                                                 *)

\* A step leaves a connection as far under way as it was, or drops it.
Kept(d) ==
  conn'[d] # "gone" =>
    /\ conn[d] # "gone" /\ (conn'[d] = "out" => conn[d] = "out")
    /\ d \in Cli => /\ input'[d] = input[d] /\ sent'[d] = sent[d]
                    /\ dispatched'[d] = dispatched[d] /\ wire'[d] = wire[d]
                    /\ Settled(d) \/ (pending'[d] = pending[d] /\ out'[d] = out[d])

\* The wgd command's connections are connections.
LEMMA Commands == Cli \subseteq Clients
BY ClientsAssumption

\* Steps that carry no request keep the shape of the connections ...
LEMMA ShapeFrame ==
  ASSUME LeaseInv, \A d \in Clients : Kept(d)
  PROVE  CommandShape' /\ OneRequest'
<1>1. \A d \in Cli : conn'[d] # "gone" => /\ (Settled(d) => Settled(d)')
                                         /\ (UnderWay(d) => Settled(d)' \/ UnderWay(d)')
                                         /\ input'[d] = input[d] /\ conn[d] # "gone"
  BY Commands DEF Kept, Settled, UnderWay
<1>2. CommandShape'
  BY <1>1, Commands DEF LeaseInv, CommandShape, Kept
<1>3. OneRequest'
  BY <1>1 DEF LeaseInv, OneRequest
<1> QED BY <1>2, <1>3

\* ... and the invariant if no lease is lost with the daemon.
LEMMA LeaseFrame ==
  ASSUME LeaseInv, \A d \in Clients : Kept(d),
         granted' \subseteq granted, alive' \subseteq alive,
         \A p \in granted' \cap alive' : p \in leases /\ place # "down" => p \in leases' /\ place' # "down"
  PROVE  LeaseInv'
<1>1. LeaseHeld'
  <2> SUFFICES ASSUME NEW p \in granted' \cap alive', Steady(p)
               PROVE  /\ p \in leases' /\ place' # "down"
                      /\ \A c \in Clients : ProcOf[c] = p /\ conn'[c] # "gone" => wire'[c] # <<"release">>
    BY DEF LeaseHeld, Steady
  <2>1. /\ p \in leases /\ place # "down"
        /\ \A c \in Clients : ProcOf[c] = p /\ conn[c] # "gone" => wire[c] # <<"release">>
    BY DEF LeaseInv, LeaseHeld
  <2>2. \A c \in Clients : ProcOf[c] = p /\ conn'[c] # "gone" => wire'[c] = wire[c] /\ conn[c] # "gone"
    BY DEF Steady, Kept
  <2> QED BY <2>1, <2>2
<1> QED BY <1>1, ShapeFrame DEF LeaseInv

\* Accepting, sleeping, waking, clients that connect, read, hang up or die, deadlines.
LEMMA LeaseQuiet ==
  ASSUME SocketInv, LeaseInv,
         \/ AcceptDone \/ StepDone \/ Stay \/ Sleep \/ Wake
         \/ IdleElapse \/ BackgroundDone
         \/ (\E p \in Processes : Die(p))
         \/ \E c \in Clients : Connect(c) \/ Receive(c) \/ Hangup(c) \/ AcceptOne(c) \/ Expire(c)
  PROVE  LeaseInv'
<1>1. UNCHANGED <<input, out, pending, wire, sent, dispatched, granted>>
  BY DEF AcceptDone, StepDone, Stay, Sleep, Wake, IdleElapse, BackgroundDone, Die,
         Connect, Receive, Hangup, AcceptOne, Expire
<1>2. \A d \in Clients : conn'[d] # "gone" => conn[d] # "gone" /\ (conn'[d] = "out" => conn[d] = "out")
  BY DEF AcceptDone, StepDone, Stay, Sleep, Wake, IdleElapse, BackgroundDone, Die,
         Connect, Receive, Hangup, AcceptOne, Expire, SocketInv, TypeOK
<1>3. \A d \in Clients : Kept(d)
  BY <1>1, <1>2 DEF Kept
<1>4. alive' \subseteq alive
  BY DEF AcceptDone, StepDone, Stay, Sleep, Wake, IdleElapse, BackgroundDone, Die,
         Connect, Receive, Hangup, AcceptOne, Expire
<1>5. leases' = leases \/ (leases' = Live(leases) /\ alive' = alive)
  BY DEF AcceptDone, StepDone, Stay, Sleep, Wake, IdleElapse, BackgroundDone, Die,
         Connect, Receive, Hangup, AcceptOne, Expire
<1>6. place # "down" => place' # "down"
  BY DEF AcceptDone, StepDone, Stay, Sleep, Wake, IdleElapse, BackgroundDone, Die,
         Connect, Receive, Hangup, AcceptOne, Expire
<1> QED BY <1>1, <1>3, <1>4, <1>5, <1>6, LeaseFrame DEF Live

\* A daemon ends only when no lease of a live process is left, or accept() failed.
LEMMA LeaseEnd ==
  ASSUME SocketInv, LeaseInv, ~IdleExits, ExitOnShutdown \/ ExitOnIdle \/ AcceptError \/ Launch
  PROVE  LeaseInv'
<1>1. UNCHANGED <<input, out, pending, wire, sent, dispatched, alive>> /\ granted' \in {granted, {}}
  BY DEF ExitOnShutdown, ExitOnIdle, AcceptError, Launch
<1>2. \A d \in Clients : conn'[d] # "gone" => conn[d] # "gone" /\ (conn'[d] = "out" => conn[d] = "out")
  BY DEF ExitOnShutdown, ExitOnIdle, AcceptError, Launch, End, SocketInv, TypeOK
<1>3. \A d \in Clients : Kept(d)
  BY <1>1, <1>2 DEF Kept
<1>4. \A p \in granted' \cap alive' : p \in leases => FALSE
  BY <1>1 DEF ExitOnShutdown, ExitOnIdle, AcceptError, Launch, Live
<1> QED BY <1>1, <1>3, <1>4, LeaseFrame

\* A worker's end concerns a request that has been dispatched.
LEMMA LeaseWorker ==
  ASSUME SocketInv, LeaseInv, NEW c \in Clients, NEW how, WorkerEnds(c, how)
  PROVE  LeaseInv'
<1>1. /\ UNCHANGED <<place, conn, input, out, wire, sent, dispatched, granted, leases, alive>>
      /\ conn[c] = "open" /\ pending[c] = "busy" /\ \A d \in Clients \ {c} : pending'[d] = pending[d]
  BY DEF WorkerEnds, SocketInv, TypeOK
<1>2. c \in Cli => Settled(c)
  BY <1>1 DEF LeaseInv, CommandShape, UnderWay
<1>3. \A d \in Clients : Kept(d)
  BY <1>1, <1>2 DEF Kept
<1> QED BY <1>1, <1>3, LeaseFrame

\* A client is dropped.
LEMMA LeaseDrop ==
  ASSUME SocketInv, LeaseInv, NEW c \in Clients, Stepping(c), Drop(c)
  PROVE  LeaseInv'
<1>1. /\ UNCHANGED <<place, input, out, pending, wire, sent, dispatched, granted, leases, alive>>
      /\ conn'[c] = "gone" /\ \A d \in Clients \ {c} : conn'[d] = conn[d]
  BY DEF Stepping, Drop, SocketInv, TypeOK
<1>2. \A d \in Clients : Kept(d)
  BY <1>1 DEF Kept
<1> QED BY <1>1, <1>2, LeaseFrame

\* A pending client is polled, or a queued response written: its request is settled.
LEMMA LeaseWrite ==
  ASSUME SocketInv, LeaseInv, NEW c \in Clients, StepPending(c) \/ StepWrite(c)
  PROVE  LeaseInv'
<1>1. /\ UNCHANGED <<place, input, sent, dispatched, granted, leases, alive>>
      /\ conn[c] = "open" /\ (pending[c] # "no" \/ out[c] > 0) /\ out[c] \in Nat
  BY Limits DEF StepPending, StepWrite, Stepping, SocketInv, TypeOK
<1>2. c \in Cli => Settled(c)
  BY <1>1 DEF LeaseInv, CommandShape, UnderWay
<1>3. \A d \in Clients \ {c} : /\ conn'[d] = conn[d] /\ pending'[d] = pending[d] /\ out'[d] = out[d]
                               /\ wire'[d] = wire[d]
  BY DEF StepPending, StepWrite, Write, NoWrite, SocketInv, TypeOK
<1>4. conn'[c] \in {conn[c], "gone"}
  BY DEF StepPending, StepWrite, Write, NoWrite, SocketInv, TypeOK
<1>5. c \in Cli => wire'[c] = wire[c]
  <2> SUFFICES ASSUME c \in Cli PROVE wire'[c] = wire[c]
    OBVIOUS
  <2>1. Probed(wire[c]) = {wire[c]}
    BY <1>2 DEF Settled, Probed
  <2> QED BY <2>1 DEF StepPending, StepWrite, SocketInv, TypeOK
<1>6. \A d \in Clients : Kept(d)
  BY <1>1, <1>2, <1>3, <1>4, <1>5 DEF Kept
<1> QED BY <1>1, <1>6, LeaseFrame

\* A connection is settled when it is answered, whether or not it was accepted.
LEMMA AnsweredSettled ==
  ASSUME SocketInv, LeaseInv, NEW c \in Cli, conn[c] # "gone", conn[c] # "out" => Answered(c)
  PROVE  Settled(c)
<1>1. sent[c] \in Nat /\ dispatched[c] \in Nat
  BY ClientTypes, Commands DEF SocketInv
<1>2. CASE conn[c] = "out"
  BY <1>2 DEF LeaseInv, CommandShape
<1>3. CASE conn[c] # "out"
  BY <1>1, <1>3 DEF LeaseInv, CommandShape, UnderWay, Answered
<1> QED BY <1>2, <1>3

\* The command sends a request only when nothing else of its process is under way.
LEMMA LeaseSend ==
  ASSUME SocketInv, LeaseInv, NEW c \in Clients, Send(c)
  PROVE  LeaseInv'
<1> PICK chunk \in Asks[c] : Sending(c, chunk)
  BY DEF Send
<1>1. /\ UNCHANGED <<place, conn, input, out, pending, dispatched, leases, alive>>
      /\ granted' = IF chunk = "release" THEN granted \ {ProcOf[c]} ELSE granted
      /\ \A d \in Clients \ {c} : sent'[d] = sent[d] /\ wire'[d] = wire[d]
      /\ sent'[c] = sent[c] + 1 /\ wire'[c] = Append(wire[c], chunk)
  BY DEF Sending, SocketInv, TypeOK
<1>2. CASE c \notin Cli
  <2>1. \A d \in Clients : Kept(d)
    BY <1>1, <1>2 DEF Kept
  <2> QED BY <1>1, <2>1, LeaseFrame
<1>3. CASE c \in Cli
  <2>1. chunk \in Requests /\ conn[c] \in {"backlog", "open"}
    BY <1>3, ClientsAssumption DEF Send
  <2>2. \A d \in Cli : ProcOf[d] = ProcOf[c] /\ conn[d] # "gone" => Settled(d)
    BY <1>3, Commands, AnsweredSettled DEF Send
  <2>3. Answered(c)
    BY <1>3, <2>1 DEF Send
  <2>4. pending[c] = "no" /\ out[c] = 0 /\ input[c] = <<>>
    BY <1>3, <2>1, <2>3, AnsweredIdle DEF SocketInv, Unaccepted, LeaseInv, CommandShape
  <2>5. UnderWay(c)' /\ wire'[c] = <<chunk>>
    <3>1. Settled(c)
      BY <1>3, <2>1, <2>2
    <3>2. wire'[c] = <<chunk>>
      BY <3>1, <1>1 DEF Settled
    <3> QED BY <3>1, <3>2, <1>1, <2>1, <2>4 DEF Settled, UnderWay
  <2>6. \A d \in Cli \ {c} : (Settled(d)' <=> Settled(d)) /\ (UnderWay(d)' <=> UnderWay(d))
    BY <1>1, Commands DEF Settled, UnderWay
  <2>7. CommandShape'
    BY <1>1, <2>1, <2>4, <2>5, <2>6 DEF LeaseInv, CommandShape
  <2>8. OneRequest'
    BY <1>1, <2>2, <2>6 DEF LeaseInv, OneRequest
  <2>9. LeaseHeld'
    <3> SUFFICES ASSUME NEW p \in granted' \cap alive, Steady(p)
                 PROVE  /\ p \in leases /\ place # "down"
                        /\ \A d \in Clients : ProcOf[d] = p /\ conn[d] # "gone" => wire'[d] # <<"release">>
      BY <1>1 DEF LeaseHeld, Steady
    <3>1. /\ p \in leases /\ place # "down"
          /\ \A d \in Clients : ProcOf[d] = p /\ conn[d] # "gone" => wire[d] # <<"release">>
      BY <1>1 DEF LeaseInv, LeaseHeld
    <3>2. ProcOf[c] = p => wire'[c] # <<"release">>
      BY <1>1, <2>5
    <3> QED BY <1>1, <3>1, <3>2
  <2> QED BY <2>7, <2>8, <2>9 DEF LeaseInv
<1> QED BY <1>2, <1>3

\* A frame that is one whole request parses to that request.
LEMMA ParsesWhole ==
  ASSUME NEW r \in Requests
  PROVE  FirstRequest(<<r>>) = r
<1>1. End1(<<r>>) = 1
  BY ReadOne
<1>2. \A k \in 1..1 : k = 1
  OBVIOUS
<1>3. <<r>>[1] = r /\ r # "torn"
  OBVIOUS
<1> QED BY <1>1, <1>2, <1>3 DEF FirstRequest

\* A command connection is read empty, or its one request is read whole.
LEMMA CommandRead ==
  ASSUME SocketInv, LeaseInv, NEW c \in Cli, conn[c] = "open",
         NEW n \in (IF wire[c] = <<>> THEN {0} ELSE 1..Len(wire[c]))
  PROVE  LET inp == input[c] \o SubSeq(wire[c], 1, n) IN
         \/ Settled(c) /\ n = 0 /\ inp = <<>>
         \/ /\ UnderWay(c) /\ n = 1
            /\ \E r \in Requests : wire[c] = <<r>> /\ inp = <<r>> /\ FirstRequest(inp) = r
            /\ SubSeq(inp, End1(inp) + 1, Len(inp)) = <<>>
            /\ SubSeq(wire[c], n + 1, Len(wire[c])) = <<>>
<1>1. input[c] = <<>> /\ (Settled(c) \/ UnderWay(c))
  BY DEF LeaseInv, CommandShape
<1>2. CASE Settled(c)
  <2>1. n = 0 /\ wire[c] = <<>>
    BY <1>2 DEF Settled
  <2>2. SubSeq(wire[c], 1, 0) = <<>>
    BY SubSeqEmpty
  <2>3. <<>> \o <<>> = <<>>
    OBVIOUS
  <2> QED BY <1>1, <1>2, <2>1, <2>2, <2>3
<1>3. CASE UnderWay(c)
  <2>1. PICK r \in Requests : wire[c] = <<r>>
    BY <1>3 DEF UnderWay
  <2>2. n = 1
    BY <2>1, OneLong
  <2>3. input[c] \o SubSeq(wire[c], 1, n) = <<r>>
    BY <1>1, <2>1, <2>2, ReadOne
  <2>4. /\ End1(<<r>>) = 1 /\ Len(<<r>>) = 1 /\ SubSeq(<<r>>, 1 + 1, 1) = <<>>
        /\ FirstRequest(<<r>>) = r
    BY ReadOne, OneLong, ParsesWhole
  <2> QED BY <1>3, <2>1, <2>2, <2>3, <2>4
<1> QED BY <1>1, <1>2, <1>3

\* Reading without a complete request leaves a command connection as it was.
LEMMA LeaseReadPart ==
  ASSUME SocketInv, LeaseInv, NEW c \in Clients, Stepping(c), conn[c] = "open",
         NEW n \in (IF wire[c] = <<>> THEN {0} ELSE 1..Len(wire[c])), NEW inp,
         inp = input[c] \o SubSeq(wire[c], 1, n), ~Complete(inp),
         wire' = [wire EXCEPT ![c] = SubSeq(@, n + 1, Len(@))],
         input' = [input EXCEPT ![c] = inp], NoWrite,
         UNCHANGED <<pending, dispatched, controlVars, idle>>
  PROVE  LeaseInv'
<1>1. UNCHANGED <<place, conn, out, pending, sent, dispatched, granted, leases, alive>>
  BY DEF Stepping, NoWrite
<1>2. ASSUME c \in Cli PROVE input'[c] = input[c] /\ wire'[c] = wire[c]
  <2>1. Settled(c) /\ n = 0 /\ inp = <<>>
    <3>1. \A r \in Requests : Complete(<<r>>)
      BY ReadOne
    <3> QED BY <1>2, <3>1, CommandRead
  <2>2. wire[c] = <<>> /\ input[c] = <<>>
    BY <1>2, <2>1 DEF LeaseInv, CommandShape, Settled
  <2>3. SubSeq(wire[c], 1, Len(wire[c])) = wire[c]
    BY SubSeqFull, ClientTypes DEF SocketInv
  <2>4. wire'[c] = SubSeq(wire[c], 1, Len(wire[c])) /\ input'[c] = inp
    BY <2>1 DEF SocketInv, TypeOK
  <2> QED BY <2>1, <2>2, <2>3, <2>4
<1>3. \A d \in Clients \ {c} : input'[d] = input[d] /\ wire'[d] = wire[d]
  BY DEF SocketInv, TypeOK
<1>4. \A d \in Clients : Kept(d)
  BY <1>1, <1>2, <1>3 DEF Kept
<1> QED BY <1>1, <1>4, LeaseFrame

\* A request on a connection of another process leaves a live lease in the table.
LEMMA OtherLease ==
  ASSUME NEW c \in Clients, NEW r, Control(c, r), NEW p \in granted' \cap alive, p # ProcOf[c]
  PROVE  p \in granted /\ (p \in leases => p \in leases')
<1>1. leases' \in {Live(leases) \cup {ProcOf[c]}, Live(leases \ {ProcOf[c]}), Live(leases), leases}
  BY DEF Control
<1>2. p \in granted
  BY DEF Control
<1> QED BY <1>1, <1>2 DEF Live

\* A request is dispatched: an acquire enters the lease, a release may only take the
\* lease of a process that sent one.
LEMMA LeaseDispatch ==
  ASSUME SocketInv, LeaseInv, NEW c \in Clients, Stepping(c), conn[c] = "open",
         NEW n \in (IF wire[c] = <<>> THEN {0} ELSE 1..Len(wire[c])), NEW inp,
         inp = input[c] \o SubSeq(wire[c], 1, n), Complete(inp),
         wire' = [wire EXCEPT ![c] = SubSeq(@, n + 1, Len(@))],
         input' = [input EXCEPT ![c] = SubSeq(inp, End1(inp) + 1, Len(inp))],
         Dispatch(c, FirstRequest(inp))
  PROVE  LeaseInv'
<1>1. UNCHANGED <<sent, alive>> /\ place = "step" /\ place' = "step"
  BY DEF Stepping
<1>2. /\ \A d \in Clients \ {c} : /\ input'[d] = input[d] /\ wire'[d] = wire[d]
                                  /\ dispatched'[d] = dispatched[d]
      /\ dispatched'[c] = dispatched[c] + 1 /\ Control(c, FirstRequest(inp))
  BY DEF Dispatch, SocketInv, TypeOK
<1>3. /\ \A d \in Clients \ {c} : conn'[d] = conn[d] /\ pending'[d] = pending[d] /\ out'[d] = out[d]
      /\ conn'[c] \in {"open", "gone"}
  BY DEF Dispatch, Write, NoWrite, SocketInv, TypeOK
<1>4. ASSUME NEW p \in granted' \cap alive, Steady(p), p # ProcOf[c]
      PROVE  /\ p \in leases'
             /\ \A d \in Clients : ProcOf[d] = p /\ conn'[d] # "gone" => wire'[d] # <<"release">>
  <2>1. p \in granted /\ (p \in leases => p \in leases')
    BY <1>2, <1>4, OtherLease
  <2>2. /\ p \in leases
        /\ \A d \in Clients : ProcOf[d] = p /\ conn[d] # "gone" => wire[d] # <<"release">>
    BY <2>1, <1>4 DEF LeaseInv, LeaseHeld
  <2> QED BY <2>1, <2>2, <1>2, <1>3, <1>4
<1>5. CASE c \notin Cli
  <2>1. \A d \in Clients : Kept(d)
    BY <1>1, <1>2, <1>3, <1>5 DEF Kept
  <2>2. LeaseHeld'
    BY <1>1, <1>4, <1>5 DEF LeaseHeld, Steady
  <2> QED BY <2>1, <2>2, ShapeFrame DEF LeaseInv
<1>6. CASE c \in Cli
  <2>1. /\ UnderWay(c) /\ \E r \in Requests : wire[c] = <<r>> /\ FirstRequest(inp) = r
        /\ SubSeq(inp, End1(inp) + 1, Len(inp)) = <<>>
        /\ SubSeq(wire[c], n + 1, Len(wire[c])) = <<>>
    <3>1. ~Complete(<<>>)
      BY DEF Complete
    <3> QED BY <1>6, <3>1, CommandRead
  <2>2. Settled(c)' /\ input'[c] = <<>> /\ wire'[c] = <<>>
    <3>1. wire'[c] = <<>> /\ input'[c] = <<>>
      BY <2>1 DEF SocketInv, TypeOK
    <3> QED BY <2>1, <3>1, <1>1, <1>2 DEF Settled, UnderWay
  <2>3. \A d \in Cli \ {c} : (Settled(d)' <=> Settled(d)) /\ (UnderWay(d)' <=> UnderWay(d))
    BY <1>1, <1>2, <1>3, Commands DEF Settled, UnderWay
  <2>4. CommandShape'
    BY <1>2, <1>3, <2>2, <2>3, Commands DEF LeaseInv, CommandShape
  <2>5. OneRequest'
    BY <1>3, <2>2, <2>3, Commands DEF LeaseInv, OneRequest
  <2>6. ASSUME NEW p \in granted' \cap alive, Steady(p), p = ProcOf[c]
        PROVE  p \in leases'
    <3>1. CASE FirstRequest(inp) = "acquire"
      BY <2>6, <3>1, <1>2 DEF Control
    <3>2. CASE FirstRequest(inp) # "acquire"
      <4>1. p \in granted
        BY <2>6, <3>2, <1>2 DEF Control
      <4>2. p \in leases /\ wire[c] # <<"release">>
        BY <2>6, <4>1 DEF LeaseInv, LeaseHeld
      <4>3. leases' \in {Live(leases), leases}
        BY <2>1, <3>2, <4>2, <1>2 DEF Control
      <4> QED BY <2>6, <4>2, <4>3 DEF Live
    <3> QED BY <3>1, <3>2
  <2>7. \A d \in Cli : ProcOf[d] = ProcOf[c] /\ conn'[d] # "gone" => wire'[d] = <<>>
    <3> SUFFICES ASSUME NEW d \in Cli \ {c}, ProcOf[d] = ProcOf[c], conn[d] # "gone"
                 PROVE  wire[d] = <<>>
      BY <2>2, <1>2, <1>3, Commands
    <3>1. ~Settled(c)
      BY <2>1, OneLong DEF Settled, UnderWay
    <3> QED BY <1>6, <3>1 DEF LeaseInv, OneRequest, Settled
  <2>8. LeaseHeld'
    <3> SUFFICES ASSUME NEW p \in granted' \cap alive, Steady(p)
                 PROVE  /\ p \in leases'
                        /\ \A d \in Clients : ProcOf[d] = p /\ conn'[d] # "gone" => wire'[d] # <<"release">>
      BY <1>1 DEF LeaseHeld, Steady
    <3>1. CASE p # ProcOf[c]
      BY <3>1, <1>4
    <3>2. CASE p = ProcOf[c]
      BY <3>2, <2>6, <2>7, OneLong DEF Steady
    <3> QED BY <3>1, <3>2
  <2> QED BY <2>4, <2>5, <2>8 DEF LeaseInv
<1> QED BY <1>5, <1>6

\* Reading from a client.
LEMMA LeaseRead ==
  ASSUME SocketInv, LeaseInv, NEW c \in Clients, StepRead(c)
  PROVE  LeaseInv'
<1>1. Stepping(c) /\ conn[c] = "open"
  BY DEF StepRead, Stepping, SocketInv, TypeOK
<1>2. PICK n \in (IF wire[c] = <<>> THEN {0} ELSE 1..Len(wire[c])) :
        LET inp == input[c] \o SubSeq(wire[c], 1, n) IN
        IF Len(inp) > MaxInput THEN Drop(c)
        ELSE
        /\ wire' = [wire EXCEPT ![c] = SubSeq(@, n + 1, Len(@))]
        /\ IF Complete(inp)
             THEN /\ input' = [input EXCEPT ![c] = SubSeq(inp, End1(inp) + 1, Len(inp))]
                  /\ Dispatch(c, FirstRequest(inp))
             ELSE /\ input' = [input EXCEPT ![c] = inp]
                  /\ NoWrite
                  /\ UNCHANGED <<pending, dispatched, controlVars, idle>>
  BY DEF StepRead
<1> DEFINE inp == input[c] \o SubSeq(wire[c], 1, n)
<1>3. CASE Len(inp) > MaxInput
  BY <1>1, <1>2, <1>3, LeaseDrop
<1>4. CASE ~(Len(inp) > MaxInput) /\ Complete(inp)
  BY <1>1, <1>2, <1>4, LeaseDispatch
<1>5. CASE ~(Len(inp) > MaxInput) /\ ~Complete(inp)
  BY <1>1, <1>2, <1>5, LeaseReadPart
<1> QED BY <1>3, <1>4, <1>5

\* Every step keeps the lease invariant in a daemon without an idle timeout.
LEMMA LeaseStep == ~IdleExits /\ SocketInv /\ LeaseInv /\ [Next]_vars => LeaseInv'
<1> SUFFICES ASSUME ~IdleExits, SocketInv, LeaseInv, [Next]_vars PROVE LeaseInv'
  OBVIOUS
<1>1. CASE LoopNext
  <2>1. ASSUME NEW c \in Clients, Step(c) PROVE LeaseInv'
    BY <2>1, LeaseDrop, LeaseWrite, LeaseRead DEF Step, StepLate, StepPendingEnd, StepReadEnd
  <2> QED BY <1>1, <2>1, LeaseQuiet, LeaseEnd DEF LoopNext
<1>2. CASE ClientNext
  BY <1>2, LeaseSend, LeaseQuiet DEF ClientNext
<1>3. CASE Environment
  BY <1>3, LeaseWorker, LeaseQuiet, LeaseEnd DEF Environment, WorkerDone, WorkerDies
<1>4. CASE UNCHANGED vars
  <2>1. \A d \in Clients : Kept(d)
    BY <1>4 DEF Kept
  <2> QED BY <1>4, <2>1, LeaseFrame
<1> QED BY <1>1, <1>2, <1>3, <1>4 DEF Next

\* A daemon without an idle timeout does not leave while a live command process holds
\* a lease it has not asked to release, whoever else acquires, releases, shuts down,
\* dies or is dropped meanwhile.
THEOREM LeaseSafe == ~IdleExits /\ Spec => []LeaseKeepsDaemon
<1> SUFFICES ASSUME ~IdleExits PROVE Spec => []LeaseKeepsDaemon
  OBVIOUS
<1>1. Init => LeaseInv
  BY Commands DEF Init, LeaseInv, CommandShape, OneRequest, LeaseHeld, Settled
<1>2. LeaseInv => LeaseKeepsDaemon
  BY DEF LeaseInv, LeaseHeld, Steady, LeaseKeepsDaemon
<1> QED BY <1>1, <1>2, LeaseStep, SocketInduction, PTL DEF Spec
=============================================================================
