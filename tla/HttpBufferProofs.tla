-------------------------- MODULE HttpBufferProofs --------------------------
(***************************************************************************)
(* Lemmas about the wireless link and the response buffer, for every       *)
(* firmware that uses them: the events of client.c and wifi_handler.c keep *)
(* the types, and the buffer holds nothing of another answer.              *)
(***************************************************************************)
EXTENDS HttpBuffer, SequenceTheorems, TLAPS

\* An answer is to a request; before it comes, and after it was parsed, nothing
\* has arrived; and what is in the buffer is of this answer.
BufferInv ==
  /\ HttpTypeOK
  /\ request = NoRequest => reply = NoReply
  /\ reply \in {NoReply, Finished} => arrived = 0 /\ output_buffer = <<>>
  /\ RepliesDoNotMix

-----------------------------------------------------------------------------
(* Types *)

\* The buffer begins empty and goes back to it.
LEMMA EmptyBuffer == <<>> \in Seq(Pieces)
OBVIOUS

\* Before a device starts anything, the link has its type.
LEMMA TypeWifiInit == WifiInit => WifiTypeOK
<1> SUFFICES ASSUME WifiInit
             PROVE  WifiTypeOK
  OBVIOUS
<1>1. bits \subseteq Bits /\ reconnect_counter \in 0..MaxAttempt /\ station \in Stations
  BY SomeAttempts DEF WifiInit, Stations
<1>2. dhcp \in BOOLEAN
  BY Zenon DEF WifiInit
<1> QED
  BY <1>1, <1>2 DEF WifiTypeOK

\* The events of the link.
LEMMA TypeLink == WifiTypeOK /\ WifiNext => WifiTypeOK'
<1> SUFFICES ASSUME WifiTypeOK, WifiNext
             PROVE  WifiTypeOK'
  OBVIOUS
<1> USE SomeAttempts
<1>1. CASE StaStart \/ GotIp
  BY <1>1 DEF StaStart, GotIp, WifiTypeOK, Bits, Stations
<1>2. CASE StaConnected
  BY <1>2 DEF StaConnected, WifiTypeOK, Bits, Stations
<1>3. CASE StaDisconnected
  <2>1. bits' \subseteq Bits /\ dhcp' \in BOOLEAN
    BY <1>3 DEF StaDisconnected, WifiTypeOK
  <2>2. reconnect_counter' \in 0..MaxAttempt /\ station' \in Stations
    BY <1>3 DEF StaDisconnected, WifiTypeOK, Stations
  <2> QED
    BY <2>1, <2>2 DEF WifiTypeOK
<1> QED
  BY <1>1, <1>2, <1>3 DEF WifiNext

\* The link and the requests as they were keep their types.
LEMMA TypeKept ==
  /\ WifiTypeOK /\ UNCHANGED wifiVars => WifiTypeOK'
  /\ HttpTypeOK /\ UNCHANGED httpVars => HttpTypeOK'
<1>1. WifiTypeOK /\ UNCHANGED wifiVars => WifiTypeOK'
  BY ZenonT(30) DEF WifiTypeOK, wifiVars
<1>2. HttpTypeOK /\ UNCHANGED httpVars => HttpTypeOK'
  BY DEF HttpTypeOK, httpVars
<1> QED
  BY <1>1, <1>2

\* What the server answers is a reply; a finite part of it has come.
LEMMA TypeAnswers ==
  ASSUME NEW r \in Request
  PROVE  AnswersTo(r) \subseteq Reply
BY DEF AnswersTo, Reply, Request, Names, Bodies

-----------------------------------------------------------------------------
(* The events of the request *)

\* No request has been made, and nothing is left of one.
LEMMA BufferInit == HttpInit => BufferInv
BY EmptyBuffer, SomePieces DEF HttpInit, BufferInv, HttpTypeOK, RepliesDoNotMix, Names, NoReply

\* Requests as they were.
LEMMA BufferKept == BufferInv /\ UNCHANGED httpVars => BufferInv'
<1> SUFFICES ASSUME BufferInv, UNCHANGED httpVars
             PROVE  BufferInv'
  OBVIOUS
<1>1. HttpTypeOK'
  BY TypeKept DEF BufferInv
<1>2. RepliesDoNotMix'
  BY DEF BufferInv, RepliesDoNotMix, httpVars
<1> QED
  BY <1>1, <1>2 DEF BufferInv, httpVars

\* A request is made where none is out.
LEMMA BufferAsks ==
  ASSUME BufferInv, request = NoRequest, request' \in Request,
         UNCHANGED <<reply, arrived, output_buffer, player_id, signed_certificate>>
  PROVE  BufferInv'
<1>1. reply = NoReply /\ arrived = 0 /\ output_buffer = <<>>
  BY DEF BufferInv
<1>2. HttpTypeOK'
  BY DEF BufferInv, HttpTypeOK
<1>3. RepliesDoNotMix'
  BY <1>1 DEF RepliesDoNotMix
<1> QED
  BY <1>1, <1>2, <1>3 DEF BufferInv

\* The server answers, each request with what belongs to it.
LEMMA BufferReplies ==
  ASSUME BufferInv, ServerReplies
  PROVE  /\ BufferInv'
         /\ reply'.body = "id" => request.path = "/spelare"
         /\ reply'.body = "certificate" =>
              request.path = "/spelare/csr" /\ request.cn # "garbage" /\ reply'.name = request.cn
<1>1. request \in Request
  BY DEF ServerReplies, BufferInv, HttpTypeOK
<1>2. reply' \in Reply
  BY <1>1, TypeAnswers DEF ServerReplies
<1>3. /\ reply'.body = "id" => request.path = "/spelare"
      /\ reply'.body = "certificate" =>
           request.path = "/spelare/csr" /\ request.cn # "garbage" /\ reply'.name = request.cn
  BY <1>2 DEF ServerReplies, AnswersTo
<1>4. HttpTypeOK'
  BY <1>2 DEF BufferInv, HttpTypeOK, ServerReplies
<1>5. RepliesDoNotMix'
  BY DEF ServerReplies, BufferInv, RepliesDoNotMix
<1>6. request' # NoRequest /\ arrived' = 0 /\ output_buffer' = <<>>
  BY DEF ServerReplies, BufferInv
<1> QED
  BY <1>3, <1>4, <1>5, <1>6 DEF BufferInv

\* One more piece leaves the buffer the end of what has arrived.
LEMMA MixOnData == BufferInv /\ OnData => RepliesDoNotMix'
<1> SUFFICES ASSUME BufferInv, OnData
             PROVE  RepliesDoNotMix'
  OBVIOUS
<1> DEFINE n == Len(output_buffer)
           piece == <<request.path, arrived + 1>>
<1>1. /\ arrived \in Nat
      /\ n \in Nat
      /\ n <= arrived
      /\ output_buffer = [i \in 1..n |-> <<request.path, arrived - n + i>>]
      /\ output_buffer \in Seq(Pieces)
  BY DEF BufferInv, HttpTypeOK, RepliesDoNotMix
<1>2. CASE output_buffer' = Append(output_buffer, piece)
  <2>1. piece \in {piece} \cup Pieces /\ output_buffer \in Seq({piece} \cup Pieces)
    BY <1>1
  <2>2. /\ output_buffer' \in Seq({piece} \cup Pieces)
        /\ Len(output_buffer') = n + 1
        /\ \A i \in 1..n : output_buffer'[i] = output_buffer[i]
        /\ output_buffer'[n + 1] = piece
    BY <1>2, <2>1, AppendProperties
  <2>3. output_buffer' = [i \in 1..(n + 1) |-> output_buffer'[i]]
    BY <2>2
  <2>4. ASSUME NEW i \in 1..(n + 1)
        PROVE  output_buffer'[i] = <<request.path, (arrived + 1) - (n + 1) + i>>
    <3>1. CASE i = n + 1
      BY <1>1, <2>2, <3>1
    <3>2. CASE i \in 1..n
      BY <1>1, <2>2, <3>2
    <3> QED
      BY <1>1, <3>1, <3>2
  <2>5. arrived' = arrived + 1 /\ request' = request
    BY DEF OnData
  <2> HIDE DEF n, piece
  <2>6. n + 1 <= arrived + 1
    BY <1>1
  <2> QED
    BY <2>2, <2>3, <2>4, <2>5, <2>6 DEF RepliesDoNotMix
<1>3. CASE output_buffer = <<>> /\ output_buffer' = output_buffer
  BY <1>1, <1>3 DEF OnData, RepliesDoNotMix
<1> QED
  BY <1>2, <1>3 DEF OnData

\* There is room for one piece more: the answer had not all come.
LEMMA BufferTakes ==
  ASSUME BufferInv, OnData
  PROVE  BufferInv' /\ reply' = reply /\ request' = request
<1> USE SomePieces
<1>1. reply \in Reply
  BY DEF OnData, BufferInv, HttpTypeOK, NoReply, Finished
<1>2. arrived + 1 \in 1..MaxPieces
  BY <1>1 DEF OnData, BufferInv, HttpTypeOK, Reply
<1>3. request \in Request
  BY <1>1 DEF BufferInv, HttpTypeOK, Reply, NoReply
<1>4. <<request.path, arrived + 1>> \in Pieces
  BY <1>2, <1>3 DEF Request, Pieces
<1>5. output_buffer' \in Seq(Pieces)
  <2>1. output_buffer \in Seq(Pieces)
    BY DEF BufferInv, HttpTypeOK
  <2>2. Append(output_buffer, <<request.path, arrived + 1>>) \in Seq(Pieces)
    BY <1>4, <2>1, AppendProperties
  <2>3. \/ output_buffer' = Append(output_buffer, <<request.path, arrived + 1>>)
        \/ output_buffer' = output_buffer
    BY DEF OnData
  <2> QED
    BY <2>1, <2>2, <2>3
<1>6. HttpTypeOK'
  BY <1>1, <1>2, <1>5 DEF OnData, BufferInv, HttpTypeOK
<1>7. reply \notin {NoReply, Finished}
  BY DEF OnData, BufferInv, HttpTypeOK, NoReply, Finished
<1> QED
  BY <1>6, <1>7, MixOnData DEF OnData, BufferInv

\* The answer is parsed: a name is taken from a name, a certificate's flag is
\* set with a certificate.
LEMMA BufferFinishes ==
  ASSUME BufferInv, WifiTypeOK, OnFinish
  PROVE  /\ BufferInv' /\ WifiTypeOK'
         /\ reply \in Reply /\ reply' = Finished
         /\ request' = request /\ request # NoRequest
<1>1. reply \in Reply
  BY DEF OnFinish, BufferInv, HttpTypeOK, Bodies, NoReply, Finished
<1>2. request # NoRequest
  BY <1>1 DEF BufferInv, Reply, NoReply, Bodies
<1>3. arrived' = 0 /\ output_buffer' = <<>> /\ reply' = Finished /\ request' = request
  BY DEF OnFinish
<1>4. WifiTypeOK'
  <2>1. bits' \subseteq Bits /\ reconnect_counter' \in 0..MaxAttempt /\ station' \in Stations
    BY DEF OnFinish, WifiTypeOK, Bits
  <2> QED
    BY <2>1 DEF OnFinish, WifiTypeOK
<1>5. HttpTypeOK'
  <2>1. player_id' \in Names /\ signed_certificate' \in Names
    BY <1>1 DEF OnFinish, BufferInv, HttpTypeOK, Reply
  <2> QED
    BY <1>3, <2>1, EmptyBuffer, SomePieces DEF BufferInv, HttpTypeOK
<1>6. RepliesDoNotMix'
  BY <1>3 DEF RepliesDoNotMix
<1> QED
  BY <1>1, <1>2, <1>3, <1>4, <1>5, <1>6 DEF BufferInv

\* The request is over, and nothing of it is left for the next one.
LEMMA BufferEnds ==
  ASSUME BufferInv, OnDisconnected
  PROVE  BufferInv'
<1>1. arrived' = 0 /\ output_buffer' = <<>> /\ reply' = NoReply /\ request' = NoRequest
      /\ player_id' = player_id /\ signed_certificate' = signed_certificate
  BY DEF OnDisconnected
<1>2. HttpTypeOK'
  BY <1>1, EmptyBuffer, SomePieces DEF BufferInv, HttpTypeOK
<1>3. RepliesDoNotMix'
  BY <1>1 DEF RepliesDoNotMix
<1> QED
  BY <1>1, <1>2, <1>3 DEF BufferInv
=============================================================================
