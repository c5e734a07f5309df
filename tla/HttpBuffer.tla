----------------------------- MODULE HttpBuffer -----------------------------
(***************************************************************************)
(* The device's request to the server and its answer, as the event handler *)
(* of client.c sees it: the answer comes in pieces, which are collected in *)
(* a static buffer and parsed when the request finishes.                   *)
(*                                                                         *)
(* A piece is a pair of the path that was asked and its place in the body. *)
(* The buffer is the sequence of the pieces copied: output_len is its      *)
(* length, and the empty sequence stands for the null pointer, as the two  *)
(* are assigned together everywhere.                                       *)
(***************************************************************************)
EXTENDS WifiLink, Sequences

CONSTANTS PlayerIds,  \* the names the server gives out
          NoName,     \* the empty player_id
          MaxPieces   \* the pieces an answer comes in

ASSUME SomePieces == MaxPieces \in Nat \ {0}

VARIABLES request,            \* what the client task is waiting for
          reply,              \* the server's answer to it, once it has one
          arrived,            \* the pieces of the answer already handed over
          output_buffer,
          player_id,
          signed_certificate  \* the name in the certificate

httpVars == <<request, reply, arrived, output_buffer, player_id, signed_certificate>>

Paths == {"/spelare", "/spelare/csr", "/start"}
Names == PlayerIds \cup {NoName}

\* "cn" is the subject of the CSR; "garbage" is a buffer generate_csr failed to
\* fill.
Request == [path: Paths, cn: Names \cup {"garbage"}]
NoRequest == [path |-> "none", cn |-> NoName]

\* A name for /spelare, a certificate for /spelare/csr, or any other text:
\* a refusal, an error, or the status of a start.
Bodies == {"id", "certificate", "text"}
Reply == [body: Bodies, name: Names, pieces: 1..MaxPieces]
NoReply == [body |-> "none", name |-> NoName, pieces |-> 0]
Finished == [body |-> "finished", name |-> NoName, pieces |-> 0]

Pieces == Paths \X (1..MaxPieces)

HttpInit ==
  /\ request = NoRequest
  /\ reply = NoReply
  /\ arrived = 0
  /\ output_buffer = <<>>
  /\ player_id = NoName
  /\ signed_certificate = NoName

-----------------------------------------------------------------------------
\* What the server may answer (spelare_handler, spelare_csr_handler and
\* start_handler): the certificate is signed for the subject of the CSR.
AnswersTo(r) ==
  LET Answer(body, names) == [body: {body}, name: names, pieces: 1..MaxPieces]
  IN  Answer("text", {NoName})
        \cup (IF r.path = "/spelare" THEN Answer("id", PlayerIds) ELSE {})
        \cup (IF r.path = "/spelare/csr" /\ r.cn # "garbage"
              THEN Answer("certificate", {r.cn}) ELSE {})

ServerReplies ==
  /\ request # NoRequest
  /\ reply = NoReply
  /\ reply' \in AnswersTo(request)
  /\ UNCHANGED <<request, arrived, output_buffer, player_id, signed_certificate, wifiVars>>

\* HTTP_EVENT_ON_DATA: the first piece allocates the buffer; if that fails the
\* piece is lost.
OnData ==
  /\ arrived < reply.pieces
  /\ arrived' = arrived + 1
  /\ \/ output_buffer' = Append(output_buffer, <<request.path, arrived + 1>>)
     \/ output_buffer = <<>> /\ UNCHANGED output_buffer
  /\ UNCHANGED <<request, reply, player_id, signed_certificate, wifiVars>>

\* Every piece has come and none was kept: strstr is given the null pointer,
\* and the exception reboots the device (Panic of module Device).
NullParsed == reply.body \in Bodies /\ arrived = reply.pieces /\ output_buffer = <<>>

\* The buffer holds the whole body of the answer.
Whole == Len(output_buffer) = reply.pieces

\* HTTP_EVENT_ON_FINISH with a buffer: a name or a certificate is found only
\* in a body that is there from its beginning.
OnFinish ==
  /\ reply.body \in Bodies
  /\ arrived = reply.pieces
  /\ output_buffer # <<>>
  /\ \/ /\ Whole /\ reply.body = "certificate"
        /\ signed_certificate' = reply.name
        /\ bits' = bits \cup {"CERT_SIGNED"}
        /\ UNCHANGED player_id
     \/ /\ Whole /\ reply.body = "id"
        /\ player_id' = reply.name
        /\ UNCHANGED <<signed_certificate, bits>>
     \/ /\ ~Whole \/ reply.body = "text"
        /\ UNCHANGED <<player_id, signed_certificate, bits>>
  /\ output_buffer' = <<>>
  /\ reply' = Finished
  /\ arrived' = 0
  /\ UNCHANGED <<request, reconnect_counter, station, dhcp>>

\* Mutant: the buffer outlives the connection.
OnDisconnected_KeepBuffer ==
  /\ request # NoRequest
  /\ ~NullParsed
  /\ request' = NoRequest
  /\ reply' = NoReply
  /\ arrived' = 0
  /\ UNCHANGED <<output_buffer, player_id, signed_certificate, wifiVars>>

\* Mutant: a request without an answer is never given up.
OnDisconnected_NoTimeout ==
  /\ request # NoRequest
  /\ reply # NoReply
  /\ ~NullParsed
  /\ output_buffer' = <<>>
  /\ request' = NoRequest
  /\ reply' = NoReply
  /\ arrived' = 0
  /\ UNCHANGED <<player_id, signed_certificate, wifiVars>>

\* HTTP_EVENT_DISCONNECTED, from esp_http_client_cleanup: the request has
\* finished, failed or timed out, at whatever point it was.
OnDisconnected ==
  /\ request # NoRequest
  /\ ~NullParsed
  /\ output_buffer' = <<>>
  /\ request' = NoRequest
  /\ reply' = NoReply
  /\ arrived' = 0
  /\ UNCHANGED <<player_id, signed_certificate, wifiVars>>

-----------------------------------------------------------------------------
HttpTypeOK ==
  /\ request \in Request \cup {NoRequest}
  /\ reply \in Reply \cup {NoReply, Finished}
  /\ arrived \in 0..MaxPieces
  /\ output_buffer \in Seq(Pieces)
  /\ player_id \in Names
  /\ signed_certificate \in Names

\* What is collected is the end of what has arrived of the answer to the
\* request at hand: nothing of an earlier answer, whose request was cut off in
\* the middle, is left in the static buffer when the next one comes.
RepliesDoNotMix ==
  LET n == Len(output_buffer)
  IN  /\ n <= arrived
      /\ output_buffer = [i \in 1..n |-> <<request.path, arrived - n + i>>]

=============================================================================
