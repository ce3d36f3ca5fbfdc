------------------------ MODULE RequestPipelineProofs ------------------------
(***************************************************************************)
(* The safety of RequestPipeline for every chain of middleware, any integers *)
(* as statuses and any number of calls that the handler makes.  A Writer is  *)
(* the recorder and net/http's response together: what each of its methods   *)
(* preserves is a lemma, and IInv follows a request from label to label.     *)
(***************************************************************************)
EXTENDS RequestPipeline, TLAPS

(* A recorder that has latched nothing holds no status.                      *)
LatchOK(r) == ~r.wroteHeader => r.status = 0

(* A status that net/http sent is the one that was latched, or 200 for one   *)
(* that is not final.                                                        *)
SentOK(r, n) ==
    n.wrote =>
        /\ n.status \in Codes
        /\ \/ n.status = r.status
           \/ ~Final(r.status) /\ n.status = 200

(* The recorder knows that the client is being answered, a final status that *)
(* it holds was sent, and it counts bytes of a response with a body only.    *)
Agree(r, n) ==
    /\ Begun(n) => r.wroteHeader
    /\ r.wroteHeader /\ Final(r.status) => n.wrote
    /\ SentOK(r, n)
    /\ r.bytes > 0 => n.wrote /\ BodyAllowed(n.status)

WriterOK(w) ==
    /\ w \in Writers
    /\ LatchOK(w.rec)
    /\ Agree(w.rec, w.net)

-----------------------------------------------------------------------------
(* The inductive invariant: the writer, the reports and the panic, label by  *)
(* label.                                                                    *)
AnswerOK ==
    /\ pc # "done" => WriterOK(Writer)
    /\ pc = "done" =>
          /\ Begun(net)
          /\ rec.bytes > 0 => net.wrote /\ BodyAllowed(net.status)
          /\ ~net.hijacked => \/ statusCode = net.status
                              \/ ~Final(statusCode) /\ net.status = 200

ReportOK ==
    /\ pc \in {"middleware", "handler", "panicking", "reporting"} =>
          logged = << >> /\ observed = << >>
    /\ pc = "observing" => logged = <<Observation>> /\ observed = << >>
    /\ pc \in {"finishing", "done"} =>
          /\ logged = <<Observation>>
          /\ observed = IF observer = "nil" THEN << >> ELSE logged

PanicOK ==
    /\ pc \in {"middleware", "handler"} => ~panicked /\ raised = << >>
    /\ pc = "panicking" => ~panicked /\ raised = <<Writer>>
    /\ pc \in {"reporting", "observing", "finishing", "done"} =>
          /\ panicked <=> raised # << >>
          /\ raised # << >> /\ Unanswered(raised[1]) =>
                net.wrote /\ net.status = 500

IInv == TypeOK /\ AnswerOK /\ ReportOK /\ PanicOK

-----------------------------------------------------------------------------
(* net/http's response.                                                      *)
LEMMA FinalIsCode ==
    ASSUME NEW s, Final(s)
    PROVE  s \in Codes /\ ~Informational(s)
  <1>1. s \in Int /\ s >= 200 /\ s <= 999
    BY DEF Final
  <1> QED
    BY <1>1 DEF Codes, Informational

LEMMA NetHeaderKeeps ==
    ASSUME NEW n \in Responses, NEW s \in Int
    PROVE  /\ NetHeader(n, s) \in Responses
           /\ NetHeader(n, s).bytes = n.bytes
           /\ NetHeader(n, s).hijacked = n.hijacked
           /\ Begun(n) => NetHeader(n, s) = n
           /\ ~Begun(n) => \/ NetHeader(n, s) = n /\ ~Final(s)
                           \/ /\ NetHeader(n, s).wrote
                              /\ NetHeader(n, s).status = s
                              /\ s \in Codes
  <1>1. CASE Begun(n) \/ s \notin Codes \/ Informational(s)
    <2>1. Begun(n) \/ ~Final(s)
      BY <1>1, FinalIsCode
    <2>2. NetHeader(n, s) = n
      BY <1>1 DEF NetHeader
    <2> QED
      BY <2>1, <2>2
  <1>2. CASE ~(Begun(n) \/ s \notin Codes \/ Informational(s))
    <2>1. NetHeader(n, s) = [wrote |-> TRUE, status |-> s, bytes |-> n.bytes,
                             hijacked |-> n.hijacked]
      BY <1>2 DEF NetHeader, Responses
    <2>2. /\ NetHeader(n, s).wrote /\ NetHeader(n, s).status = s
          /\ NetHeader(n, s).bytes = n.bytes
          /\ NetHeader(n, s).hijacked = n.hijacked
      BY <2>1
    <2>3. n.bytes \in Nat /\ n.hijacked \in BOOLEAN /\ s \in Codes
      BY <1>2 DEF Responses
    <2>4. NetHeader(n, s) \in Responses
      BY <2>1, <2>3 DEF Responses
    <2> QED
      BY <1>2, <2>2, <2>3, <2>4
  <1> QED
    BY <1>1, <1>2

LEMMA NetWriteKeeps ==
    ASSUME NEW n \in Responses, NEW k \in Nat
    PROVE  /\ NetWrite(n, k) \in Responses
           /\ NetWrite(n, k).wrote = n.wrote
           /\ NetWrite(n, k).status = n.status
           /\ NetWrite(n, k).hijacked = n.hijacked
           /\ Accepted(n, k) \in Nat
           /\ Accepted(n, k) > 0 => ~n.hijacked /\ BodyAllowed(n.status)
  <1>1. /\ Accepted(n, k) \in Nat
        /\ Accepted(n, k) > 0 => ~n.hijacked /\ BodyAllowed(n.status)
    BY DEF Accepted
  <1> DEFINE sent == IF method = "HEAD" THEN 0 ELSE Accepted(n, k)
  <1>2. sent \in Nat
    BY <1>1
  <1>3. NetWrite(n, k) = [n EXCEPT !.bytes = n.bytes + sent]
    BY DEF NetWrite
  <1> HIDE DEF sent
  <1>4. n.bytes + sent \in Nat
    BY <1>2 DEF Responses
  <1> QED
    BY <1>1, <1>3, <1>4 DEF Responses

-----------------------------------------------------------------------------
(* The methods of the recorder.                                              *)

(* Latching a status before it is passed on.                                 *)
LEMMA LatchKeeps ==
    ASSUME NEW r \in Records, NEW s \in Int
    PROVE  LET l == [r EXCEPT !.status = s, !.wroteHeader = TRUE] IN
           /\ l \in Records
           /\ l.status = s /\ l.wroteHeader /\ l.bytes = r.bytes
  BY DEF Records

LEMMA HeaderKeeps ==
    ASSUME NEW w, WriterOK(w), NEW s \in Int
    PROVE  /\ WriterOK(RecHeader(w, s))
           /\ RecHeader(w, s).rec.wroteHeader
  <1>1. CASE w.rec.wroteHeader
    BY <1>1 DEF RecHeader
  <1>2. CASE ~w.rec.wroteHeader
    <2> DEFINE r == [w.rec EXCEPT !.status = s, !.wroteHeader = TRUE]
               n == NetHeader(w.net, s)
    <2>1. w.rec \in Records /\ w.net \in Responses
      BY DEF WriterOK, Writers
    <2>2. /\ r \in Records
          /\ r.status = s /\ r.wroteHeader /\ r.bytes = w.rec.bytes
      BY <2>1, LatchKeeps
    <2>3. /\ n \in Responses
          /\ ~Begun(w.net) => \/ n = w.net /\ ~Final(s)
                              \/ n.wrote /\ n.status = s /\ s \in Codes
      BY ZenonT(60), <2>1, NetHeaderKeeps
    <2>4. RecHeader(w, s) = [rec |-> r, net |-> n]
      BY <1>2 DEF RecHeader
    <2> HIDE DEF r, n
    <2>5. ~Begun(w.net) /\ ~(w.rec.bytes > 0)
      BY <1>2 DEF WriterOK, Agree, Begun
    <2>6. Agree(r, n)
      <3>1. n.wrote => n.status = s /\ s \in Codes
        BY <2>3, <2>5 DEF Begun
      <3>2. Final(s) => n.wrote
        BY <2>3, <2>5
      <3>3. ~(r.bytes > 0)
        BY <2>2, <2>5
      <3> QED
        BY <2>2, <3>1, <3>2, <3>3 DEF Agree, SentOK
    <2>7. [rec |-> r, net |-> n] \in Writers
      BY <2>2, <2>3 DEF Writers
    <2> QED
      BY <2>2, <2>4, <2>6, <2>7 DEF WriterOK, LatchOK
  <1> QED
    BY <1>1, <1>2

(* The 200 that net/http supplies for a recorder that has latched a status.  *)
LEMMA HeaderAgainKeeps ==
    ASSUME NEW w, WriterOK(w), w.rec.wroteHeader, NEW s, s = 200
    PROVE  /\ WriterOK([rec |-> w.rec, net |-> NetHeader(w.net, s)])
           /\ Begun(NetHeader(w.net, s))
           /\ NetHeader(w.net, s) \in Responses
  <1> DEFINE n == NetHeader(w.net, s)
  <1>1. w.rec \in Records /\ w.net \in Responses /\ s \in Int
    BY DEF WriterOK, Writers
  <1>2. Final(s)
    BY DEF Final
  <1>3. /\ n \in Responses
        /\ n.bytes = w.net.bytes
        /\ Begun(w.net) => n = w.net
        /\ ~Begun(w.net) => n.wrote /\ n.status = s /\ s \in Codes
    BY ZenonT(60), <1>1, <1>2, NetHeaderKeeps
  <1> HIDE DEF n
  <1>4. Agree(w.rec, w.net)
    BY DEF WriterOK
  <1>5. Agree(w.rec, n) /\ Begun(n)
    <2>1. CASE Begun(w.net)
      BY <1>3, <1>4, <2>1
    <2>2. CASE ~Begun(w.net)
      BY <1>3, <1>4, <2>2 DEF Agree, SentOK, Begun
    <2> QED
      BY <2>1, <2>2
  <1>6. [rec |-> w.rec, net |-> n] \in Writers
    BY <1>1, <1>3 DEF Writers
  <1> QED
    BY <1>3, <1>5, <1>6 DEF WriterOK, n

LEMMA WriteKeeps ==
    ASSUME NEW w, WriterOK(w), NEW k \in Nat
    PROVE  /\ WriterOK(RecWrite(w, k))
           /\ RecWrite(w, k).rec.status = RecHeader(w, 200).rec.status
           /\ RecWrite(w, k).net.wrote =
                 NetHeader(RecHeader(w, 200).net, 200).wrote
           /\ RecWrite(w, k).net.status =
                 NetHeader(RecHeader(w, 200).net, 200).status
  <1> DEFINE ok == 200
             h == RecHeader(w, ok)
             n == NetHeader(h.net, ok)
             r == [h.rec EXCEPT !.bytes = h.rec.bytes + Accepted(n, k)]
             m == NetWrite(n, k)
  <1>1. ok \in Int /\ ok = 200
    OBVIOUS
  <1>2. RecWrite(w, k) = [rec |-> r, net |-> m]
    BY DEF RecWrite
  <1> HIDE DEF ok
  <1>3. WriterOK(h) /\ h.rec.wroteHeader
    BY <1>1, HeaderKeeps
  <1> HIDE DEF h
  <1>4. /\ WriterOK([rec |-> h.rec, net |-> n])
        /\ Begun(n) /\ n \in Responses
    BY <1>1, <1>3, HeaderAgainKeeps
  <1> HIDE DEF n
  <1>5. /\ m \in Responses
        /\ m.wrote = n.wrote /\ m.status = n.status
        /\ m.hijacked = n.hijacked
        /\ Accepted(n, k) \in Nat
        /\ Accepted(n, k) > 0 => ~n.hijacked /\ BodyAllowed(n.status)
    BY <1>4, NetWriteKeeps
  <1> HIDE DEF m
  <1>6. h.rec \in Records
    BY <1>4 DEF WriterOK, Writers
  <1>7. /\ r \in Records
        /\ r.bytes = h.rec.bytes + Accepted(n, k)
        /\ r.status = h.rec.status /\ r.wroteHeader = h.rec.wroteHeader
    BY <1>5, <1>6 DEF Records
  <1>8. r.bytes > 0 => h.rec.bytes > 0 \/ Accepted(n, k) > 0
    BY <1>5, <1>6, <1>7 DEF Records
  <1> HIDE DEF r
  <1>9. Agree(h.rec, n)
    BY <1>4 DEF WriterOK
  <1>10. Agree(r, m)
    BY <1>4, <1>5, <1>7, <1>8, <1>9 DEF Agree, SentOK, Begun
  <1>11. [rec |-> r, net |-> m] \in Writers
    BY <1>5, <1>7 DEF Writers
  <1>12. WriterOK(RecWrite(w, k))
    <2> DEFINE v == [rec |-> r, net |-> m]
    <2>1. v.rec = r /\ v.net = m /\ v \in Writers
      BY <1>11
    <2>2. LatchOK(r)
      BY <1>3, <1>7 DEF LatchOK
    <2> HIDE DEF v
    <2>3. WriterOK(v)
      BY <1>10, <2>1, <2>2 DEF WriterOK
    <2> QED
      BY <1>2, <2>3 DEF v
  <1>13. /\ RecWrite(w, k).rec.status = h.rec.status
         /\ RecWrite(w, k).net.wrote = n.wrote
         /\ RecWrite(w, k).net.status = n.status
    BY <1>2, <1>5, <1>7
  <1> QED
    BY <1>12, <1>13 DEF h, n, ok

LEMMA FlushKeeps ==
    ASSUME NEW w, WriterOK(w)
    PROVE  WriterOK(RecFlush(w))
  <1> DEFINE ok == 200
             h == RecHeader(w, ok)
  <1>1. ok \in Int /\ ok = 200
    OBVIOUS
  <1>2. RecFlush(w) = [h EXCEPT !.net = NetHeader(h.net, ok)]
    BY DEF RecFlush
  <1> HIDE DEF ok
  <1>3. WriterOK(h) /\ h.rec.wroteHeader
    BY <1>1, HeaderKeeps
  <1> HIDE DEF h
  <1>4. RecFlush(w) = [rec |-> h.rec, net |-> NetHeader(h.net, ok)]
    BY <1>2, <1>3 DEF WriterOK, Writers
  <1> QED
    BY <1>1, <1>3, <1>4, HeaderAgainKeeps

LEMMA HijackKeeps ==
    ASSUME NEW w, WriterOK(w), NEW taken \in BOOLEAN
    PROVE  WriterOK(RecHijack(w, taken))
  <1> DEFINE r == IF w.rec.wroteHeader THEN w.rec
                  ELSE [w.rec EXCEPT !.status = 101, !.wroteHeader = TRUE]
             n == [w.net EXCEPT !.hijacked = w.net.hijacked \/ taken]
  <1>1. w.rec \in Records /\ w.net \in Responses /\ Agree(w.rec, w.net)
    BY DEF WriterOK, Writers
  <1>2. /\ r \in Records
        /\ r.bytes = w.rec.bytes /\ r.wroteHeader
        /\ r = w.rec \/ (~w.rec.wroteHeader /\ r.status = 101)
    <2>1. CASE w.rec.wroteHeader
      <3>1. r = w.rec
        BY <2>1
      <3> HIDE DEF r
      <3> QED
        BY <1>1, <2>1, <3>1
    <2>2. CASE ~w.rec.wroteHeader
      <3> DEFINE s == 101
      <3>1. s \in Int /\ s = 101
        OBVIOUS
      <3>2. r = [w.rec EXCEPT !.status = s, !.wroteHeader = TRUE]
        BY <2>2
      <3> HIDE DEF r, s
      <3>3. r \in Records /\ r.status = s /\ r.wroteHeader
            /\ r.bytes = w.rec.bytes
        BY <1>1, <3>1, <3>2, LatchKeeps
      <3> QED
        BY <2>2, <3>1, <3>3
    <2> QED
      BY <2>1, <2>2
  <1>3. /\ n \in Responses /\ n.wrote = w.net.wrote
        /\ n.status = w.net.status
    BY <1>1 DEF Responses
  <1>4. RecHijack(w, taken) = [rec |-> r, net |-> n]
    BY DEF RecHijack
  <1> HIDE DEF r, n
  <1>5. Agree(r, n)
    <2>1. CASE r = w.rec
      BY <1>1, <1>2, <1>3, <2>1 DEF Agree, SentOK, Begun
    <2>2. CASE ~w.rec.wroteHeader /\ r.status = 101
      BY <1>1, <1>2, <1>3, <2>2 DEF Agree, SentOK, Begun, Final
    <2> QED
      BY <1>2, <2>1, <2>2
  <1>6. [rec |-> r, net |-> n] \in Writers
    BY <1>2, <1>3 DEF Writers
  <1> QED
    BY <1>2, <1>4, <1>5, <1>6 DEF WriterOK, LatchOK

LEMMA ErrorKeeps ==
    ASSUME NEW w, WriterOK(w), NEW s \in 200..999
    PROVE  WriterOK(HTTPError(w, s))
  <1> DEFINE h == RecHeader(w, s)
             k == 1
  <1>1. WriterOK(h) /\ k \in Nat
    BY HeaderKeeps
  <1>2. HTTPError(w, s) = RecWrite(h, k)
    BY DEF HTTPError
  <1> HIDE DEF h, k
  <1> QED
    BY <1>1, <1>2, WriteKeeps

(* http.Error answers a request that has no answer yet.                      *)
LEMMA ErrorReaches ==
    ASSUME NEW w, WriterOK(w), NEW s \in 200..999, ~w.rec.wroteHeader
    PROVE  HTTPError(w, s).net.wrote /\ HTTPError(w, s).net.status = s
  <1> DEFINE h == RecHeader(w, s)
             k == 1
  <1>1. WriterOK(h) /\ h.rec.wroteHeader /\ k \in Nat /\ s \in Int
    BY HeaderKeeps
  <1>2. HTTPError(w, s) = RecWrite(h, k)
    BY DEF HTTPError
  <1> HIDE DEF k
  <1>3. h.rec.status = s
    <2>1. w.rec \in Records
      BY DEF WriterOK, Writers
    <2>2. h.rec = [w.rec EXCEPT !.status = s, !.wroteHeader = TRUE]
      BY DEF RecHeader
    <2> DEFINE r == w.rec
    <2>3. r \in Records /\ h.rec = [r EXCEPT !.status = s, !.wroteHeader = TRUE]
      BY <2>1, <2>2
    <2> HIDE DEF h, r
    <2>4. [r EXCEPT !.status = s, !.wroteHeader = TRUE].status = s
      BY <2>3 DEF Records
    <2> QED
      BY <2>3, <2>4
  <1>4. RecHeader(h, 200) = h
    BY <1>1 DEF RecHeader
  <1>5. Final(s)
    BY DEF Final
  <1> HIDE DEF h
  <1>6. HTTPError(w, s).rec.status = s
    BY <1>1, <1>2, <1>3, <1>4, WriteKeeps
  <1>7. HTTPError(w, s).net.wrote
    <2>1. NetHeader(h.net, 200) = h.net
      BY <1>1, <1>3, <1>5 DEF NetHeader, WriterOK, Agree, Begun
    <2>2. h.net.wrote
      BY <1>1, <1>3, <1>5 DEF WriterOK, Agree
    <2>3. HTTPError(w, s).net.wrote = NetHeader(RecHeader(h, 200).net, 200).wrote
      BY <1>1, <1>2, WriteKeeps
    <2> QED
      BY <1>4, <2>1, <2>2, <2>3
  <1>8. WriterOK(HTTPError(w, s))
    BY ErrorKeeps
  <1> QED
    BY <1>5, <1>6, <1>7, <1>8 DEF WriterOK, Agree, SentOK

-----------------------------------------------------------------------------
(* The steps.                                                                *)

(* What a step that leaves rec and net a good writer owes to the rest.       *)
LEMMA WriterFacts ==
    ASSUME WriterOK(Writer)
    PROVE  rec \in Records /\ net \in Responses /\ LatchOK(rec)
  BY DEF WriterOK, Writers, Writer

LEMMA RespondKeeps ==
    ASSUME NEW w, WriterOK(w), Respond(w)
    PROVE  /\ Writer' = w
           /\ WriterOK(Writer)'
           /\ rec' \in Records /\ net' \in Responses /\ LatchOK(rec')
  <1>1. [rec |-> w.rec, net |-> w.net] = w
    BY DEF WriterOK, Writers
  <1>2. Writer' = w
    BY <1>1 DEF Respond, Writer
  <1>3. WriterOK(Writer)'
    BY <1>2 DEF WriterOK, LatchOK, Agree, SentOK
  <1> QED
    BY <1>2, <1>3 DEF WriterOK, Writers, Respond

LEMMA InitInv == Init => IInv
  <1> SUFFICES ASSUME Init PROVE IInv
    OBVIOUS
  <1> USE DEF Init
  <1>1. rec \in Records /\ net \in Responses
    BY DEF NewRecorder, Fresh, Records, Responses
  <1>2. chain \in Seq(Kinds) /\ MaxCalls \in Nat
    BY PipelineAssumption
  <1>3. TypeOK
    <2>1. ~rec.wroteHeader => rec.status = 0
      BY DEF NewRecorder
    <2>2. at \in 1..Len(chain) + 1 /\ calls \in 0..MaxCalls
      BY <1>2
    <2>3. /\ logged \in Seq(Observations) /\ observed \in Seq(Observations)
          /\ raised \in Seq(Writers)
          /\ Len(logged) <= 1 /\ Len(observed) <= Len(logged)
      OBVIOUS
    <2> QED
      BY <1>1, <2>1, <2>2, <2>3 DEF TypeOK, Labels
  <1>4. WriterOK(Writer)
    BY <1>1 DEF WriterOK, Writers, Writer, Agree, SentOK, Begun, LatchOK,
                NewRecorder, Fresh
  <1> QED
    BY <1>3, <1>4 DEF IInv, AnswerOK, ReportOK, PanicOK

(* A call of the handler's.                                                  *)
LEMMA CalledKeeps ==
    ASSUME IInv, NEW w, Called(w), WriterOK(w)
    PROVE  /\ Writer' = w /\ WriterOK(w)
           /\ WriterOK(Writer)'
           /\ rec' \in Records /\ net' \in Responses
           /\ (~rec.wroteHeader => rec.status = 0)'
           /\ calls' \in 0..MaxCalls
           /\ logged = << >> /\ observed = << >> /\ ~panicked
           /\ raised = << >>
  <1>1. /\ Writer' = w
        /\ WriterOK(Writer)'
        /\ rec' \in Records /\ net' \in Responses /\ LatchOK(rec')
    BY RespondKeeps DEF Called
  <1>2. calls' \in 0..MaxCalls
    BY PipelineAssumption DEF Called, IInv, TypeOK
  <1> QED
    BY <1>1, <1>2 DEF Called, IInv, ReportOK, PanicOK, LatchOK

LEMMA CallKeeps ==
    ASSUME IInv, NEW w, Call(w), WriterOK(w)
    PROVE  IInv'
  <1> USE DEF Call, Called, IInv
  <1>1. /\ WriterOK(Writer)'
        /\ rec' \in Records /\ net' \in Responses
        /\ (~rec.wroteHeader => rec.status = 0)'
        /\ calls' \in 0..MaxCalls
    BY CalledKeeps
  <1>2. TypeOK'
    BY <1>1 DEF TypeOK, report
  <1>3. AnswerOK'
    BY <1>1 DEF AnswerOK
  <1>4. ReportOK' /\ PanicOK'
    BY DEF ReportOK, PanicOK, report
  <1> QED
    BY <1>2, <1>3, <1>4

(* WriteHeader panics with the recorder latched.                             *)
LEMMA WriteHeaderPanicsKeeps ==
    ASSUME IInv, WriteHeaderPanics
    PROVE  IInv'
  <1>1. PICK s \in Statuses : /\ Called(RecHeader(Writer, s))
                              /\ pc' = "panicking"
                              /\ raised' = <<RecHeader(Writer, s)>>
    BY DEF WriteHeaderPanics
  <1> DEFINE w == RecHeader(Writer, s)
  <1>2. WriterOK(w)
    <2>1. s \in Int /\ WriterOK(Writer)
      BY <1>1, PipelineAssumption DEF IInv, AnswerOK, Called
    <2> QED
      BY <2>1, HeaderKeeps
  <1>3. Called(w) /\ raised' = <<w>>
    BY <1>1
  <1> HIDE DEF w
  <1>4. /\ Writer' = w /\ w \in Writers
        /\ WriterOK(Writer)'
        /\ rec' \in Records /\ net' \in Responses
        /\ (~rec.wroteHeader => rec.status = 0)'
        /\ calls' \in 0..MaxCalls
        /\ logged = << >> /\ observed = << >> /\ ~panicked
    BY <1>2, <1>3, CalledKeeps DEF WriterOK
  <1> USE DEF IInv, Called, report
  <1>5. TypeOK'
    BY <1>1, <1>3, <1>4 DEF TypeOK, Labels
  <1>6. AnswerOK'
    BY <1>1, <1>4 DEF AnswerOK
  <1>7. ReportOK' /\ PanicOK'
    BY <1>1, <1>3, <1>4 DEF ReportOK, PanicOK
  <1> QED
    BY <1>5, <1>6, <1>7

(* A step to another label of the request that leaves the response alone.    *)
LEMMA MoveKeeps ==
    ASSUME IInv, pc \in {"middleware", "handler"},
           pc' \in {"middleware", "handler", "reporting"},
           at' \in 1..Len(chain) + 1,
           UNCHANGED <<chain, method, observer, calls, response, report, raised>>
    PROVE  IInv'
  <1> USE DEF IInv, response, report
  <1>1. TypeOK'
    BY DEF TypeOK, Labels
  <1>2. AnswerOK'
    BY DEF AnswerOK, WriterOK, Writers, Writer, Agree, SentOK, LatchOK
  <1>3. ReportOK' /\ PanicOK'
    BY DEF ReportOK, PanicOK
  <1> QED
    BY <1>1, <1>2, <1>3

LEMMA PassOnKeeps ==
    ASSUME IInv, NEW k, Turn(k), PassOn
    PROVE  IInv'
  <1>1. chain \in Seq(Kinds)
    BY PipelineAssumption DEF IInv, TypeOK
  <1>2. at' \in 1..Len(chain) + 1
    BY <1>1 DEF IInv, TypeOK, Turn, PassOn
  <1>3. pc' \in {"middleware", "handler", "reporting"}
    BY DEF PassOn
  <1> QED
    BY <1>2, <1>3, MoveKeeps DEF Turn, PassOn

LEMMA AnswerKeeps ==
    ASSUME IInv, NEW k, Turn(k), NEW s \in 200..999, Answer(s)
    PROVE  IInv'
  <1> USE DEF IInv, Turn, Answer, report
  <1>1. WriterOK(HTTPError(Writer, s))
    BY ErrorKeeps DEF AnswerOK
  <1>2. /\ WriterOK(Writer)'
        /\ rec' \in Records /\ net' \in Responses
        /\ (~rec.wroteHeader => rec.status = 0)'
    BY <1>1, RespondKeeps DEF LatchOK
  <1>3. TypeOK'
    BY <1>2 DEF TypeOK, Labels
  <1>4. AnswerOK'
    BY <1>2 DEF AnswerOK
  <1>5. ReportOK' /\ PanicOK'
    BY DEF ReportOK, PanicOK
  <1> QED
    BY <1>2, <1>3, <1>4, <1>5

LEMMA PanicKeeps ==
    ASSUME IInv, Panic
    PROVE  IInv'
  <1> USE DEF IInv, Panic, response, report
  <1>0. Writer \in Writers /\ Writer' = Writer
    BY DEF TypeOK, Writer, Writers
  <1>1. TypeOK'
    BY <1>0 DEF TypeOK, Labels
  <1>2. AnswerOK'
    BY DEF AnswerOK, WriterOK, Writers, Writer, Agree, SentOK, LatchOK
  <1>3. ReportOK' /\ PanicOK'
    BY <1>0 DEF ReportOK, PanicOK
  <1> QED
    BY <1>1, <1>2, <1>3

(* The 500 of the recovery reaches a client whose recorder latched nothing.  *)
LEMMA RecoverKeeps ==
    ASSUME IInv, Recover
    PROVE  IInv'
  <1> USE DEF IInv, Recover
  <1> DEFINE e == HTTPError(Writer, 500)
  <1>0. ASSUME WriterOK(Writer)
        PROVE  /\ WriterOK(e)
               /\ ~Writer.rec.wroteHeader => e.net.wrote /\ e.net.status = 500
    <2> DEFINE v == Writer
               code == 500
    <2>1. code \in 200..999
      OBVIOUS
    <2>5. code = 500 /\ e = HTTPError(v, code)
      OBVIOUS
    <2>2. WriterOK(v)
      BY <1>0
    <2> HIDE DEF v, code, e
    <2>3. WriterOK(HTTPError(v, code))
      BY <2>1, <2>2, ErrorKeeps
    <2>4. ASSUME ~v.rec.wroteHeader
          PROVE  /\ HTTPError(v, code).net.wrote
                 /\ HTTPError(v, code).net.status = code
      BY ZenonT(60), <2>1, <2>2, <2>4, ErrorReaches
    <2> QED
      BY <2>3, <2>4, <2>5 DEF v
  <1>1. WriterOK(Writer)
    BY DEF AnswerOK
  <1>2. IF rec.wroteHeader THEN UNCHANGED response ELSE Respond(e)
    OBVIOUS
  <1> HIDE DEF e
  <1>3. /\ WriterOK(Writer)'
        /\ rec' \in Records /\ net' \in Responses
        /\ (~rec.wroteHeader => rec.status = 0)'
    <2>1. CASE rec.wroteHeader
      BY <1>1, <1>2, <2>1, WriterFacts
         DEF response, WriterOK, Writers, Writer, Agree, SentOK, LatchOK
    <2>2. CASE ~rec.wroteHeader
      BY <1>0, <1>1, <1>2, <2>2, RespondKeeps DEF LatchOK
    <2> QED
      BY <2>1, <2>2
  <1>4. TypeOK'
    BY <1>3 DEF TypeOK, Labels
  <1>5. AnswerOK'
    BY <1>3 DEF AnswerOK
  <1>6. ReportOK'
    BY DEF ReportOK
  <1>7. Unanswered(Writer) => net'.wrote /\ net'.status = 500
    <2>1. Writer.rec = rec /\ Writer.net = net
      BY DEF Writer
    <2>2. Unanswered(Writer) => ~rec.wroteHeader
      BY <1>1, <2>1 DEF Unanswered, WriterOK, Agree, Begun
    <2> QED
      BY <1>0, <1>1, <1>2, <2>1, <2>2 DEF Respond
  <1>8. raised' = <<Writer>> /\ panicked' /\ pc' = "reporting"
    BY DEF PanicOK
  <1>9. PanicOK'
    BY <1>7, <1>8 DEF PanicOK
  <1> QED
    BY <1>4, <1>5, <1>6, <1>9

LEMMA ObservationTyped ==
    ASSUME IInv
    PROVE  Observation \in Observations
  <1>1. rec \in Records /\ panicked \in BOOLEAN
    BY DEF IInv, TypeOK
  <1>2. statusCode \in Int /\ rec.bytes \in Nat
    BY <1>1 DEF statusCode, Records
  <1> QED
    BY <1>1, <1>2 DEF Observation, Observations

LEMMA LogKeeps ==
    ASSUME IInv, Log
    PROVE  IInv'
  <1> USE DEF IInv, Log, response
  <1>1. logged' = <<Observation>> /\ observed' = << >>
    BY DEF ReportOK
  <1>2. Observation' = Observation
    BY DEF Observation, statusCode
  <1>3. TypeOK'
    BY <1>1, ObservationTyped DEF TypeOK, Labels
  <1>4. AnswerOK'
    BY DEF AnswerOK, WriterOK, Writers, Writer, Agree, SentOK, LatchOK
  <1>5. ReportOK'
    BY <1>1, <1>2 DEF ReportOK
  <1>6. PanicOK'
    BY DEF PanicOK
  <1> QED
    BY <1>3, <1>4, <1>5, <1>6

LEMMA ObserveKeeps ==
    ASSUME IInv, Observe
    PROVE  IInv'
  <1> USE DEF IInv, Observe, response
  <1>1. /\ logged' = <<Observation>>
        /\ observed' = IF observer = "nil" THEN << >> ELSE <<Observation>>
    BY DEF ReportOK
  <1>2. Observation' = Observation
    BY DEF Observation, statusCode
  <1>3. TypeOK'
    BY <1>1, ObservationTyped DEF TypeOK, Labels
  <1>4. AnswerOK'
    BY DEF AnswerOK, WriterOK, Writers, Writer, Agree, SentOK, LatchOK
  <1>5. ReportOK'
    BY <1>1, <1>2 DEF ReportOK
  <1>6. PanicOK'
    BY DEF PanicOK
  <1> QED
    BY <1>3, <1>4, <1>5, <1>6

(* net/http answers 200 for a request that no header was sent for.           *)
LEMMA FinishKeeps ==
    ASSUME IInv, FinishRequest
    PROVE  IInv'
  <1> DEFINE ok == 200
  <1> USE DEF IInv, FinishRequest, report
  <1>1. ok \in Int /\ ok = 200 /\ Final(ok) /\ net' = NetHeader(net, ok)
    BY DEF Final
  <1>2. WriterOK(Writer) /\ rec \in Records /\ net \in Responses
    BY WriterFacts DEF AnswerOK
  <1> HIDE DEF ok
  <1>3. /\ net' \in Responses
        /\ net'.hijacked = net.hijacked
        /\ Begun(net) => net' = net
        /\ ~Begun(net) => net'.wrote /\ net'.status = ok
    <2> DEFINE n == NetHeader(net, ok)
    <2>1. n \in Responses /\ n.hijacked = net.hijacked
      BY <1>1, <1>2, NetHeaderKeeps
    <2>2. Begun(net) => n = net
      BY <1>1, <1>2, NetHeaderKeeps
    <2>3. ~Begun(net) => \/ n = net /\ ~Final(ok)
                         \/ n.wrote /\ n.status = ok /\ ok \in Codes
      BY <1>1, <1>2, NetHeaderKeeps
    <2> HIDE DEF n
    <2> QED
      BY <1>1, <2>1, <2>2, <2>3 DEF n
  <1>4. TypeOK'
    BY <1>3 DEF TypeOK, Labels
  <1>5. LatchOK(rec) /\ Agree(rec, net)
    BY <1>2 DEF WriterOK, Writer
  <1>6. AnswerOK'
    <2>1. Begun(net')
      BY <1>3 DEF Begun
    <2>2. rec'.bytes > 0 => net'.wrote /\ BodyAllowed(net'.status)
      BY <1>3, <1>5 DEF Agree, Begun
    <2>3. ASSUME ~net'.hijacked
          PROVE  \/ statusCode' = net'.status
                 \/ ~Final(statusCode') /\ net'.status = 200
      <3>1. statusCode' = statusCode
        BY DEF statusCode
      <3>2. CASE net.wrote
        <4>1. net' = net /\ rec.wroteHeader
          BY <1>3, <1>5, <3>2 DEF Agree, Begun
        <4>2. /\ net.status \in Codes
              /\ \/ net.status = rec.status
                 \/ ~Final(rec.status) /\ net.status = 200
          BY <1>5, <3>2 DEF Agree, SentOK
        <4>3. net.status # 0
          BY <4>2 DEF Codes
        <4> QED
          BY <3>1, <4>1, <4>2, <4>3 DEF statusCode
      <3>3. CASE ~net.wrote
        <4>1. net'.status = 200
          BY <1>1, <1>3, <2>3, <3>3 DEF Begun
        <4>2. ~rec.wroteHeader \/ ~Final(rec.status)
          BY <1>5, <3>3 DEF Agree
        <4> QED
          BY <1>5, <3>1, <4>1, <4>2 DEF statusCode, LatchOK
      <3> QED
        BY <3>2, <3>3
    <2> QED
      BY <2>1, <2>2, <2>3 DEF AnswerOK
  <1>7. ReportOK'
    BY DEF ReportOK, Observation, statusCode
  <1>8. PanicOK'
    BY <1>3 DEF PanicOK, Begun
  <1> QED
    BY <1>4, <1>6, <1>7, <1>8

LEMMA StepInv == IInv /\ [Next]_vars => IInv'
  <1> SUFFICES ASSUME IInv, [Next]_vars PROVE IInv'
    OBVIOUS
  <1>1. ASSUME pc = "handler" PROVE WriterOK(Writer)
    BY <1>1 DEF IInv, AnswerOK
  <1>2. CASE SecurityHeaders
    BY <1>2, PassOnKeeps DEF SecurityHeaders
  <1>3. CASE MaxBodyBytes
    BY <1>3, PassOnKeeps, AnswerKeeps DEF MaxBodyBytes
  <1>4. CASE RateLimit
    BY <1>4, PassOnKeeps, AnswerKeeps DEF RateLimit
  <1>5. CASE NoMiddleware
    <2>1. at' \in 1..Len(chain) + 1
      BY <1>5 DEF NoMiddleware, IInv, TypeOK
    <2> QED
      BY <1>5, <2>1, MoveKeeps DEF NoMiddleware
  <1>6. CASE WriteHeader
    <2>1. PICK s \in Statuses : Call(RecHeader(Writer, s))
      BY <1>6 DEF WriteHeader
    <2>2. s \in Int
      BY PipelineAssumption
    <2> QED
      BY <1>1, <2>1, <2>2, HeaderKeeps, CallKeeps DEF Call, Called
  <1>17. CASE WriteHeaderPanics
    BY <1>17, WriteHeaderPanicsKeeps
  <1>7. CASE Write
    <2>1. PICK k \in Writes : Call(RecWrite(Writer, k))
      BY <1>7 DEF Write
    <2>2. k \in Nat
      BY PipelineAssumption
    <2> QED
      BY <1>1, <2>1, <2>2, WriteKeeps, CallKeeps DEF Call, Called
  <1>8. CASE Flush
    BY <1>1, <1>8, FlushKeeps, CallKeeps DEF Flush, Call, Called
  <1>9. CASE Hijack
    <2>1. CASE Call(Writer)
      BY <1>1, <2>1, CallKeeps DEF Call, Called
    <2>2. CASE \E taken \in BOOLEAN : Call(RecHijack(Writer, taken))
      BY <1>1, <2>2, HijackKeeps, CallKeeps DEF Call, Called
    <2> QED
      BY <1>9, <2>1, <2>2 DEF Hijack
  <1>10. CASE HandlerReturns
    <2>1. at' \in 1..Len(chain) + 1
      BY <1>10 DEF HandlerReturns, IInv, TypeOK
    <2> QED
      BY <1>10, <2>1, MoveKeeps DEF HandlerReturns
  <1>11. CASE Panic
    BY <1>11, PanicKeeps
  <1>12. CASE Recover
    BY <1>12, RecoverKeeps
  <1>13. CASE Log
    BY <1>13, LogKeeps
  <1>14. CASE Observe
    BY <1>14, ObserveKeeps
  <1>15. CASE FinishRequest
    BY <1>15, FinishKeeps
  <1>16. CASE UNCHANGED vars
    BY <1>16 DEF IInv, vars, response, report, TypeOK, LatchOK, AnswerOK,
                 ReportOK, PanicOK, WriterOK, Writers, Writer, Agree, SentOK,
                 Observation, statusCode
  <1> QED
    BY <1>2, <1>3, <1>4, <1>5, <1>6, <1>7, <1>8, <1>9, <1>10, <1>11, <1>12,
       <1>13, <1>14, <1>15, <1>16, <1>17 DEF Next

LEMMA Invariance == Spec => []IInv
  BY InitInv, StepInv, PTL DEF Spec

-----------------------------------------------------------------------------
(* Theorems                                                                  *)

(* The recorder, net/http's response and the reports keep their types, for   *)
(* any integers as statuses (server.go:388-463).                             *)
THEOREM TypeCorrect == Spec => []TypeOK
  <1>1. IInv => TypeOK
    BY DEF IInv
  <1> QED
    BY <1>1, Invariance, PTL

(* Whatever integers the handler writes as statuses, in whatever order it    *)
(* calls its writer and wherever it panics: the status reported is the one   *)
(* received, or one that is not final beside a 200 (server.go:395-463).      *)
THEOREM StatusIsReported == Spec => []StatusReported
  <1>1. IInv => StatusReported
    BY DEF IInv, AnswerOK, ReportOK, StatusReported, Done, Observation
  <1> QED
    BY <1>1, Invariance, PTL

(* Body bytes are reported only of responses that have a body                *)
(* (server.go:403-410, 444-455).                                             *)
THEOREM BodyIsReported == Spec => []BodyReported
  <1>1. IInv => BodyReported
    BY DEF IInv, AnswerOK, ReportOK, BodyReported, Done, Observation
  <1> QED
    BY <1>1, Invariance, PTL

(* A panic is reported as one, and answered with 500 whenever the client was *)
(* not being answered and the recorder held no status that is not final      *)
(* (server.go:202-209).                                                      *)
THEOREM PanicIsAnswered == Spec => []PanicAnswered
  <1>1. IInv => PanicAnswered
    BY DEF IInv, PanicOK, ReportOK, PanicAnswered, Done, Observation
  <1> QED
    BY <1>1, Invariance, PTL

(* Every request that ends was answered or taken over, and was reported to a *)
(* configured observer exactly once (server.go:202-222, 376-386).            *)
THEOREM EveryRequestIsAnswered == Spec => []Answered
  <1>1. IInv => Answered
    BY DEF IInv, AnswerOK, ReportOK, Answered, Done
  <1> QED
    BY <1>1, Invariance, PTL
=============================================================================
