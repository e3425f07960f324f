--------------------------- MODULE PipelineProofs ---------------------------
(***************************************************************************)
(* Theorems about Pipeline for any number of requests of any kinds in      *)
(* flight at once, and any gateway.yaml files: the middleware stack counts *)
(* what it answers, ends what it opens, and lets nobody past the           *)
(* authentication layer who may not.                                       *)
(***************************************************************************)
EXTENDS Pipeline, SequenceTheorems, TLAPS

(***************************************************************************)
(* What a request has seen of the settings, as far as its fate depends on  *)
(* it: S is a value of seen[r], k its kind.                                *)
(***************************************************************************)
MetricsOff(S) == \E f \in S : \E c \in f : ~ c.metrics

OpenIn(k, S) == \E f \in S : \E c \in f : Opens(k, c)

RefusedIn(k, S) == \E f \in S : \E c \in f : Refuses(k, c)

AtFault(k, S) == k.lookup = "raises" \/ {} \in S

(***************************************************************************)
(* The inductive invariant, layer by layer.  The metrics layer is in its   *)
(* await while a request is further in; only then is a span open, and only *)
(* then has the request still to be counted.                               *)
(***************************************************************************)
Inside(q) ==
    \/ q.way = "down" /\ q.at > 2
    \/ q.way \in {"up", "raised"} /\ q.at > 1

\* The status that the request is to be answered with.
Due(q) == IF q.way = "raised" THEN 500 ELSE q.status

Accounted(q, S, n) ==
    \/ n = <<Due(q)>>
    \/ n = << >> /\ (MetricsOff(S) \/ (Due(q) = 500 /\ AtFault(q.kind, S)))

Measured(q, S, n, o) ==
    /\ q.way = "down" /\ q.at <= 2 => n = << >> /\ o = "none" /\ ~ q.metered
    /\ Inside(q) => /\ n = << >>
                    /\ q.metered => o = "open"
                    /\ ~ q.metered => o = "none" /\ MetricsOff(S)
    /\ q.way = "cancelled" => o # "open"
    /\ q.way \in {"up", "raised", "replied"} /\ ~ Inside(q) => o # "open" /\ Accounted(q, S, n)

\* The authentication layer is the third, the logging layer the fourth.
Admitted(q, S, l) ==
    /\ q.way \in {"up", "raised", "replied"} => q.at < 6
    /\ q.way = "down" /\ q.at <= 4 => l = 0
    /\ q.way \in {"down", "up", "cancelled"} /\ q.at > 3 => OpenIn(q.kind, S)
    /\ l > 0 => OpenIn(q.kind, S)
    /\ q.status \in {200, 307, 404} => OpenIn(q.kind, S)
    /\ q.status = 401 => RefusedIn(q.kind, S)
    /\ q.way = "up" => q.status # 500
    /\ q.way = "raised" \/ q.status = 500 => OpenIn(q.kind, S) \/ AtFault(q.kind, S)

RequestInv(r) ==
    /\ InForce \in seen[r]
    /\ Measured(req[r], seen[r], counted[r], span[r])
    /\ Admitted(req[r], seen[r], logged[r])

\* Nothing is ever stored in the response cache.
IInv ==
    /\ TypeOK
    /\ DOMAIN store = {}
    /\ \A r \in Requests : RequestInv(r)

-----------------------------------------------------------------------------
(* The layers, and what they read of the settings.                         *)

LEMMA LayerPositions ==
    /\ Route = 6 /\ DOMAIN Layers = 1 .. 5
    /\ Layers[1] = "caching" /\ Layers[2] = "metrics" /\ Layers[3] = "auth"
    /\ Layers[4] = "logging" /\ Layers[5] = "cors"
<1>1. Len(Added) = 5 /\ \A i \in 1 .. 5 : Len(Added) - i + 1 = 6 - i
  BY DEF Added
<1>2. Layers = [i \in 1 .. 5 |-> Added[6 - i]]
  BY <1>1 DEF Layers, Reverse
<1>3. Layers \in Seq({"caching", "metrics", "auth", "logging", "cors"}) /\ Len(Layers) = 5
  BY <1>2 DEF Added
<1> QED BY <1>2, <1>3 DEF Added, Route

LEMMA AtLayerMeans ==
    ASSUME NEW r \in Requests, NEW way
    PROVE  /\ AtLayer(r, "caching", way) <=> req[r].at = 1 /\ req[r].way = way
           /\ AtLayer(r, "metrics", way) <=> req[r].at = 2 /\ req[r].way = way
           /\ AtLayer(r, "auth", way) <=> req[r].at = 3 /\ req[r].way = way
           /\ AtLayer(r, "logging", way) <=> req[r].at = 4 /\ req[r].way = way
           /\ AtLayer(r, "cors", way) <=> req[r].at = 5 /\ req[r].way = way
BY LayerPositions DEF AtLayer

\* Reading settings.gateway caches what was in force, and changes nothing else.
LEMMA ReadingKeepsInForce ==
    ASSUME TypeOK, cached' = cached \/ cached' = InForce, UNCHANGED gatewayFile
    PROVE  /\ InForce' = InForce
           /\ cached' \in {{}} \union {{f} : f \in {g \in GatewayFiles : Valid(g)}}
<1>1. cached \in {{}} \union {{f} : f \in {g \in GatewayFiles : Valid(g)}} /\ gatewayFile \in GatewayFiles
  BY DEF TypeOK
<1>2. CASE cached # {}
  <2>1. InForce = cached /\ cached' = cached
    BY <1>2 DEF InForce, Value
  <2> QED BY <1>1, <1>2, <2>1 DEF InForce, Value
<1>3. CASE cached = {} /\ Valid(gatewayFile)
  <2>1. Parsed(gatewayFile) = {gatewayFile} /\ InForce = {gatewayFile}
    BY <1>3 DEF InForce, Value, Parsed
  <2>2. cached' = {} \/ cached' = {gatewayFile}
    BY <1>3, <2>1
  <2>3. InForce' = {gatewayFile}
    BY <2>1, <2>2 DEF InForce, Value
  <2> QED BY <1>1, <1>3, <2>1, <2>2, <2>3
<1>4. CASE cached = {} /\ ~ Valid(gatewayFile)
  <2>1. Parsed(gatewayFile) = {} /\ InForce = {}
    BY <1>4 DEF InForce, Value, Parsed
  <2> QED BY <1>1, <1>4, <2>1 DEF InForce, Value
<1> QED BY <1>2, <1>3, <1>4

\* Who gets through the authentication layer may, and who does not may be
\* refused: a public path has no slash after it but the root, of which nothing is
\* left without.
LEMMA AuthorisedMay ==
    ASSUME NEW r, NEW c, req[r].kind \in Kind
    PROVE  /\ Authorised(r, c) => Opens(req[r].kind, c)
           /\ ~ Authorised(r, c) => Refuses(req[r].kind, c)
<1> DEFINE path == req[r].kind.path
<1>1. path \in [name : STRING, slashes : Nat]
  BY DEF Kind
<1>2. Stripped(path) = [name |-> path.name, slashes |-> 0]
  BY <1>1 DEF Stripped
<1>3. Stripped(path) \in PublicPaths => Public(path)
  BY <1>2 DEF Public
<1>4. ASSUME Public(path), path.name # "" PROVE Stripped(path) \in PublicPaths
  <2>1. PICK listed \in PublicPaths : listed.name = path.name
    BY <1>4 DEF Public
  <2>2. listed # Root
    <3>1. Root.name = ""
      BY DEF Root
    <3> QED BY <1>4, <2>1, <3>1
  <2>3. PICK name : listed = Path(name)
    BY <2>2 DEF PublicPaths
  <2>4. listed = [name |-> path.name, slashes |-> 0]
    BY <2>1, <2>3 DEF Path
  <2> QED BY <1>2, <2>1, <2>4
<1> QED BY <1>3, <1>4 DEF Authorised, Opens, Refuses, KeyValid

-----------------------------------------------------------------------------
(* Steps of a request.                                                     *)

\* What is known of a request that is to take a step.
LEMMA RequestFacts ==
    ASSUME IInv, NEW r \in Requests
    PROVE  /\ req[r] \in ReqRecord
           /\ req[r].status # 0 <=> req[r].way \in {"up", "replied"}
           /\ logged[r] \in 0 .. 2 /\ counted[r] \in Seq({200, 307, 401, 404, 500})
           /\ span[r] \in {"none", "open", "ended"}
           /\ InForce \in seen[r]
           /\ Measured(req[r], seen[r], counted[r], span[r])
           /\ Admitted(req[r], seen[r], logged[r])
BY DEF IInv, TypeOK, RequestInv

\* A step of r leaves the other requests alone: it keeps the invariant if it
\* keeps it for r.
LEMMA RequestMoves ==
    ASSUME IInv, NEW r \in Requests,
           NEW q \in ReqRecord, req' = [req EXCEPT ![r] = q],
           q.status # 0 <=> q.way \in {"up", "replied"},
           logged' \in [Requests -> 0 .. 2],
           counted' \in [Requests -> Seq({200, 307, 401, 404, 500})],
           span' \in [Requests -> {"none", "open", "ended"}],
           \A s \in Requests : s # r =>
              logged'[s] = logged[s] /\ counted'[s] = counted[s] /\ span'[s] = span[s],
           Measured(q, seen[r], counted'[r], span'[r]), Admitted(q, seen[r], logged'[r]),
           cached' = cached \/ cached' = InForce, UNCHANGED <<store, gatewayFile, seen>>
    PROVE  IInv'
<1>1. InForce' = InForce
      /\ cached' \in {{}} \union {{f} : f \in {g \in GatewayFiles : Valid(g)}}
  BY ReadingKeepsInForce DEF IInv
<1>2. TypeOK'
  <2>1. req' \in [Requests -> ReqRecord]
    BY DEF IInv, TypeOK
  <2>2. \A s \in Requests : req'[s].status # 0 <=> req'[s].way \in {"up", "replied"}
    BY DEF IInv, TypeOK
  <2> QED BY <1>1, <2>1, <2>2 DEF IInv, TypeOK
<1>3. ASSUME NEW s \in Requests PROVE RequestInv(s)'
  <2>0. RequestInv(s) /\ seen'[s] = seen[s]
    BY DEF IInv
  <2>1. CASE s = r
    <3>1. req'[s] = q
      BY <2>1 DEF IInv, TypeOK
    <3> QED BY <1>1, <2>0, <2>1, <3>1 DEF RequestInv
  <2>2. CASE s # r
    <3>1. req'[s] = req[s] /\ logged'[s] = logged[s] /\ counted'[s] = counted[s]
          /\ span'[s] = span[s]
      BY <2>2 DEF IInv, TypeOK
    <3> QED BY <1>1, <2>0, <3>1 DEF RequestInv
  <2> QED BY <2>1, <2>2
<1> QED BY <1>2, <1>3 DEF IInv

\* The steps in which nothing is logged, counted or traced.
LEMMA RequestMovesUnobserved ==
    ASSUME IInv, NEW r \in Requests,
           NEW q \in ReqRecord, req' = [req EXCEPT ![r] = q],
           q.status # 0 <=> q.way \in {"up", "replied"},
           Measured(q, seen[r], counted[r], span[r]), Admitted(q, seen[r], logged[r]),
           cached' = cached \/ cached' = InForce,
           UNCHANGED <<store, gatewayFile, seen, logged, counted, span>>
    PROVE  IInv'
<1>1. /\ logged' \in [Requests -> 0 .. 2]
      /\ counted' \in [Requests -> Seq({200, 307, 401, 404, 500})]
      /\ span' \in [Requests -> {"none", "open", "ended"}]
  BY DEF IInv, TypeOK
<1>2. \A s \in Requests : s # r =>
         logged'[s] = logged[s] /\ counted'[s] = counted[s] /\ span'[s] = span[s]
  OBVIOUS
<1>3. Measured(q, seen[r], counted'[r], span'[r]) /\ Admitted(q, seen[r], logged'[r])
  OBVIOUS
<1>4. UNCHANGED <<store, gatewayFile, seen>>
  OBVIOUS
<1> QED BY <1>1, <1>2, <1>3, <1>4, RequestMoves

\* Record p is q but for where it stands, its reply and whether it is metered.
Becomes(p, q, at, way, status, metered) ==
    /\ p \in ReqRecord
    /\ p.kind = q.kind /\ p.at = at /\ p.way = way
    /\ p.status = status /\ p.metered = metered

LEMMA RecordFields ==
    ASSUME NEW q \in ReqRecord
    PROVE  /\ q.kind \in Kinds /\ q.at \in 0 .. 6
           /\ q.way \in {"down", "up", "raised", "replied", "cancelled"}
           /\ q.status \in {0, 200, 307, 401, 404, 500}
           /\ q.metered \in BOOLEAN
BY LayerPositions DEF ReqRecord

\* What the helpers that move a request make of it.
LEMMA Moved ==
    ASSUME TypeOK, NEW r \in Requests, req[r].at \in 1 .. 5, Down(r)
    PROVE  \E p : /\ req' = [req EXCEPT ![r] = p]
                  /\ Becomes(p, req[r], req[r].at + 1, req[r].way, req[r].status,
                             req[r].metered)
<1>1. req \in [Requests -> ReqRecord] /\ req[r] \in ReqRecord
  BY DEF TypeOK
<1>2. PICK p : p = [req[r] EXCEPT !.at = @ + 1]
  OBVIOUS
<1>3. req' = [req EXCEPT ![r] = p]
  BY <1>1, <1>2 DEF Down
<1>4. p = [kind |-> req[r].kind, at |-> req[r].at + 1, way |-> req[r].way,
           status |-> req[r].status, metered |-> req[r].metered]
  BY <1>1, <1>2 DEF ReqRecord
<1>5. req[r].at + 1 \in 0 .. 6
  OBVIOUS
<1>6. Becomes(p, req[r], req[r].at + 1, req[r].way, req[r].status,
                 req[r].metered)
  <2>1. /\ req[r].kind \in Kinds /\ req[r].way \in {"down", "up", "raised", "replied", "cancelled"}
        /\ req[r].status \in {0, 200, 307, 401, 404, 500}
        /\ req[r].metered \in BOOLEAN
    BY <1>1, RecordFields
  <2> QED BY <1>4, <1>5, <2>1, LayerPositions DEF ReqRecord, Becomes
<1> QED BY <1>3, <1>6

LEMMA MovedUp ==
    ASSUME TypeOK, NEW r \in Requests, req[r].at \in 1 .. 6, Up(r)
    PROVE  \E p : /\ req' = [req EXCEPT ![r] = p]
                  /\ Becomes(p, req[r], req[r].at - 1, req[r].way, req[r].status,
                             req[r].metered)
<1>1. req \in [Requests -> ReqRecord] /\ req[r] \in ReqRecord
  BY DEF TypeOK
<1>2. PICK p : p = [req[r] EXCEPT !.at = @ - 1]
  OBVIOUS
<1>3. req' = [req EXCEPT ![r] = p]
  BY <1>1, <1>2 DEF Up
<1>4. p = [kind |-> req[r].kind, at |-> req[r].at - 1, way |-> req[r].way,
           status |-> req[r].status, metered |-> req[r].metered]
  BY <1>1, <1>2 DEF ReqRecord
<1>5. req[r].at - 1 \in 0 .. 6
  OBVIOUS
<1>6. Becomes(p, req[r], req[r].at - 1, req[r].way, req[r].status,
                 req[r].metered)
  <2>1. /\ req[r].kind \in Kinds /\ req[r].way \in {"down", "up", "raised", "replied", "cancelled"}
        /\ req[r].status \in {0, 200, 307, 401, 404, 500}
        /\ req[r].metered \in BOOLEAN
    BY <1>1, RecordFields
  <2> QED BY <1>4, <1>5, <2>1, LayerPositions DEF ReqRecord, Becomes
<1> QED BY <1>3, <1>6

LEMMA Raised ==
    ASSUME TypeOK, NEW r \in Requests, req[r].at \in 1 .. 6, Raise(r)
    PROVE  \E p : /\ req' = [req EXCEPT ![r] = p]
                  /\ Becomes(p, req[r], req[r].at - 1, "raised", req[r].status,
                             req[r].metered)
<1>1. req \in [Requests -> ReqRecord] /\ req[r] \in ReqRecord
  BY DEF TypeOK
<1>2. PICK p : p = [req[r] EXCEPT !.at = @ - 1, !.way = "raised"]
  OBVIOUS
<1>3. req' = [req EXCEPT ![r] = p]
  BY <1>1, <1>2 DEF Raise
<1>4. p = [kind |-> req[r].kind, at |-> req[r].at - 1, way |-> "raised",
           status |-> req[r].status, metered |-> req[r].metered]
  BY <1>1, <1>2 DEF ReqRecord
<1>5. req[r].at - 1 \in 0 .. 6
  OBVIOUS
<1>6. Becomes(p, req[r], req[r].at - 1, "raised", req[r].status,
                 req[r].metered)
  <2>1. /\ req[r].kind \in Kinds /\ req[r].way \in {"down", "up", "raised", "replied", "cancelled"}
        /\ req[r].status \in {0, 200, 307, 401, 404, 500}
        /\ req[r].metered \in BOOLEAN
    BY <1>1, RecordFields
  <2> QED BY <1>4, <1>5, <2>1, LayerPositions DEF ReqRecord, Becomes
<1> QED BY <1>3, <1>6

LEMMA ReplyUpdate ==
    ASSUME req \in [Requests -> ReqRecord], NEW r \in Requests, NEW status,
           Reply(r, status)
    PROVE  \E p : /\ req' = [req EXCEPT ![r] = p]
                  /\ p = [kind |-> req[r].kind, at |-> req[r].at - 1, way |-> "up",
                          status |-> status, metered |-> req[r].metered]
<1>1. req' = [req EXCEPT ![r] = [req[r] EXCEPT !.at = req[r].at - 1, !.way = "up",
                                               !.status = status]]
  BY DEF Reply
<1>2. PICK p : p = [req[r] EXCEPT !.at = req[r].at - 1, !.way = "up",
                                  !.status = status]
  OBVIOUS
<1>3. p = [kind |-> req[r].kind, at |-> req[r].at - 1, way |-> "up",
           status |-> status, metered |-> req[r].metered]
  <2>1. req[r] \in ReqRecord
    OBVIOUS
  <2> QED BY <1>2, <2>1 DEF ReqRecord
<1>4. req' = [req EXCEPT ![r] = p]
  BY <1>1, <1>2
<1> QED BY <1>3, <1>4, Zenon

LEMMA Replied ==
    ASSUME TypeOK, NEW r \in Requests, req[r].at \in 1 .. 6,
           NEW status \in {200, 307, 401, 404}, Reply(r, status)
    PROVE  \E p : /\ req' = [req EXCEPT ![r] = p]
                  /\ Becomes(p, req[r], req[r].at - 1, "up", status, req[r].metered)
<1>1. req \in [Requests -> ReqRecord] /\ req[r] \in ReqRecord
  BY DEF TypeOK
<1>2. PICK p : req' = [req EXCEPT ![r] = p] /\
               p = [kind |-> req[r].kind, at |-> req[r].at - 1, way |-> "up",
                    status |-> status, metered |-> req[r].metered]
  BY <1>1, ReplyUpdate
<1>3. req' = [req EXCEPT ![r] = p]
  BY <1>2
<1>4. p = [kind |-> req[r].kind, at |-> req[r].at - 1, way |-> "up",
           status |-> status, metered |-> req[r].metered]
  BY <1>2
<1>5. req[r].at - 1 \in 0 .. 6
  OBVIOUS
<1>6. Becomes(p, req[r], req[r].at - 1, "up", status, req[r].metered)
  <2>1. /\ req[r].kind \in Kinds /\ req[r].way \in {"down", "up", "raised", "replied", "cancelled"}
        /\ req[r].status \in {0, 200, 307, 401, 404, 500}
        /\ req[r].metered \in BOOLEAN
    BY <1>1, RecordFields
  <2> QED BY <1>4, <1>5, <2>1, LayerPositions DEF ReqRecord, Becomes
<1> QED BY <1>3, <1>6, Zenon

\* A layer in front of the metrics layer, or behind it, awaits the next one.
LEMMA ForwardKeeps ==
    ASSUME IInv, NEW r \in Requests, Down(r), req[r].way = "down",
           req[r].at \in {1, 3, 5}, req[r].at = 3 => OpenIn(req[r].kind, seen[r]),
           cached' = cached \/ cached' = InForce,
           UNCHANGED <<store, gatewayFile, seen, logged, counted, span>>
    PROVE  IInv'
<1>1. /\ req[r] \in ReqRecord /\ (req[r].status # 0 <=> req[r].way \in {"up", "replied"})
      /\ Measured(req[r], seen[r], counted[r], span[r]) /\ Admitted(req[r], seen[r], logged[r])
  BY RequestFacts
<1>2. TypeOK
  BY DEF IInv
<1>3. PICK q \in ReqRecord :
        /\ req' = [req EXCEPT ![r] = q]
        /\ q.at = req[r].at + 1 /\ q.way = "down" /\ q.kind = req[r].kind
        /\ q.status = req[r].status /\ q.metered = req[r].metered
  BY <1>2, Moved DEF Becomes
<1>5. Measured(q, seen[r], counted[r], span[r])
  BY <1>1, <1>3 DEF Measured, Inside
<1>6. Admitted(q, seen[r], logged[r])
  BY <1>1, <1>3 DEF Admitted
<1> QED BY <1>1, <1>3, <1>5, <1>6, RequestMovesUnobserved

\* A layer, or the route, raises: it has not gone through the authentication
\* layer only if the settings or its own body are at fault.
LEMMA RaiseKeeps ==
    ASSUME IInv, NEW r \in Requests, Raise(r), req[r].way = "down", req[r].at \in 1 .. 6,
           \/ AtFault(req[r].kind, seen[r])
           \/ req[r].at = 6,
           cached' = cached \/ cached' = InForce,
           UNCHANGED <<store, gatewayFile, seen, logged, counted, span>>
    PROVE  IInv'
<1>1. /\ req[r] \in ReqRecord /\ (req[r].status # 0 <=> req[r].way \in {"up", "replied"})
      /\ Measured(req[r], seen[r], counted[r], span[r]) /\ Admitted(req[r], seen[r], logged[r])
  BY RequestFacts
<1>2. TypeOK
  BY DEF IInv
<1>3. PICK q \in ReqRecord :
        /\ req' = [req EXCEPT ![r] = q]
        /\ q.at = req[r].at - 1 /\ q.way = "raised" /\ q.kind = req[r].kind
        /\ q.status = req[r].status /\ q.metered = req[r].metered
  BY <1>2, Raised DEF Becomes
<1>5. Measured(q, seen[r], counted[r], span[r])
  BY <1>1, <1>3 DEF Measured, Inside, Accounted, Due
<1>6. Admitted(q, seen[r], logged[r])
  BY <1>1, <1>3 DEF Admitted
<1> QED BY <1>1, <1>3, <1>5, <1>6, RequestMovesUnobserved

\* A layer behind the metrics layer, or the route, answers.
LEMMA ReplyKeeps ==
    ASSUME IInv, NEW r \in Requests, NEW status \in {200, 307, 401, 404},
           Reply(r, status), req[r].way = "down", req[r].at \in {3, 5, 6},
           req[r].at = 3 => status = 401 /\ RefusedIn(req[r].kind, seen[r]),
           status = 401 => req[r].at = 3,
           cached' = cached \/ cached' = InForce,
           UNCHANGED <<store, gatewayFile, seen, logged, counted, span>>
    PROVE  IInv'
<1>1. /\ req[r] \in ReqRecord
      /\ Measured(req[r], seen[r], counted[r], span[r]) /\ Admitted(req[r], seen[r], logged[r])
  BY RequestFacts
<1>2. TypeOK
  BY DEF IInv
<1>3. PICK q \in ReqRecord :
        /\ req' = [req EXCEPT ![r] = q]
        /\ q.at = req[r].at - 1 /\ q.way = "up" /\ q.kind = req[r].kind
        /\ q.status = status /\ q.metered = req[r].metered
  BY <1>2, Replied DEF Becomes
<1>5. Measured(q, seen[r], counted[r], span[r])
  BY <1>1, <1>3 DEF Measured, Inside
<1>6. Admitted(q, seen[r], logged[r])
  BY <1>1, <1>3 DEF Admitted
<1>7. q.status # 0 <=> q.way \in {"up", "replied"}
  BY <1>3
<1> QED BY <1>3, <1>5, <1>6, <1>7, RequestMovesUnobserved

\* A reply or an exception passes a layer that does not look at it.
LEMMA PassKeeps ==
    ASSUME IInv, NEW r \in Requests, Up(r), req[r].way \in {"up", "raised"},
           req[r].at \in 1 .. 6, req[r].at # 2,
           UNCHANGED <<store, gatewayFile, cached, seen, counted, span>>,
           \/ UNCHANGED logged
           \/ req[r].at = 4 /\ req[r].way = "up" /\ logged' = [logged EXCEPT ![r] = 2]
              /\ OpenIn(req[r].kind, seen[r])
    PROVE  IInv'
<1>1. /\ req[r] \in ReqRecord /\ (req[r].status # 0 <=> req[r].way \in {"up", "replied"})
      /\ Measured(req[r], seen[r], counted[r], span[r]) /\ Admitted(req[r], seen[r], logged[r])
  BY RequestFacts
<1>2. TypeOK
  BY DEF IInv
<1>3. PICK q \in ReqRecord :
        /\ req' = [req EXCEPT ![r] = q]
        /\ q.at = req[r].at - 1 /\ q.way = req[r].way /\ q.kind = req[r].kind
        /\ q.status = req[r].status /\ q.metered = req[r].metered
  BY <1>2, MovedUp DEF Becomes
<1>4. /\ logged \in [Requests -> 0 .. 2] /\ counted \in [Requests -> Seq({200, 307, 401, 404, 500})]
      /\ span \in [Requests -> {"none", "open", "ended"}]
      /\ counted' = counted /\ span' = span
  BY <1>2 DEF TypeOK
<1>5. /\ logged' \in [Requests -> 0 .. 2]
      /\ \A s \in Requests : s # r => logged'[s] = logged[s]
      /\ logged'[r] = logged[r] \/ OpenIn(req[r].kind, seen[r])
  <2>1. CASE UNCHANGED logged
    BY <1>4, <2>1
  <2>2. CASE OpenIn(req[r].kind, seen[r]) /\ logged' = [logged EXCEPT ![r] = 2]
    BY <1>4, <2>2
  <2> QED BY <2>1, <2>2
<1>6. Measured(q, seen[r], counted[r], span[r])
  BY <1>1, <1>3 DEF Measured, Inside, Accounted, Due
<1>7. Admitted(q, seen[r], logged'[r])
  BY <1>1, <1>3, <1>5 DEF Admitted
<1>8. q.status # 0 <=> q.way \in {"up", "replied"}
  BY <1>1, <1>3
<1>9. /\ \A s \in Requests : s # r =>
           logged'[s] = logged[s] /\ counted'[s] = counted[s] /\ span'[s] = span[s]
      /\ counted' \in [Requests -> Seq({200, 307, 401, 404, 500})]
      /\ span' \in [Requests -> {"none", "open", "ended"}]
      /\ Measured(q, seen[r], counted'[r], span'[r])
      /\ UNCHANGED <<store, gatewayFile, seen>> /\ cached' = cached
  BY <1>4, <1>5, <1>6
<1>10. req' = [req EXCEPT ![r] = q] /\ logged' \in [Requests -> 0 .. 2]
  BY <1>3, <1>5
<1> QED BY <1>7, <1>8, <1>9, <1>10, RequestMoves

-----------------------------------------------------------------------------
(* Every step keeps the invariant.                                         *)

LEMMA DownKeeps ==
    ASSUME IInv, NEW r \in Requests,
           CachingPasses(r) \/ AuthForwards(r) \/ CorsForwards(r)
    PROVE  IInv'
<1>0. req[r].kind \in Kind
  BY RequestFacts, RecordFields, PipelineAssumption
<1>1. InForce \in seen[r]
  BY RequestFacts
<1>2. CASE CachingPasses(r)
  BY <1>2, AtLayerMeans, ForwardKeeps DEF CachingPasses, SettingsRead, observed
<1>3. CASE AuthForwards(r)
  <2>1. OpenIn(req[r].kind, seen[r])
    BY <1>0, <1>1, <1>3, AuthorisedMay DEF AuthForwards, OpenIn
  <2> QED BY <1>3, <2>1, AtLayerMeans, ForwardKeeps DEF AuthForwards, SettingsRead, observed
<1>4. CASE CorsForwards(r)
  BY <1>4, AtLayerMeans, ForwardKeeps DEF CorsForwards, settings, observed
<1> QED BY <1>2, <1>3, <1>4

\* Nothing is stored, so nothing is found.
LEMMA CachingLooksUpKeeps ==
    ASSUME IInv, NEW r \in Requests, CachingLooksUp(r) PROVE IInv'
<1>1. /\ Found(store, req[r].kind.path, 0) = {}
      /\ AfterGet(store, req[r].kind.path, 0) = store
  BY DEF IInv, Found, AfterGet
<1>2. Down(r) /\ store' = store
  BY <1>1 DEF CachingLooksUp
<1> QED BY <1>2, AtLayerMeans, ForwardKeeps DEF CachingLooksUp, SettingsRead, observed

LEMMA RaisesKeep ==
    ASSUME IInv, NEW r \in Requests,
           CachingRaises(r) \/ SettingsUnreadable(r) \/ RouteRaises(r)
    PROVE  IInv'
<1>1. InForce \in seen[r]
  BY RequestFacts
<1>2. CASE CachingRaises(r)
  <2>1. AtFault(req[r].kind, seen[r])
    BY <1>2 DEF CachingRaises, Lookup, AtFault
  <2> QED BY <1>2, <2>1, AtLayerMeans, RaiseKeeps DEF CachingRaises, SettingsRead, observed
<1>3. CASE SettingsUnreadable(r)
  <2>1. AtFault(req[r].kind, seen[r])
    BY <1>1, <1>3 DEF SettingsUnreadable, AtFault
  <2>2. req[r].way = "down" /\ req[r].at \in 1 .. 6
    BY <1>3, AtLayerMeans DEF SettingsUnreadable
  <2> QED BY <1>3, <2>1, <2>2, RaiseKeeps DEF SettingsUnreadable, settings, observed
<1>4. CASE RouteRaises(r)
  BY <1>4, LayerPositions, RaiseKeeps DEF RouteRaises, settings, observed
<1> QED BY <1>2, <1>3, <1>4

LEMMA RepliesKeep ==
    ASSUME IInv, NEW r \in Requests,
           \/ AuthRefuses(r) \/ CorsAnswers(r) \/ MetricsServed(r)
           \/ \E status \in {200, 307, 404} : RouteReplies(r, status)
    PROVE  IInv'
<1>0. req[r].kind \in Kind
  BY RequestFacts, RecordFields, PipelineAssumption
<1>1. InForce \in seen[r]
  BY RequestFacts
<1>2. CASE AuthRefuses(r)
  <2>1. RefusedIn(req[r].kind, seen[r])
    BY <1>0, <1>1, <1>2, AuthorisedMay DEF AuthRefuses, RefusedIn
  <2>2. /\ Reply(r, 401) /\ req[r].at = 3 /\ req[r].way = "down" /\ cached' = InForce
        /\ UNCHANGED <<store, gatewayFile, seen, logged, counted, span>>
    BY <1>2, AtLayerMeans DEF AuthRefuses, SettingsRead, observed
  <2> QED BY <2>1, <2>2, ReplyKeeps
<1>3. CASE CorsAnswers(r)
  <2>1. /\ Reply(r, 200) /\ req[r].at = 5 /\ req[r].way = "down" /\ cached' = cached
        /\ UNCHANGED <<store, gatewayFile, seen, logged, counted, span>>
    BY <1>3, AtLayerMeans DEF CorsAnswers, settings, observed
  <2> QED BY <2>1, ReplyKeeps
<1>4. CASE MetricsServed(r)
  <2>1. PICK status \in {200, 307, 404} :
          /\ Reply(r, status) /\ req[r].at = 6 /\ req[r].way = "down" /\ cached' = InForce
          /\ UNCHANGED <<store, gatewayFile, seen, logged, counted, span>>
    BY <1>4, LayerPositions DEF MetricsServed, SettingsRead, observed
  <2> QED BY <2>1, ReplyKeeps
<1>5. ASSUME NEW status \in {200, 307, 404}, RouteReplies(r, status) PROVE IInv'
  <2>1. /\ Reply(r, status) /\ req[r].at = 6 /\ req[r].way = "down" /\ cached' = cached
        /\ UNCHANGED <<store, gatewayFile, seen, logged, counted, span>>
    BY <1>5, LayerPositions DEF RouteReplies, settings, observed
  <2> QED BY <2>1, ReplyKeeps
<1> QED BY <1>2, <1>3, <1>4, <1>5

LEMMA PassesKeep ==
    ASSUME IInv, NEW r \in Requests, PassesUp(r) \/ RaisePasses(r) \/ LoggingReturns(r)
    PROVE  IInv'
<1>1. req[r].at \in 0 .. 6 /\ Admitted(req[r], seen[r], logged[r])
  BY RequestFacts, RecordFields
<1>2. CASE PassesUp(r)
  <2>1. /\ Up(r) /\ req[r].way = "up" /\ req[r].at \in 1 .. 6 /\ req[r].at # 2
        /\ UNCHANGED <<store, gatewayFile, cached, seen, counted, span, logged>>
    BY <1>2, AtLayerMeans DEF PassesUp, settings, observed
  <2> QED BY <2>1, PassKeeps
<1>3. CASE RaisePasses(r)
  <2>1. /\ Up(r) /\ req[r].way = "raised" /\ req[r].at \in 1 .. 6 /\ req[r].at # 2
        /\ UNCHANGED <<store, gatewayFile, cached, seen, counted, span, logged>>
    BY <1>1, <1>3, AtLayerMeans DEF RaisePasses, settings, observed
  <2> QED BY <2>1, PassKeeps
<1>4. CASE LoggingReturns(r)
  <2>1. /\ Up(r) /\ req[r].way = "up" /\ req[r].at = 4 /\ logged' = [logged EXCEPT ![r] = 2]
        /\ UNCHANGED <<store, gatewayFile, cached, seen, counted, span>>
    BY <1>4, AtLayerMeans DEF LoggingReturns, settings
  <2>2. OpenIn(req[r].kind, seen[r])
    BY <1>1, <2>1 DEF Admitted
  <2>3. req[r].at \in 1 .. 6 /\ req[r].at # 2
    BY <2>1
  <2> QED BY <2>1, <2>2, <2>3, PassKeeps
<1> QED BY <1>2, <1>3, <1>4

LEMMA MetricsStartsKeeps ==
    ASSUME IInv, NEW r \in Requests, MetricsStarts(r) PROVE IInv'
<1>1. /\ req[r] \in ReqRecord /\ (req[r].status # 0 <=> req[r].way \in {"up", "replied"})
      /\ InForce \in seen[r]
      /\ Measured(req[r], seen[r], counted[r], span[r]) /\ Admitted(req[r], seen[r], logged[r])
  BY RequestFacts
<1>2. TypeOK
  BY DEF IInv
<1>3. PICK c \in InForce :
        /\ req' = [req EXCEPT ![r].at = @ + 1, ![r].metered = c.metrics]
        /\ span' = [span EXCEPT ![r] = IF c.metrics THEN "open" ELSE @]
  BY DEF MetricsStarts
<1>4. c.metrics \in BOOLEAN
  <2>1. c \in GatewayFiles
    BY <1>2 DEF TypeOK, InForce, Value, Parsed
  <2> QED BY <2>1, PipelineAssumption DEF GatewayConfig
<1>5. PICK q : q = [req[r] EXCEPT !.at = @ + 1, !.metered = c.metrics]
  OBVIOUS
<1>6. req' = [req EXCEPT ![r] = q]
  <2>1. req \in [Requests -> ReqRecord]
    BY <1>2 DEF TypeOK
  <2> QED BY <1>3, <1>5, <2>1
<1>7. req[r].at = 2 /\ req[r].way = "down"
  BY AtLayerMeans DEF MetricsStarts
<1>8. q = [kind |-> req[r].kind, at |-> 3, way |-> "down", status |-> req[r].status,
           metered |-> c.metrics]
  <2>1. q = [kind |-> req[r].kind, at |-> req[r].at + 1, way |-> req[r].way,
             status |-> req[r].status, metered |-> c.metrics]
    <3>1. req[r] \in ReqRecord
      BY <1>1
    <3> QED BY <1>5, <3>1 DEF ReqRecord
  <2>2. req[r].at + 1 = 3
    BY <1>7
  <2> QED BY <1>7, <2>1, <2>2
<1>9. q \in ReqRecord
  <2>1. /\ req[r].kind \in Kinds /\ req[r].status \in {0, 200, 307, 401, 404, 500}
    BY <1>1, RecordFields
  <2> QED BY <1>4, <1>8, <2>1, LayerPositions DEF ReqRecord
<1>10. Measured(q, seen[r], counted[r], span'[r])
  <2>1. counted[r] = << >> /\ span[r] = "none"
    BY <1>1, <1>7 DEF Measured
  <2>2. span'[r] = IF c.metrics THEN "open" ELSE "none"
    BY <1>2, <1>3, <2>1 DEF TypeOK
  <2>3. ~ c.metrics => MetricsOff(seen[r])
    BY <1>1, <1>3 DEF MetricsOff
  <2> QED BY <1>4, <1>8, <2>1, <2>2, <2>3 DEF Measured, Inside
<1>11. Admitted(q, seen[r], logged[r])
  BY <1>1, <1>7, <1>8 DEF Admitted
<1>12. /\ span' \in [Requests -> {"none", "open", "ended"}]
       /\ logged' \in [Requests -> 0 .. 2]
       /\ counted' \in [Requests -> Seq({200, 307, 401, 404, 500})]
       /\ \A s \in Requests : s # r =>
             logged'[s] = logged[s] /\ counted'[s] = counted[s] /\ span'[s] = span[s]
       /\ logged' = logged /\ counted' = counted
       /\ UNCHANGED <<store, gatewayFile, seen>> /\ cached' = InForce
  BY <1>2, <1>3, <1>4 DEF MetricsStarts, SettingsRead, TypeOK
<1>13. q.status # 0 <=> q.way \in {"up", "replied"}
  BY <1>1, <1>7, <1>8
<1>14. Measured(q, seen[r], counted'[r], span'[r]) /\ Admitted(q, seen[r], logged'[r])
  BY <1>10, <1>11, <1>12
<1> QED BY <1>6, <1>9, <1>12, <1>13, <1>14, RequestMoves

\* The metrics layer counts the reply or the exception that comes up to it, if
\* it has found metrics enabled on the way down.
LEMMA CountingKeeps ==
    ASSUME IInv, NEW r \in Requests, Up(r), req[r].at = 2, req[r].way \in {"up", "raised"},
           Counts(r, Due(req[r])),
           UNCHANGED <<store, gatewayFile, cached, seen, logged>>
    PROVE  IInv'
<1>1. /\ req[r] \in ReqRecord /\ (req[r].status # 0 <=> req[r].way \in {"up", "replied"})
      /\ Measured(req[r], seen[r], counted[r], span[r]) /\ Admitted(req[r], seen[r], logged[r])
  BY RequestFacts
<1>2. TypeOK
  BY DEF IInv
<1>3. PICK q \in ReqRecord :
        /\ req' = [req EXCEPT ![r] = q]
        /\ q.at = 1 /\ q.way = req[r].way /\ q.kind = req[r].kind
        /\ q.status = req[r].status /\ q.metered = req[r].metered
  BY <1>2, MovedUp DEF Becomes
<1>4. Due(q) = Due(req[r]) /\ Due(req[r]) \in {200, 307, 401, 404, 500}
  <2>1. req[r].status \in {0, 200, 307, 401, 404, 500}
    BY <1>1, RecordFields
  <2> QED BY <1>1, <1>3, <2>1 DEF Due
<1>5. counted[r] = << >> /\ (req[r].metered => span[r] = "open")
      /\ (~ req[r].metered => span[r] = "none" /\ MetricsOff(seen[r]))
  BY <1>1 DEF Measured, Inside
<1>6. /\ logged \in [Requests -> 0 .. 2] /\ counted \in [Requests -> Seq({200, 307, 401, 404, 500})]
      /\ span \in [Requests -> {"none", "open", "ended"}]
  BY <1>2 DEF TypeOK
<1>7. /\ counted' \in [Requests -> Seq({200, 307, 401, 404, 500})]
      /\ span' \in [Requests -> {"none", "open", "ended"}]
      /\ \A s \in Requests : s # r => counted'[s] = counted[s] /\ span'[s] = span[s]
      /\ span'[r] # "open" /\ Accounted(q, seen[r], counted'[r])
  <2>1. CASE req[r].metered
    <3>1. Append(counted[r], Due(req[r])) = <<Due(q)>>
      BY <1>4, <1>5
    <3>2. /\ counted' = [counted EXCEPT ![r] = <<Due(q)>>]
          /\ span' = [span EXCEPT ![r] = "ended"]
      BY <2>1, <3>1 DEF Counts
    <3>3. <<Due(q)>> \in Seq({200, 307, 401, 404, 500})
      BY <1>4
    <3> QED BY <1>6, <3>2, <3>3 DEF Accounted
  <2>2. CASE ~ req[r].metered
    BY <1>5, <1>6, <2>2 DEF Counts, Accounted
  <2> QED BY <2>1, <2>2
<1>8. Measured(q, seen[r], counted'[r], span'[r])
  BY <1>3, <1>7 DEF Measured, Inside
<1>9. Admitted(q, seen[r], logged[r])
  BY <1>1, <1>3 DEF Admitted
<1>10. q.status # 0 <=> q.way \in {"up", "replied"}
  BY <1>1, <1>3
<1>11. /\ logged' \in [Requests -> 0 .. 2] /\ logged' = logged
       /\ UNCHANGED <<store, gatewayFile, seen>> /\ cached' = cached
  BY <1>6
<1>12. Admitted(q, seen[r], logged'[r])
  BY <1>9, <1>11
<1>13. \A s \in Requests : s # r =>
          logged'[s] = logged[s] /\ counted'[s] = counted[s] /\ span'[s] = span[s]
  BY <1>7, <1>11
<1>14. req' = [req EXCEPT ![r] = q]
  BY <1>3
<1> QED BY <1>7, <1>8, <1>10, <1>11, <1>12, <1>13, <1>14, RequestMoves

LEMMA MetricsKeeps ==
    ASSUME IInv, NEW r \in Requests, MetricsReturns(r) \/ MetricsSeesRaise(r) PROVE IInv'
<1>1. CASE MetricsReturns(r)
  <2>1. /\ Up(r) /\ req[r].at = 2 /\ req[r].way = "up" /\ Counts(r, Due(req[r]))
        /\ UNCHANGED <<store, gatewayFile, cached, seen, logged>>
    BY <1>1, AtLayerMeans DEF MetricsReturns, Due, settings
  <2> QED BY <2>1, CountingKeeps
<1>2. CASE MetricsSeesRaise(r)
  <2>1. /\ Up(r) /\ req[r].at = 2 /\ req[r].way = "raised" /\ Counts(r, Due(req[r]))
        /\ UNCHANGED <<store, gatewayFile, cached, seen, logged>>
    BY <1>2, AtLayerMeans DEF MetricsSeesRaise, Due, settings
  <2> QED BY <2>1, CountingKeeps
<1> QED BY <1>1, <1>2

LEMMA LoggingStartsKeeps ==
    ASSUME IInv, NEW r \in Requests, LoggingStarts(r) PROVE IInv'
<1>1. /\ req[r] \in ReqRecord /\ (req[r].status # 0 <=> req[r].way \in {"up", "replied"})
      /\ Measured(req[r], seen[r], counted[r], span[r]) /\ Admitted(req[r], seen[r], logged[r])
  BY RequestFacts
<1>2. TypeOK
  BY DEF IInv
<1>3. /\ Down(r) /\ req[r].at = 4 /\ req[r].way = "down" /\ logged' = [logged EXCEPT ![r] = 1]
      /\ UNCHANGED <<store, gatewayFile, cached, seen, counted, span>>
  BY AtLayerMeans DEF LoggingStarts, settings
<1>4. PICK q \in ReqRecord :
        /\ req' = [req EXCEPT ![r] = q]
        /\ q.at = 5 /\ q.way = "down" /\ q.kind = req[r].kind
        /\ q.status = req[r].status /\ q.metered = req[r].metered
  BY <1>2, <1>3, Moved DEF Becomes
<1>5. /\ logged' \in [Requests -> 0 .. 2] /\ logged'[r] = 1
      /\ counted' \in [Requests -> Seq({200, 307, 401, 404, 500})] /\ counted' = counted
      /\ span' \in [Requests -> {"none", "open", "ended"}] /\ span' = span
      /\ \A s \in Requests : s # r =>
            logged'[s] = logged[s] /\ counted'[s] = counted[s] /\ span'[s] = span[s]
      /\ UNCHANGED <<store, gatewayFile, seen>> /\ cached' = cached
  BY <1>2, <1>3 DEF TypeOK
<1>6. Measured(q, seen[r], counted[r], span[r])
  BY <1>1, <1>3, <1>4 DEF Measured, Inside
<1>7. Admitted(q, seen[r], logged'[r])
  BY <1>1, <1>3, <1>4, <1>5 DEF Admitted
<1>8. q.status # 0 <=> q.way \in {"up", "replied"}
  BY <1>1, <1>3, <1>4
<1>9. Measured(q, seen[r], counted'[r], span'[r])
  BY <1>5, <1>6
<1>10. req' = [req EXCEPT ![r] = q]
  BY <1>4
<1> QED BY <1>5, <1>7, <1>8, <1>9, <1>10, RequestMoves

LEMMA ErrorUpdate ==
    ASSUME req \in [Requests -> ReqRecord], NEW r \in Requests, ErrorHandled(r)
    PROVE  \E q : /\ req' = [req EXCEPT ![r] = q]
                  /\ q = [kind |-> req[r].kind, at |-> 0, way |-> "replied", status |-> 500,
                          metered |-> req[r].metered]
<1>1. PICK status : status = 500
  OBVIOUS
<1>2. req' = [req EXCEPT ![r].way = "replied", ![r].status = status]
  <2>1. req' = [req EXCEPT ![r].way = "replied", ![r].status = 500]
    BY Zenon DEF ErrorHandled
  <2> QED BY <1>1, <2>1, Zenon
<1>3. req' = [req EXCEPT ![r] = [req[r] EXCEPT !.way = "replied", !.status = status]]
  BY <1>2
<1>4. PICK q : q = [req[r] EXCEPT !.way = "replied", !.status = status]
  OBVIOUS
<1>5. q = [kind |-> req[r].kind, at |-> req[r].at, way |-> "replied",
           status |-> status, metered |-> req[r].metered]
  <2>1. req[r] \in ReqRecord
    OBVIOUS
  <2> QED BY <1>4, <2>1 DEF ReqRecord
<1>6. req' = [req EXCEPT ![r] = q]
  BY <1>3, <1>4
<1>7. q = [kind |-> req[r].kind, at |-> 0, way |-> "replied", status |-> 500,
           metered |-> req[r].metered]
  <2>1. req[r].at = 0
    BY DEF ErrorHandled
  <2> QED BY <1>1, <1>5, <2>1, Zenon
<1> QED BY <1>6, <1>7, Zenon

LEMMA SentUpdate ==
    ASSUME req \in [Requests -> ReqRecord], NEW r \in Requests, ErrorHandled(r) \/ ReplySent(r)
    PROVE  \E q : /\ req' = [req EXCEPT ![r] = q]
                  /\ q = [kind |-> req[r].kind, at |-> 0, way |-> "replied",
                          status |-> Due(req[r]),
                          metered |-> req[r].metered]
<1>1. CASE ErrorHandled(r)
  <2>1. Due(req[r]) = 500
    BY <1>1 DEF ErrorHandled, Due
  <2> QED BY <1>1, <2>1, ErrorUpdate
<1>2. CASE ReplySent(r)
  <2>1. PICK q : q = [req[r] EXCEPT !.way = "replied"]
    OBVIOUS
  <2>2. req' = [req EXCEPT ![r] = q]
    BY <1>2, <2>1 DEF ReplySent
  <2>3. Due(req[r]) = req[r].status /\ req[r].at = 0 /\ req[r] \in ReqRecord
    BY <1>2 DEF ReplySent, Due
  <2>4. q = [kind |-> req[r].kind, at |-> req[r].at, way |-> "replied",
             status |-> req[r].status, metered |-> req[r].metered]
    BY <2>1, <2>3 DEF ReqRecord
  <2>5. q = [kind |-> req[r].kind, at |-> 0, way |-> "replied", status |-> Due(req[r]),
             metered |-> req[r].metered]
    BY <2>3, <2>4
  <2> QED BY <2>2, <2>5, Zenon
<1> QED BY <1>1, <1>2

\* Starlette's error handler answers an exception, or sends the reply.
LEMMA SentKeeps ==
    ASSUME IInv, NEW r \in Requests, ErrorHandled(r) \/ ReplySent(r) PROVE IInv'
<1>1. /\ req[r] \in ReqRecord /\ (req[r].status # 0 <=> req[r].way \in {"up", "replied"})
      /\ Measured(req[r], seen[r], counted[r], span[r]) /\ Admitted(req[r], seen[r], logged[r])
  BY RequestFacts
<1>2. req \in [Requests -> ReqRecord]
  BY DEF IInv, TypeOK
<1>3. /\ req[r].kind \in Kinds /\ req[r].status \in {0, 200, 307, 401, 404, 500}
      /\ req[r].metered \in BOOLEAN
  BY <1>1, RecordFields
<1>4. /\ req[r].at = 0 /\ req[r].way \in {"up", "raised"} /\ cached' = cached
      /\ UNCHANGED <<store, gatewayFile, seen, logged, counted, span>>
  BY DEF ErrorHandled, ReplySent, settings, observed
<1>5. PICK q : /\ req' = [req EXCEPT ![r] = q]
               /\ q = [kind |-> req[r].kind, at |-> 0, way |-> "replied", status |-> Due(req[r]),
                       metered |-> req[r].metered]
  BY <1>1, <1>2, SentUpdate
<1>6. Due(req[r]) \in {200, 307, 401, 404, 500} /\ Due(q) = Due(req[r])
  BY <1>1, <1>3, <1>4, <1>5 DEF Due
<1>7. q \in ReqRecord /\ (q.status # 0 <=> q.way \in {"up", "replied"})
  BY <1>1, <1>3, <1>5, <1>6, LayerPositions DEF ReqRecord
<1>8. Measured(q, seen[r], counted[r], span[r])
  <2>1. span[r] # "open" /\ Accounted(req[r], seen[r], counted[r])
    BY <1>1, <1>4 DEF Measured, Inside
  <2>2. Accounted(q, seen[r], counted[r])
    BY <1>5, <1>6, <2>1 DEF Accounted
  <2> QED BY <1>5, <2>1, <2>2 DEF Measured, Inside
<1>9. Admitted(q, seen[r], logged[r])
  <2>1. /\ logged[r] > 0 => OpenIn(req[r].kind, seen[r])
        /\ req[r].status \in {200, 307, 404} => OpenIn(req[r].kind, seen[r])
        /\ req[r].status = 401 => RefusedIn(req[r].kind, seen[r])
        /\ req[r].way = "up" => req[r].status # 500
        /\ req[r].way = "raised" => OpenIn(req[r].kind, seen[r]) \/ AtFault(req[r].kind, seen[r])
    BY <1>1 DEF Admitted
  <2> QED BY <1>4, <1>5, <2>1 DEF Admitted, Due
<1> QED BY <1>4, <1>5, <1>7, <1>8, <1>9, RequestMovesUnobserved

LEMMA CancelledKeeps ==
    ASSUME IInv, NEW r \in Requests, Cancelled(r) PROVE IInv'
<1>1. /\ req[r] \in ReqRecord /\ (req[r].status # 0 <=> req[r].way \in {"up", "replied"})
      /\ Admitted(req[r], seen[r], logged[r])
  BY RequestFacts
<1>2. TypeOK /\ req \in [Requests -> ReqRecord]
  BY DEF IInv, TypeOK
<1>3. /\ req[r].kind \in Kinds /\ req[r].at \in 0 .. 6
      /\ req[r].status \in {0, 200, 307, 401, 404, 500}
      /\ req[r].metered \in BOOLEAN
  BY <1>1, RecordFields
<1>4. PICK q : q = [req[r] EXCEPT !.way = "cancelled"]
  OBVIOUS
<1>5. req' = [req EXCEPT ![r] = q]
  BY <1>2, <1>4 DEF Cancelled
<1>6. q = [kind |-> req[r].kind, at |-> req[r].at, way |-> "cancelled",
           status |-> req[r].status, metered |-> req[r].metered]
  <2>1. req[r] \in ReqRecord
    BY <1>1
  <2> QED BY <1>4, <2>1 DEF ReqRecord
<1>7. /\ span' \in [Requests -> {"none", "open", "ended"}] /\ span'[r] # "open"
      /\ logged' \in [Requests -> 0 .. 2] /\ logged' = logged
      /\ counted' \in [Requests -> Seq({200, 307, 401, 404, 500})]
      /\ \A s \in Requests : s # r =>
            logged'[s] = logged[s] /\ counted'[s] = counted[s] /\ span'[s] = span[s]
      /\ UNCHANGED <<store, gatewayFile, seen>> /\ cached' = cached
  BY <1>2 DEF Cancelled, settings, TypeOK
<1>8. req[r].way = "down" /\ req[r].status = 0
  BY <1>1 DEF Cancelled
<1>9. q \in ReqRecord /\ (q.status # 0 <=> q.way \in {"up", "replied"})
  BY <1>1, <1>3, <1>6, <1>8, LayerPositions DEF ReqRecord
<1>10. Measured(q, seen[r], counted'[r], span'[r])
  BY <1>6, <1>7 DEF Measured, Inside
<1>11. Admitted(q, seen[r], logged'[r])
  BY <1>1, <1>6, <1>7, <1>8 DEF Admitted
<1> QED BY <1>5, <1>7, <1>9, <1>10, <1>11, RequestMoves

-----------------------------------------------------------------------------
(* The settings change under way.                                          *)

\* What a request has seen of the settings it never unsees.
LEMMA SeenGrows ==
    ASSUME NEW S, NEW T, S \subseteq T, NEW q, NEW n, NEW o, NEW l
    PROVE  /\ Measured(q, S, n, o) => Measured(q, T, n, o)
           /\ Admitted(q, S, l) => Admitted(q, T, l)
<1>1. /\ MetricsOff(S) => MetricsOff(T)
      /\ OpenIn(q.kind, S) => OpenIn(q.kind, T)
      /\ RefusedIn(q.kind, S) => RefusedIn(q.kind, T)
      /\ AtFault(q.kind, S) => AtFault(q.kind, T)
  BY DEF MetricsOff, OpenIn, RefusedIn, AtFault
<1>2. Accounted(q, S, n) => Accounted(q, T, n)
  BY <1>1 DEF Accounted
<1> QED BY <1>1, <1>2 DEF Measured, Admitted

\* A request that is still to arrive depends on nothing it has seen.
LEMMA UnarrivedDependsOnNothing ==
    ASSUME NEW S, NEW T, NEW q, NEW n, NEW o, NEW l,
           q.at = 1, q.way = "down", q.status = 0
    PROVE  /\ Measured(q, S, n, o) => Measured(q, T, n, o)
           /\ Admitted(q, S, l) => Admitted(q, T, l)
BY DEF Measured, Inside, Admitted

LEMMA InForceType ==
    ASSUME NEW g \in GatewayFiles, NEW c,
           c \in {{}} \union {{f} : f \in {h \in GatewayFiles : Valid(h)}}
    PROVE  Value(c, g) \in {{}} \union {{f} : f \in GatewayFiles}
<1>1. CASE c # {}
  BY <1>1 DEF Value
<1>2. CASE c = {}
  BY <1>2 DEF Value, Parsed
<1> QED BY <1>1, <1>2

LEMMA NotingKeeps ==
    ASSUME IInv, Notes, UNCHANGED <<req, store, observed>>, gatewayFile' \in GatewayFiles,
           cached' \in {{}} \union {{f} : f \in {g \in GatewayFiles : Valid(g)}}
    PROVE  IInv'
<1>1. InForce' \in {{}} \union {{f} : f \in GatewayFiles}
  BY InForceType DEF InForce
<1>2. TypeOK'
  <2>1. ASSUME NEW r \in Requests PROVE seen'[r] \subseteq {{}} \union {{f} : f \in GatewayFiles}
    <3>1. seen[r] \subseteq {{}} \union {{f} : f \in GatewayFiles}
      BY DEF IInv, TypeOK
    <3>2. seen'[r] \subseteq seen[r] \union {InForce'}
      BY DEF Notes
    <3> QED BY <1>1, <3>1, <3>2
  <2> QED BY <2>1 DEF IInv, TypeOK, observed
<1>3. ASSUME NEW r \in Requests PROVE RequestInv(r)'
  <2>1. /\ req'[r] = req[r] /\ logged'[r] = logged[r] /\ counted'[r] = counted[r]
        /\ span'[r] = span[r]
    BY DEF observed
  <2>2. /\ (req[r].status # 0 <=> req[r].way \in {"up", "replied"})
        /\ Measured(req[r], seen[r], counted[r], span[r]) /\ Admitted(req[r], seen[r], logged[r])
    BY RequestFacts
  <2>3. CASE Arrived(r)
    <3>1. seen'[r] = seen[r] \union {InForce'}
      BY <2>3 DEF Notes
    <3>2. seen[r] \subseteq seen'[r] /\ InForce' \in seen'[r]
      BY <3>1
    <3> QED BY <2>1, <2>2, <3>2, SeenGrows DEF RequestInv
  <2>4. CASE ~ Arrived(r)
    <3>1. seen'[r] = {InForce'}
      BY <2>4 DEF Notes
    <3>2. req[r].at = 1 /\ req[r].way = "down" /\ req[r].status = 0
      BY <2>2, <2>4 DEF Arrived
    <3> QED BY <2>1, <2>2, <3>1, <3>2, UnarrivedDependsOnNothing DEF RequestInv
  <2> QED BY <2>3, <2>4
<1> QED BY <1>2, <1>3 DEF IInv, observed

LEMMA SettingsKeep ==
    ASSUME IInv, FileEdited \/ SettingsReloaded PROVE IInv'
<1>1. TypeOK
  BY DEF IInv
<1>2. CASE FileEdited
  BY <1>1, <1>2, NotingKeeps DEF FileEdited, TypeOK
<1>3. CASE SettingsReloaded
  <2>1. cached' \in {{}} \union {{f} : f \in {g \in GatewayFiles : Valid(g)}}
    BY <1>1, <1>3 DEF SettingsReloaded, Parsed, TypeOK
  <2>2. gatewayFile' \in GatewayFiles
    BY <1>1, <1>3 DEF SettingsReloaded, TypeOK
  <2> QED BY <1>3, <2>1, <2>2, NotingKeeps DEF SettingsReloaded
<1> QED BY <1>2, <1>3

-----------------------------------------------------------------------------
(* The theorems.                                                           *)

LEMMA Initially == Init => IInv
<1> SUFFICES ASSUME Init PROVE IInv
  OBVIOUS
<1>1. InForce = cached /\ cached \in {{f} : f \in {g \in GatewayFiles : Valid(g)}}
  BY DEF Init, InForce, Value
<1>2. ASSUME NEW r \in Requests
      PROVE  \E k \in Kinds : req[r] = Arriving(k)
  BY DEF Init
<1>3. ASSUME NEW k \in Kinds
      PROVE  Arriving(k) \in ReqRecord /\ Arriving(k).status = 0 /\ Arriving(k).way = "down"
             /\ Arriving(k).at = 1 /\ ~ Arriving(k).metered
  BY LayerPositions DEF Arriving, ReqRecord
<1>4. TypeOK
  <2>1. req \in [Requests -> ReqRecord]
    BY <1>2, <1>3 DEF Init
  <2>2. \A r \in Requests : req[r].status # 0 <=> req[r].way \in {"up", "replied"}
    BY <1>2, <1>3
  <2>3. \A r \in Requests : seen[r] = {InForce}
    BY DEF Init
  <2>4. << >> \in Seq({200, 307, 401, 404, 500}) /\ DOMAIN store = {}
    BY DEF Init, EmptyStore
  <2> QED BY <1>1, <2>1, <2>2, <2>3, <2>4 DEF Init, TypeOK
<1>5. ASSUME NEW r \in Requests PROVE RequestInv(r)
  <2>1. /\ logged[r] = 0 /\ counted[r] = << >> /\ span[r] = "none" /\ InForce \in seen[r]
    BY DEF Init
  <2>2. req[r].at = 1 /\ req[r].way = "down" /\ req[r].status = 0
        /\ ~ req[r].metered
    BY <1>2, <1>3
  <2> QED BY <2>1, <2>2 DEF RequestInv, Measured, Inside, Admitted
<1> QED BY <1>4, <1>5 DEF IInv, Init, EmptyStore

LEMMA StepKeeps == IInv /\ [Next]_vars => IInv'
<1> SUFFICES ASSUME IInv, [Next]_vars PROVE IInv'
  OBVIOUS
<1>1. CASE UNCHANGED vars
  <2>1. UNCHANGED <<req, store, gatewayFile, cached, seen, logged, counted, span>>
    BY <1>1 DEF vars, settings, observed
  <2> QED BY <2>1 DEF IInv, TypeOK, RequestInv, InForce
<1>2. CASE FileEdited \/ SettingsReloaded
  BY <1>2, SettingsKeep
<1>3. ASSUME NEW r \in Requests, CachingPasses(r) \/ AuthForwards(r) \/ CorsForwards(r)
      PROVE  IInv'
  BY <1>3, DownKeeps
<1>4. ASSUME NEW r \in Requests, CachingLooksUp(r) PROVE IInv'
  BY <1>4, CachingLooksUpKeeps
<1>5. ASSUME NEW r \in Requests, CachingRaises(r) \/ SettingsUnreadable(r) \/ RouteRaises(r)
      PROVE  IInv'
  BY <1>5, RaisesKeep
<1>6. ASSUME NEW r \in Requests, MetricsStarts(r) PROVE IInv'
  BY <1>6, MetricsStartsKeeps
<1>7. ASSUME NEW r \in Requests,
             \/ AuthRefuses(r) \/ CorsAnswers(r) \/ MetricsServed(r)
             \/ \E status \in {200, 307, 404} : RouteReplies(r, status)
      PROVE  IInv'
  BY <1>7, RepliesKeep
<1>8. ASSUME NEW r \in Requests, LoggingStarts(r) PROVE IInv'
  BY <1>8, LoggingStartsKeeps
<1>9. ASSUME NEW r \in Requests, PassesUp(r) \/ RaisePasses(r) \/ LoggingReturns(r) PROVE IInv'
  BY <1>9, PassesKeep
<1>10. ASSUME NEW r \in Requests, MetricsReturns(r) \/ MetricsSeesRaise(r) PROVE IInv'
  BY <1>10, MetricsKeeps
<1>11. ASSUME NEW r \in Requests, ErrorHandled(r) \/ ReplySent(r) PROVE IInv'
  BY <1>11, SentKeeps
<1>12. ASSUME NEW r \in Requests, Cancelled(r) PROVE IInv'
  BY <1>12, CancelledKeeps
<1> QED
  BY <1>1, <1>2, <1>3, <1>4, <1>5, <1>6, <1>7, <1>8, <1>9, <1>10, <1>11, <1>12 DEF Next

\* The inductive invariant holds of every behaviour of the middleware stack,
\* however many requests are in it and whatever becomes of the settings.
THEOREM InvariantHolds == Spec => []IInv
BY Initially, StepKeeps, PTL DEF Spec

\* The stack's state has its types; a request has a status exactly while a
\* reply to it is on its way or sent.
THEOREM TypeCorrect == Spec => []TypeOK
<1>1. IInv => TypeOK
  BY DEF IInv
<1> QED BY <1>1, InvariantHolds, PTL

\* Every answer is counted once, with the status the client gets, but for those
\* that the metrics layer never saw or was told not to count.
THEOREM AnswersCounted == Spec => []CountedAsAnswered
<1>1. IInv => CountedAsAnswered
  <2> SUFFICES ASSUME IInv, NEW r \in Requests, req[r].way = "replied"
      PROVE  \/ counted[r] = <<req[r].status>>
             \/ /\ counted[r] = << >>
                /\ \/ \E f \in seen[r] : \E c \in f : ~ c.metrics
                   \/ req[r].status = 500 /\ (req[r].kind.lookup = "raises" \/ Unreadable(r))
    BY DEF CountedAsAnswered
  <2>1. Accounted(req[r], seen[r], counted[r])
    BY RequestFacts DEF Measured, Inside
  <2> QED BY <2>1 DEF Accounted, Due, MetricsOff, AtFault, Unreadable
<1> QED BY <1>1, InvariantHolds, PTL

\* No span is left open by a request that is answered, fails or is cancelled.
THEOREM NoSpanLeftOpen == Spec => []SpansEnded
<1>1. IInv => SpansEnded
  BY RequestFacts DEF SpansEnded, Over, Measured, Inside
<1> QED BY <1>1, InvariantHolds, PTL

\* The authentication layer lets through whom the settings of the request's own
\* time let through, and answers 401 to nobody else.
THEOREM NobodyElseRouted == Spec => []OnlyAuthorisedRouted
<1>1. IInv => OnlyAuthorisedRouted
  <2> SUFFICES ASSUME IInv, NEW r \in Requests
      PROVE  /\ req[r].at = Route \/ logged[r] > 0 \/ req[r].status \in {200, 307, 404}
                  => OpenIn(req[r].kind, seen[r])
             /\ ~ OpenIn(req[r].kind, seen[r]) /\ req[r].way = "replied" =>
                  \/ req[r].status = 401
                  \/ req[r].status = 500 /\ (req[r].kind.lookup = "raises" \/ Unreadable(r))
             /\ req[r].status = 401 => \E f \in seen[r] : \E c \in f : Refuses(req[r].kind, c)
    BY DEF OnlyAuthorisedRouted, OpenIn
  <2>1. Admitted(req[r], seen[r], logged[r])
    BY RequestFacts
  <2>2. /\ req[r].way \in {"down", "up", "raised", "replied", "cancelled"}
        /\ req[r].status \in {0, 200, 307, 401, 404, 500} /\ req[r].at \in 0 .. 6
        /\ req[r].status # 0 <=> req[r].way \in {"up", "replied"}
    BY RequestFacts, RecordFields
  <2>3. req[r].at = Route => OpenIn(req[r].kind, seen[r])
    BY <2>1, <2>2, LayerPositions DEF Admitted
  <2>4. logged[r] > 0 \/ req[r].status \in {200, 307, 404} => OpenIn(req[r].kind, seen[r])
    BY <2>1 DEF Admitted
  <2>5. ~ OpenIn(req[r].kind, seen[r]) /\ req[r].way = "replied" =>
          \/ req[r].status = 401
          \/ req[r].status = 500 /\ (req[r].kind.lookup = "raises" \/ Unreadable(r))
    BY <2>1, <2>2 DEF Admitted, AtFault, Unreadable
  <2>6. req[r].status = 401 => \E f \in seen[r] : \E c \in f : Refuses(req[r].kind, c)
    BY <2>1 DEF Admitted, RefusedIn
  <2> QED BY <2>3, <2>4, <2>5, <2>6
<1> QED BY <1>1, InvariantHolds, PTL

=============================================================================
