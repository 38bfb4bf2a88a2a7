--------------------------- MODULE ResourcesProofs ---------------------------
(***************************************************************************)
(* What the agent is told about the host was so during its call, for any   *)
(* set of routes the daemon lacks and any number of changes.  An answer    *)
(* once given is compared with what its setting has been since the call    *)
(* began, which only grows until the next call.                            *)
(***************************************************************************)
EXTENDS Resources, TLAPS

Answers == [ok : BOOLEAN, status : {0, 200, 403}, value : BOOLEAN]

\* Every read that says how a setting stands, and the setting.
Truth(r, s) == answer[r].ok => answer[r].value \in held[s]

AnswersTrue ==
    /\ Truth("flags", "catalog") /\ Truth("egress", "loopback")
    /\ Truth("policy", "signing") /\ Truth("system", "registry")
    /\ answer["catalog"].ok => TRUE \in held["catalog"]
    /\ answer["catalog"].status = 403 => FALSE \in held["catalog"]
    /\ answer["catalog"].ok => answer["catalog"].status # 403

\* What was asked has been answered, failed, or is still awaited.
AllAccounted ==
    call \in {"list", "capabilities", "host_status"} =>
        \A r \in ReadsOf(call) : r \in pending \/ r \in failed \/ answer[r].ok

ResourceInv ==
    /\ TypeOK
    /\ \A s \in Settings : setting[s] \in held[s]
    /\ \A r \in Routes : ~answer[r].ok => ~answer[r].value
    /\ AnswersTrue
    /\ AllAccounted

LEMMA InitResources == Init => ResourceInv
<1> SUFFICES ASSUME Init  PROVE ResourceInv
  OBVIOUS
<1>1. /\ \A q \in Routes : answer[q] = Failed /\ answer[q].ok = FALSE
                           /\ answer[q].value = FALSE /\ answer[q].status # 403
      /\ answer \in [Routes -> Answers]
  BY DEF Init, Failed, Answers
<1>2. /\ held \in [Settings -> SUBSET BOOLEAN]
      /\ \A s \in Settings : setting[s] \in held[s]
  BY DEF Init
<1>3. TypeOK
  BY <1>1, <1>2, MissingAssumption, ChangesAssumption DEF Init, TypeOK, Answers, NoReply
<1>4. /\ ~answer["flags"].ok /\ ~answer["egress"].ok /\ ~answer["policy"].ok
      /\ ~answer["system"].ok /\ ~answer["catalog"].ok /\ answer["catalog"].status # 403
  BY <1>1 DEF Routes
<1>5. AnswersTrue
  BY <1>4 DEF AnswersTrue, Truth
<1>6. AllAccounted
  BY DEF Init, AllAccounted
<1> QED  BY <1>1, <1>2, <1>3, <1>5, <1>6 DEF ResourceInv

\* The answer of a route is typed, and true now.
Answered(r, a) ==
    /\ a \in Answers
    /\ ~a.ok => ~a.value
    /\ a.ok => a.status # 403
    /\ r # "catalog" => a.ok
    /\ r = "flags"  => a.value = setting["catalog"]
    /\ r = "egress" => a.value = setting["loopback"]
    /\ r = "policy" => a.value = setting["signing"]
    /\ r = "system" => a.value = setting["registry"]
    /\ r = "catalog" /\ a.ok => setting["catalog"] = TRUE
    /\ r = "catalog" /\ a.status = 403 => setting["catalog"] = FALSE

\* What the daemon says is so.
LEMMA SaysTruly ==
    ASSUME TypeOK, NEW r \in Routes, NEW a \in Says(r)
    PROVE  Answered(r, a)
<1>1. /\ setting["catalog"] \in BOOLEAN /\ setting["loopback"] \in BOOLEAN
      /\ setting["signing"] \in BOOLEAN /\ setting["registry"] \in BOOLEAN
  BY DEF TypeOK, Settings
<1>2. \A v \in BOOLEAN : a = Ok(v) => a \in Answers /\ a.ok = TRUE /\ a.value = v /\ a.status # 403
  BY DEF Ok, Answers
<1>3. a = Forbidden =>
        a \in Answers /\ a.ok = FALSE /\ a.value = FALSE /\ a.status = 403
  BY DEF Forbidden, Answers
<1>4. CASE r = "catalog"
  <2>1. CASE setting["catalog"] = TRUE
    <3>1. a = Ok(TRUE)
      BY <1>4, <2>1 DEF Says
    <3> QED  BY <1>2, <1>4, <2>1, <3>1 DEF Answered
  <2>2. CASE setting["catalog"] = FALSE
    <3>1. a = Forbidden
      BY <1>4, <2>2 DEF Says
    <3> QED  BY <1>3, <1>4, <2>2, <3>1 DEF Answered
  <2> QED  BY <1>1, <2>1, <2>2
<1>5. CASE r = "flags"
  <2>1. a = Ok(setting["catalog"])
    BY <1>5 DEF Says
  <2> QED  BY <1>1, <1>2, <1>5, <2>1 DEF Answered
<1>6. CASE r = "egress"
  <2>1. a = Ok(setting["loopback"])
    BY <1>6 DEF Says
  <2> QED  BY <1>1, <1>2, <1>6, <2>1 DEF Answered
<1>7. CASE r = "policy"
  <2>1. a = Ok(setting["signing"])
    BY <1>7 DEF Says
  <2> QED  BY <1>1, <1>2, <1>7, <2>1 DEF Answered
<1>8. CASE r = "system"
  <2>1. a = Ok(setting["registry"])
    BY <1>8 DEF Says
  <2> QED  BY <1>1, <1>2, <1>8, <2>1 DEF Answered
<1>9. CASE r \in {"host", "nats"}
  <2>1. a = Ok(TRUE)
    BY <1>9 DEF Says
  <2> QED  BY <1>2, <1>9, <2>1 DEF Answered
<1> QED  BY <1>4, <1>5, <1>6, <1>7, <1>8, <1>9 DEF Routes

\* What a setting has been since the call began only grows, and answers stay.
LEMMA StaysTrue ==
    ASSUME AnswersTrue, answer' = answer, \A q \in Settings : held[q] \subseteq held'[q]
    PROVE  AnswersTrue'
<1>1. /\ held["catalog"] \subseteq held'["catalog"] /\ held["loopback"] \subseteq held'["loopback"]
      /\ held["signing"] \subseteq held'["signing"] /\ held["registry"] \subseteq held'["registry"]
  BY DEF Settings
<1>2. Truth("flags", "catalog")' /\ Truth("egress", "loopback")'
  BY <1>1 DEF AnswersTrue, Truth
<1>3. Truth("policy", "signing")' /\ Truth("system", "registry")'
  BY <1>1 DEF AnswersTrue, Truth
<1>4. answer'["catalog"].ok => TRUE \in held'["catalog"]
  BY <1>1 DEF AnswersTrue
<1>5. answer'["catalog"].status = 403 => FALSE \in held'["catalog"]
  BY <1>1 DEF AnswersTrue
<1>6. answer'["catalog"].ok => answer'["catalog"].status # 403
  BY DEF AnswersTrue
<1> QED  BY <1>2, <1>3, <1>4, <1>5, <1>6 DEF AnswersTrue

LEMMA StepFlip ==
    ASSUME ResourceInv, NEW s \in Settings, Flip(s)
    PROVE  ResourceInv'
<1>0. /\ setting \in [Settings -> BOOLEAN] /\ held \in [Settings -> SUBSET BOOLEAN]
      /\ setting' = [setting EXCEPT ![s] = ~setting[s]]
      /\ held' = [held EXCEPT ![s] = held[s] \cup {~setting[s]}]
      /\ (~setting[s]) \in BOOLEAN
  BY DEF ResourceInv, TypeOK, Flip
<1>1. /\ setting' \in [Settings -> BOOLEAN] /\ held' \in [Settings -> SUBSET BOOLEAN]
      /\ changes' \in 0..MaxChanges
  <2>1. setting' \in [Settings -> BOOLEAN]
    BY <1>0
  <2>2. held' \in [Settings -> SUBSET BOOLEAN]
    BY <1>0
  <2>3. changes' \in 0..MaxChanges
    BY ChangesAssumption DEF ResourceInv, TypeOK, Flip
  <2> QED  BY <2>1, <2>2, <2>3
<1>2. TypeOK'
  BY <1>1 DEF ResourceInv, TypeOK, Flip
<1>3. \A q \in Settings : held[q] \subseteq held'[q] /\ setting'[q] \in held'[q]
  BY <1>0 DEF ResourceInv
<1>4. AnswersTrue'
  BY <1>3, StaysTrue DEF ResourceInv, Flip
<1>5. AllAccounted'
  BY DEF ResourceInv, AllAccounted, Flip
<1> QED  BY <1>2, <1>3, <1>4, <1>5 DEF ResourceInv, Flip

LEMMA StepAnswer ==
    ASSUME ResourceInv, NEW r \in Routes, DaemonAnswers(r)
    PROVE  ResourceInv'
<1>1. CASE r \in Missing /\ failed' = failed \cup {r} /\ UNCHANGED answer
  <2>1. TypeOK'
    BY <1>1 DEF ResourceInv, TypeOK, DaemonAnswers
  <2>2. AllAccounted'
    BY <1>1 DEF ResourceInv, AllAccounted, DaemonAnswers
  <2>3. AnswersTrue'
    BY <1>1, StaysTrue DEF ResourceInv, DaemonAnswers
  <2>4. /\ \A s \in Settings : setting'[s] \in held'[s]
        /\ \A q \in Routes : ~answer'[q].ok => ~answer'[q].value
    BY <1>1 DEF ResourceInv, DaemonAnswers
  <2> QED  BY <2>1, <2>2, <2>3, <2>4 DEF ResourceInv
<1>2. ASSUME NEW a \in Says(r), answer' = [answer EXCEPT ![r] = a], UNCHANGED failed
      PROVE  ResourceInv'
  <2>t. TypeOK /\ a \in Says(r)  BY <1>2 DEF ResourceInv
  <2>1. Answered(r, a)
    BY <2>t, SaysTruly
  <2>2. /\ answer'[r] = a /\ \A q \in Routes \ {r} : answer'[q] = answer[q]
        /\ answer' \in [Routes -> Answers]
    BY <1>2, <2>1 DEF ResourceInv, TypeOK, Answers, Answered
  <2>3. TypeOK'
    BY <1>2, <2>2 DEF ResourceInv, TypeOK, DaemonAnswers, Answers
  <2>4. held' = held /\ setting' = setting /\ call' = call /\ pending' = pending \ {r}
    BY DEF DaemonAnswers
  <2>5. /\ setting["catalog"] \in held["catalog"] /\ setting["loopback"] \in held["loopback"]
        /\ setting["signing"] \in held["signing"] /\ setting["registry"] \in held["registry"]
    BY DEF ResourceInv, Settings
  <2>6. Truth("flags", "catalog")'
    BY <2>1, <2>2, <2>4, <2>5 DEF ResourceInv, AnswersTrue, Truth, Routes, Answered
  <2>7. Truth("egress", "loopback")'
    BY <2>1, <2>2, <2>4, <2>5 DEF ResourceInv, AnswersTrue, Truth, Routes, Answered
  <2>8. Truth("policy", "signing")'
    BY <2>1, <2>2, <2>4, <2>5 DEF ResourceInv, AnswersTrue, Truth, Routes, Answered
  <2>9. Truth("system", "registry")'
    BY <2>1, <2>2, <2>4, <2>5 DEF ResourceInv, AnswersTrue, Truth, Routes, Answered
  <2>10. /\ answer'["catalog"].ok => TRUE \in held'["catalog"]
         /\ answer'["catalog"].status = 403 => FALSE \in held'["catalog"]
         /\ answer'["catalog"].ok => answer'["catalog"].status # 403
    <3>1. CASE r = "catalog"
      BY <2>1, <2>2, <2>4, <2>5, <3>1 DEF Answered
    <3>2. CASE r # "catalog"
      <4>1. answer'["catalog"] = answer["catalog"]
        BY <2>2, <3>2 DEF Routes
      <4> QED  BY <2>4, <4>1 DEF ResourceInv, AnswersTrue
    <3> QED  BY <3>1, <3>2
  <2>11. AllAccounted'
    <3> SUFFICES ASSUME call \in {"list", "capabilities", "host_status"}, NEW q \in ReadsOf(call)
                 PROVE  q \in pending' \/ q \in failed' \/ answer'[q].ok
      BY <2>4 DEF AllAccounted
    <3>1. q \in Routes /\ q # "catalog"
      BY DEF ReadsOf, Routes
    <3>2. CASE q = r
      BY <2>1, <2>2, <3>1, <3>2 DEF Answered
    <3>3. CASE q # r
      <4>1. q \in pending \/ q \in failed \/ answer[q].ok
        BY DEF ResourceInv, AllAccounted
      <4> QED  BY <1>2, <2>2, <2>4, <3>1, <3>3, <4>1
    <3> QED  BY <3>2, <3>3
  <2>12. \A q \in Routes : ~answer'[q].ok => ~answer'[q].value
    BY <2>1, <2>2 DEF ResourceInv, Answered
  <2> QED
    BY <2>3, <2>4, <2>6, <2>7, <2>8, <2>9, <2>10, <2>11, <2>12 DEF ResourceInv, AnswersTrue
<1> QED  BY <1>1, <1>2 DEF DaemonAnswers

LEMMA StepAsk ==
    ASSUME ResourceInv, NEW c \in {"list", "catalog", "capabilities", "host_status"}, Ask(c)
    PROVE  ResourceInv'
<1>1. ReadsOf(c) \subseteq Routes
  BY DEF ReadsOf, Routes
<1>2. TypeOK'
  BY <1>1, MissingAssumption DEF ResourceInv, TypeOK, Ask, Failed, NoReply
<1>3. AllAccounted'
  BY DEF AllAccounted, Ask
<1>4. /\ \A s \in Settings : setting'[s] \in held'[s]
      /\ \A q \in Routes : answer'[q] = Failed
  BY DEF Ask
<1>5. AnswersTrue' /\ \A q \in Routes : ~answer'[q].ok => ~answer'[q].value
  <2>1. \A q \in Routes : answer'[q].ok = FALSE /\ answer'[q].value = FALSE /\ answer'[q].status # 403
    BY <1>4 DEF Failed
  <2>2. /\ ~answer'["flags"].ok /\ ~answer'["egress"].ok /\ ~answer'["policy"].ok
        /\ ~answer'["system"].ok /\ ~answer'["catalog"].ok /\ answer'["catalog"].status # 403
    BY <2>1 DEF Routes
  <2>3. AnswersTrue'
    BY <2>2 DEF AnswersTrue, Truth
  <2> QED  BY <2>1, <2>3
<1> QED  BY <1>2, <1>3, <1>4, <1>5 DEF ResourceInv

\* A reply changes nothing but itself.
LEMMA StepReply ==
    ASSUME ResourceInv, NEW k, NEW o, NEW l \in BOOLEAN, NEW g \in BOOLEAN, Reply(k, o, l, g),
           k \in {"ok", "flag_off", "internal_error", "error"},
           o \subseteq Static \cup Sections \cup {"catalog", "ingress", "localRegistry"}
    PROVE  ResourceInv'
<1>1. TypeOK'
  BY DEF ResourceInv, TypeOK, Reply
<1>2. AnswersTrue'
  BY StaysTrue DEF ResourceInv, Reply
<1>3. AllAccounted'
  BY DEF AllAccounted, Reply
<1>4. /\ \A s \in Settings : setting'[s] \in held'[s]
      /\ \A q \in Routes : ~answer'[q].ok => ~answer'[q].value
  BY DEF ResourceInv, Reply
<1> QED  BY <1>1, <1>2, <1>3, <1>4 DEF ResourceInv

LEMMA StepResources == ResourceInv /\ [Next]_vars => ResourceInv'
<1> SUFFICES ASSUME ResourceInv, [Next]_vars  PROVE ResourceInv'
  OBVIOUS
<1>0. /\ answer["policy"].value \in BOOLEAN
      /\ LoopbackEnabled \in BOOLEAN
  BY DEF ResourceInv, TypeOK, Routes, LoopbackEnabled
<1>1. CASE \E s \in Settings : Flip(s)
  BY <1>1, StepFlip
<1>2. CASE \E r \in Routes : DaemonAnswers(r)
  BY <1>2, StepAnswer
<1>3. CASE \E c \in {"list", "catalog", "capabilities", "host_status"} : Ask(c)
  BY <1>3, StepAsk
<1>4. CASE ListResources
  BY <1>4, StepReply DEF ListResources
<1>5. CASE ReadCatalog
  BY <1>5, StepReply DEF ReadCatalog
<1>6. CASE ReadCapabilities
  <2>1. CapabilitySections \subseteq Sections
    BY DEF CapabilitySections, Sections
  <2>2. CASE answer["host"].ok
    BY <1>0, <1>6, <2>1, <2>2, StepReply DEF ReadCapabilities
  <2>3. CASE ~answer["host"].ok
    BY <1>6, <2>3, StepReply DEF ReadCapabilities
  <2> QED  BY <2>2, <2>3
<1>7. CASE HostStatus
  <2>1. AugmentHost \subseteq Static \cup Sections \cup {"catalog", "ingress", "localRegistry"}
    BY DEF AugmentHost, Static
  <2>2. CASE answer["host"].ok
    BY <1>7, <2>1, <2>2, StepReply DEF HostStatus
  <2>3. CASE ~answer["host"].ok
    BY <1>7, <2>3, StepReply DEF HostStatus
  <2> QED  BY <2>2, <2>3
<1>8. CASE UNCHANGED vars
  <2>1. TypeOK'
    BY <1>8 DEF vars, ResourceInv, TypeOK
  <2>2. AnswersTrue'
    BY <1>8, StaysTrue DEF vars, ResourceInv
  <2>3. AllAccounted'
    BY <1>8 DEF vars, ResourceInv, AllAccounted
  <2>4. /\ \A s \in Settings : setting'[s] \in held'[s]
        /\ \A q \in Routes : ~answer'[q].ok => ~answer'[q].value
    BY <1>8 DEF vars, ResourceInv
  <2> QED  BY <2>1, <2>2, <2>3, <2>4 DEF ResourceInv
<1> QED  BY <1>1, <1>2, <1>3, <1>4, <1>5, <1>6, <1>7, <1>8 DEF Next

LEMMA Resourceful == Spec => []ResourceInv
BY InitResources, StepResources, PTL DEF Spec

-----------------------------------------------------------------------------
\* For any routes the daemon lacks and any number of changes, every value is of its type.
THEOREM ResourcesTypeCorrect == Spec => []TypeOK
<1>1. ResourceInv => TypeOK
  BY DEF ResourceInv
<1> QED  BY <1>1, Resourceful, PTL

\* A call ends in one of the four handlers.
LEMMA EndsInReply ==
    ASSUME Next, call # "none", call' = "none"
    PROVE  ListResources \/ ReadCatalog \/ ReadCapabilities \/ HostStatus
BY DEF Next, Flip, DaemonAnswers, Ask

\* A read that has returned and did not fail says how its setting stood in the call.
LEMMA ReadsAreTrue ==
    ASSUME ResourceInv, pending = {}
    PROVE  /\ call = "list" /\ "flags" \notin failed => answer["flags"].value \in held["catalog"]
           /\ call = "capabilities" /\ "egress" \notin failed =>
                  answer["egress"].ok /\ answer["egress"].value \in held["loopback"]
           /\ call = "capabilities" /\ "policy" \notin failed =>
                  answer["policy"].value \in held["signing"]
           /\ call = "host_status" /\ "system" \notin failed =>
                  answer["system"].ok /\ answer["system"].value \in held["registry"]
<1>1. \A r \in {"flags", "egress", "policy", "system"} :
          call \in {"list", "capabilities", "host_status"} /\ r \in ReadsOf(call) /\ r \notin failed
              => answer[r].ok
  BY DEF ResourceInv, AllAccounted
<1>2. /\ call = "list" => "flags" \in ReadsOf(call)
      /\ call = "capabilities" => {"egress", "policy"} \subseteq ReadsOf(call)
      /\ call = "host_status" => "system" \in ReadsOf(call)
  BY DEF ReadsOf
<1>3. /\ answer["flags"].ok => answer["flags"].value \in held["catalog"]
      /\ answer["egress"].ok => answer["egress"].value \in held["loopback"]
      /\ answer["policy"].ok => answer["policy"].value \in held["signing"]
      /\ answer["system"].ok => answer["system"].value \in held["registry"]
  BY DEF ResourceInv, AnswersTrue, Truth
<1> QED  BY <1>1, <1>2, <1>3

\* What the agent is told was so at some moment of its call, whatever failed and whoever
\* changed the host meanwhile; what it is told is not so, where the read of it did not fail.
THEOREM TellsTruly == Spec => ToldTruly
<1>1. ResourceInv /\ [Next]_vars => [call # "none" /\ call' = "none" => Affirmed /\ Denied]_vars
  <2> SUFFICES ASSUME ResourceInv, Next, call # "none", call' = "none"
               PROVE  Affirmed /\ Denied
    OBVIOUS
  <2>0. /\ answer \in [Routes -> Answers] /\ AnswersTrue
        /\ \A r \in Routes : ~answer[r].ok => ~answer[r].value
    BY DEF ResourceInv, TypeOK, Answers
  <2>1. CASE ListResources
    <3>1. call = "list" /\ pending = {}  BY <2>1 DEF ListResources
    <3>2. /\ FlagEnabled => TRUE \in held["catalog"]
          /\ ~FlagEnabled /\ "flags" \notin failed => FALSE \in held["catalog"]
      <4>1. answer["flags"].value \in BOOLEAN  BY <2>0 DEF Routes, Answers
      <4>2. answer["flags"].ok => answer["flags"].value \in held["catalog"]
        BY <2>0 DEF AnswersTrue, Truth
      <4>3. "flags" \notin failed => answer["flags"].ok
        BY <3>1 DEF ResourceInv, AllAccounted, ReadsOf
      <4> QED  BY <4>1, <4>2, <4>3 DEF FlagEnabled
    <3>3. reply'.kind = "ok" /\ reply'.loopback = FALSE /\ reply'.signing = FALSE
      BY <2>1 DEF ListResources, Reply
    <3>4. reply'.offers = Static \cup (IF FlagEnabled THEN {"catalog"} ELSE {})
      BY <2>1 DEF ListResources, Reply
    <3>5. /\ "catalog" \in reply'.offers <=> FlagEnabled
          /\ "localRegistry" \notin reply'.offers
      BY <3>4 DEF Static
    <3> QED  BY <3>1, <3>2, <3>3, <3>5 DEF Affirmed, Denied
  <2>2. CASE ReadCatalog
    <3>0. call = "catalog"  BY <2>2 DEF ReadCatalog
    <3>1. /\ answer["catalog"].ok => TRUE \in held["catalog"] /\ answer["catalog"].status # 403
          /\ answer["catalog"].status = 403 => FALSE \in held["catalog"]
      BY <2>0 DEF AnswersTrue
    <3>2. CASE answer["catalog"].ok
      <4>1. reply' = [kind |-> "ok", offers |-> {"catalog"}, loopback |-> FALSE, signing |-> FALSE]
        BY <2>2, <3>1, <3>2 DEF ReadCatalog, Reply
      <4>2. /\ reply'.kind = "ok" /\ reply'.offers = {"catalog"}
            /\ reply'.loopback = FALSE /\ reply'.signing = FALSE
        BY <4>1
      <4> QED  BY <3>0, <3>1, <3>2, <4>2 DEF Affirmed, Denied
    <3>3. CASE ~answer["catalog"].ok /\ answer["catalog"].status = 403
      <4>1. reply' = [kind |-> "flag_off", offers |-> {}, loopback |-> FALSE, signing |-> FALSE]
        BY <2>2, <3>3 DEF ReadCatalog, Reply
      <4>2. /\ reply'.kind = "flag_off" /\ reply'.offers = {}
            /\ reply'.loopback = FALSE /\ reply'.signing = FALSE
        BY <4>1
      <4> QED  BY <3>0, <3>1, <3>3, <4>2 DEF Affirmed, Denied
    <3>4. CASE ~answer["catalog"].ok /\ answer["catalog"].status # 403
      <4>1. reply' = [kind |-> "internal_error", offers |-> {}, loopback |-> FALSE, signing |-> FALSE]
        BY <2>2, <3>4 DEF ReadCatalog, Reply
      <4>2. /\ reply'.kind = "internal_error" /\ reply'.offers = {}
            /\ reply'.loopback = FALSE /\ reply'.signing = FALSE
        BY <4>1
      <4> QED  BY <3>0, <4>2 DEF Affirmed, Denied
    <3> QED  BY <3>2, <3>3, <3>4
  <2>3. CASE ReadCapabilities
    <3>0. call = "capabilities" /\ pending = {}  BY <2>3 DEF ReadCapabilities, Joined
    <3>1. "catalog" \notin CapabilitySections /\ "localRegistry" \notin CapabilitySections
      BY DEF CapabilitySections
    <3>2. LoopbackEnabled => TRUE \in held["loopback"]
      BY <2>0 DEF LoopbackEnabled, AnswersTrue, Truth, Routes, Answers
    <3>3. answer["policy"].value => TRUE \in held["signing"]
      BY <2>0 DEF AnswersTrue, Truth, Routes, Answers
    <3>6. /\ ~LoopbackEnabled /\ "egress" \notin failed => FALSE \in held["loopback"]
          /\ ~answer["policy"].value /\ "policy" \notin failed => FALSE \in held["signing"]
      <4>1. answer["egress"].value \in BOOLEAN /\ answer["policy"].value \in BOOLEAN
        BY <2>0 DEF Routes, Answers
      <4> QED  BY <3>0, <4>1, ReadsAreTrue DEF LoopbackEnabled
    <3>4. CASE answer["host"].ok
      <4>1. reply' = [kind |-> "ok", offers |-> CapabilitySections, loopback |-> LoopbackEnabled, signing |-> answer["policy"].value]
        BY <2>3, <3>4 DEF ReadCapabilities, Reply
      <4>2. /\ reply'.kind = "ok" /\ reply'.offers = CapabilitySections
            /\ reply'.loopback = LoopbackEnabled /\ reply'.signing = answer["policy"].value
        BY <4>1
      <4> QED  BY <3>0, <3>1, <3>2, <3>3, <3>6, <4>2 DEF Affirmed, Denied
    <3>5. CASE ~answer["host"].ok
      <4>1. reply' = [kind |-> "internal_error", offers |-> {}, loopback |-> FALSE, signing |-> FALSE]
        BY <2>3, <3>5 DEF ReadCapabilities, Reply
      <4>2. /\ reply'.kind = "internal_error" /\ reply'.offers = {}
            /\ reply'.loopback = FALSE /\ reply'.signing = FALSE
        BY <4>1
      <4> QED  BY <3>0, <4>2 DEF Affirmed, Denied
    <3> QED  BY <3>4, <3>5
  <2>4. CASE HostStatus
    <3>0. call = "host_status" /\ pending = {}  BY <2>4 DEF HostStatus
    <3>1. "catalog" \notin AugmentHost
      BY DEF AugmentHost
    <3>2. "localRegistry" \in AugmentHost => TRUE \in held["registry"]
      BY <2>0 DEF AugmentHost, LocalRegistry, AnswersTrue, Truth, Routes, Answers
    <3>5. "localRegistry" \notin AugmentHost /\ "system" \notin failed => FALSE \in held["registry"]
      <4>1. answer["system"].value \in BOOLEAN  BY <2>0 DEF Routes, Answers
      <4> QED  BY <3>0, <4>1, ReadsAreTrue DEF AugmentHost, LocalRegistry
    <3>3. CASE answer["host"].ok
      <4>1. reply' = [kind |-> "ok", offers |-> AugmentHost, loopback |-> FALSE, signing |-> FALSE]
        BY <2>4, <3>3 DEF HostStatus, Reply
      <4>2. /\ reply'.kind = "ok" /\ reply'.offers = AugmentHost
            /\ reply'.loopback = FALSE /\ reply'.signing = FALSE
        BY <4>1
      <4> QED  BY <3>0, <3>1, <3>2, <3>5, <4>2 DEF Affirmed, Denied
    <3>4. CASE ~answer["host"].ok
      <4>1. reply' = [kind |-> "error", offers |-> {}, loopback |-> FALSE, signing |-> FALSE]
        BY <2>4, <3>4 DEF HostStatus, Reply
      <4>2. /\ reply'.kind = "error" /\ reply'.offers = {}
            /\ reply'.loopback = FALSE /\ reply'.signing = FALSE
        BY <4>1
      <4> QED  BY <3>0, <4>2 DEF Affirmed, Denied
    <3> QED  BY <3>3, <3>4
  <2> QED  BY <2>1, <2>2, <2>3, <2>4, EndsInReply
<1> QED  BY <1>1, Resourceful, PTL DEF Spec, ToldTruly

\* The picture of the host has a gap only where a read of the call failed.
THEOREM PictureIsComplete == Spec => PictureComplete
<1> DEFINE Complete ==
      /\ call = "capabilities" =>
             /\ reply'.kind = "ok" /\ reply'.offers = Sections
             /\ reply'.loopback \in held["loopback"]
             /\ reply'.signing \in held["signing"]
      /\ call = "host_status" =>
             /\ reply'.kind = "ok"
             /\ "localRegistry" \in reply'.offers \/ FALSE \in held["registry"]
<1>1. ResourceInv /\ [Next]_vars => [call' = "none" /\ failed = {} => Complete]_vars
  <2> SUFFICES ASSUME ResourceInv, Next, call' = "none", failed = {},
                      call \in {"capabilities", "host_status"}
               PROVE  Complete
    OBVIOUS
  <2>0. /\ answer \in [Routes -> Answers] /\ AnswersTrue
        /\ \A r \in ReadsOf(call) : r \in pending \/ answer[r].ok
    BY DEF ResourceInv, TypeOK, Answers, AllAccounted
  <2>1. ReadCapabilities \/ HostStatus
    BY EndsInReply DEF ListResources, ReadCatalog
  <2>2. CASE ReadCapabilities
    <3>1. call = "capabilities" /\ pending = {}
      BY <2>2 DEF ReadCapabilities, Joined
    <3>2. /\ answer["host"].ok /\ answer["policy"].ok
          /\ answer["egress"].ok /\ answer["nats"].ok
      BY <2>0, <3>1 DEF ReadsOf
    <3>3. CapabilitySections = Sections
      BY <3>2 DEF CapabilitySections, Sections
    <3>4. reply' = [kind |-> "ok", offers |-> CapabilitySections,
                    loopback |-> LoopbackEnabled, signing |-> answer["policy"].value]
      BY <2>2, <3>2 DEF ReadCapabilities, Reply
    <3>5. answer["policy"].value \in held["signing"]
      BY <2>0, <3>2 DEF AnswersTrue, Truth
    <3>6. LoopbackEnabled \in held["loopback"]
      <4>1. answer["egress"].value \in BOOLEAN /\ answer["egress"].value \in held["loopback"]
        BY <2>0, <3>2 DEF AnswersTrue, Truth, Routes, Answers
      <4>2. LoopbackEnabled = answer["egress"].value
        BY <3>2, <4>1 DEF LoopbackEnabled
      <4> QED  BY <4>1, <4>2
    <3> QED  BY <3>1, <3>3, <3>4, <3>5, <3>6
  <2>3. CASE HostStatus
    <3>1. call = "host_status" /\ pending = {}
      BY <2>3 DEF HostStatus
    <3>2. answer["host"].ok /\ answer["system"].ok
      BY <2>0, <3>1 DEF ReadsOf
    <3>3. reply' = [kind |-> "ok", offers |-> AugmentHost, loopback |-> FALSE, signing |-> FALSE]
      BY <2>3, <3>2 DEF HostStatus, Reply
    <3>4. CASE answer["system"].value = TRUE
      <4>1. "localRegistry" \in AugmentHost
        BY <3>2, <3>4 DEF AugmentHost, LocalRegistry
      <4> QED  BY <3>1, <3>3, <4>1
    <3>5. CASE answer["system"].value = FALSE
      <4>1. FALSE \in held["registry"]
        BY <2>0, <3>2, <3>5 DEF AnswersTrue, Truth
      <4> QED  BY <3>1, <3>3, <4>1
    <3>6. answer["system"].value \in BOOLEAN
      BY <2>0 DEF Routes, Answers
    <3> QED  BY <3>4, <3>5, <3>6
  <2> QED  BY <2>1, <2>2, <2>3
<1>2. [][call' = "none" /\ failed = {} => Complete]_vars => PictureComplete
  BY PTL DEF PictureComplete
<1> QED  BY <1>1, <1>2, Resourceful, PTL DEF Spec
=============================================================================
