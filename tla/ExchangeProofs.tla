--------------------------- MODULE ExchangeProofs ---------------------------
(***************************************************************************)
(* Proofs about the exchanges of a connection, for all streams, rules and  *)
(* answers: what is forwarded and answered is what the rules that were     *)
(* selected mean together, a connection is aborted by what they mean or by *)
(* a body they look into and that breaks off, and for no other reason,     *)
(* and no message goes out with the Content-Length of another body.        *)
(***************************************************************************)
EXTENDS RuleProofs, HttpConnectionProofs

----------------------------------------------------------------------------
(* The configuration and the rules that are selected.                      *)

\* The conversion of a rule's actions keeps to their types.
LEMMA ConvertedActions ==
  ASSUME NEW raw \in RawActionsType
  PROVE  ConvertActions(raw) \in ActionsType
<1>1. /\ raw.abort \in Option(BOOLEAN) /\ raw.replace \in Option(ReplaceType)
      /\ raw.patch \in Option(PatchType(Seq(HeaderNames \X Values)))
  BY DEF RawActionsType
<1>2. UnwrapOr(raw.abort, FALSE) \in BOOLEAN
  BY <1>1, UnwrapType
<1>3. ASSUME NEW list \in Seq(HeaderNames \X Values) PROVE TryFromVec(list) \in HeadersType
  <2>1. \A n \in HeaderNames : LastOnly(ValuesOf(list, n)) \in Seq(Values)
    BY ValuesOfType, LastOnlyType
  <2> QED
    BY <2>1 DEF TryFromVec, HeadersType
<1>4. ASSUME NEW p \in PatchType(Seq(HeaderNames \X Values))
      PROVE  ConvertPatch(p) \in PatchType(HeadersType)
  <2>1. /\ p.body \in Option([Keys -> Values \cup {Absent, Null}])
        /\ p.headers \in Option(Seq(HeaderNames \X Values))
        /\ p.queries \in Option(Seq(QueryNames \X Values))
    BY DEF PatchType
  <2>2. {TryFromVec(l) : l \in p.headers} \in Option(HeadersType)
    <3>1. CASE p.headers = {}
      BY <3>1, SingleOption
    <3>2. CASE p.headers # {}
      <4>1. PICK l \in Seq(HeaderNames \X Values) : p.headers = {l}
        BY <2>1, <3>2, OptionIs
      <4>2. {TryFromVec(x) : x \in p.headers} = {TryFromVec(l)}
        BY <4>1
      <4> QED
        BY <1>3, <4>2, SingleOption
    <3> QED
      BY <3>1, <3>2
  <2> QED
    BY <2>1, <2>2 DEF ConvertPatch, PatchType
<1>5. {ConvertPatch(p) : p \in raw.patch} \in Option(PatchType(HeadersType))
  <2>1. CASE raw.patch = {}
    BY <2>1, SingleOption
  <2>2. CASE raw.patch # {}
    <3>1. PICK p \in PatchType(Seq(HeaderNames \X Values)) : raw.patch = {p}
      BY <1>1, <2>2, OptionIs
    <3>2. {ConvertPatch(x) : x \in raw.patch} = {ConvertPatch(p)}
      BY <3>1
    <3> QED
      BY <1>4, <3>1, <3>2, SingleOption
  <2> QED
    BY <2>1, <2>2
<1> QED
  BY <1>1, <1>2, <1>5 DEF ConvertActions, ActionsType

\* The rules every connection of the proxy shares.
ConfigInv ==
  /\ config.rules \in Seq(ToSet(config.rules))
  /\ \A rule \in ToSet(config.rules) : rule.actions \in ActionsType

\* The configuration a connection starts with is typed.
LEMMA InitConfigInv == Init => ConfigInv
<1> SUFFICES ASSUME Init PROVE ConfigInv
  OBVIOUS
<1>1. PICK raw \in RawConfigs : config = Convert(raw)
  BY DEF Init
<1> DEFINE raws == raw.rules
           rules == config.rules
<1>2. raws \in Seq(ToSet(raws)) /\ \A rule \in ToSet(raws) : rule.actions \in RawActionsType
  BY ConfigAssumption
<1>3. rules = [i \in DOMAIN raws |-> [target |-> raws[i].target, selector |-> raws[i].selector,
                                      actions |-> ConvertActions(raws[i].actions)]]
  BY <1>1 DEF Convert, ConvertRules
<1> HIDE DEF raws, rules
<1>4. Len(raws) \in Nat /\ DOMAIN raws = 1 .. Len(raws)
  BY <1>2
<1>5. DOMAIN rules = 1 .. Len(raws)
  BY <1>3, <1>4
<1>6. \A i \in DOMAIN rules : rules[i].actions \in ActionsType
  <2> TAKE i \in DOMAIN rules
  <2>1. raws[i] \in ToSet(raws)
    BY <1>4, <1>5 DEF ToSet
  <2>2. rules[i].actions = ConvertActions(raws[i].actions)
    BY <1>3, <1>4, <1>5
  <2> QED
    BY <1>2, <2>1, <2>2, ConvertedActions
<1>7. rules \in Seq(ToSet(rules))
  <2>1. \A i \in 1 .. Len(raws) : rules[i] \in ToSet(rules)
    BY <1>5 DEF ToSet
  <2>2. rules = [i \in 1 .. Len(raws) |-> rules[i]]
    BY <1>3, <1>4
  <2> DEFINE S == ToSet(rules)
  <2> HIDE DEF S
  <2>3. rules \in [1 .. Len(raws) -> S]
    BY <2>1, <2>2 DEF S
  <2>4. rules \in Seq(S)
    BY <1>4, <2>3
  <2> QED
    BY <2>4 DEF S
<1>8. \A rule \in ToSet(rules) : rule.actions \in ActionsType
  BY <1>6 DEF ToSet
<1> QED
  BY <1>7, <1>8 DEF ConfigInv, rules

\* A choice of the elements of a sequence is a sequence of them.
LEMMA ChoiceType ==
  ASSUME NEW S, NEW s \in Seq(S), NEW lists, DOMAIN lists = DOMAIN s,
         lists = [i \in DOMAIN lists |-> lists[i]],
         \A i \in DOMAIN s : lists[i] \in {<<>>, <<s[i]>>}
  PROVE  FlattenSeq(lists) \in Seq(S)
<1>1. DOMAIN s = 1 .. Len(s) /\ Len(s) \in Nat /\ \A i \in DOMAIN s : s[i] \in S
  OBVIOUS
<1>2. \A x \in S : <<x>> \in Seq(S) /\ <<>> \in Seq(S)
  OBVIOUS
<1>3. \A i \in DOMAIN s : lists[i] \in Seq(S)
  BY <1>1, <1>2
<1>4. lists \in [1 .. Len(s) -> Seq(S)]
  BY <1>1, <1>3
<1>5. lists \in Seq(Seq(S))
  BY <1>1, <1>4
<1> QED
  BY <1>5, FlattenType

TypedRules(rules) ==
  /\ rules \in Seq(ToSet(config.rules)) /\ ActionsOf(rules) \in Seq(ActionsType)
  /\ Len(ActionsOf(rules)) = Len(rules)
  /\ \A i \in 1 .. Len(rules) : ActionsOf(rules)[i] = rules[i].actions

\* Rules of the configuration have typed actions.
LEMMA ActionsOfType ==
  ASSUME ConfigInv, NEW rules \in Seq(ToSet(config.rules))
  PROVE  TypedRules(rules)
<1> DEFINE S == ToSet(config.rules)
<1>1. \A rule \in S : rule.actions \in ActionsType
  BY DEF ConfigInv
<1> HIDE DEF S
<1>2. rules \in Seq(S)
  BY DEF S
<1>3. Len(rules) \in Nat /\ DOMAIN rules = 1 .. Len(rules) /\ \A i \in DOMAIN rules : rules[i] \in S
  BY <1>2
<1> DEFINE acts == ActionsOf(rules)
<1>4. acts = [i \in DOMAIN rules |-> rules[i].actions]
  BY DEF ActionsOf, Each
<1> HIDE DEF acts
<1>5. acts \in [1 .. Len(rules) -> ActionsType]
  BY <1>1, <1>3, <1>4
<1>6. acts \in Seq(ActionsType) /\ Len(acts) = Len(rules)
  BY <1>3, <1>5
<1>7. \A i \in 1 .. Len(rules) : acts[i] = rules[i].actions
  BY <1>3, <1>4
<1> QED
  BY <1>6, <1>7 DEF TypedRules, acts

\* Rules that are selected are rules of the configuration.
LEMMA SelectedTypes ==
  ASSUME ConfigInv
  PROVE  /\ \A request : TypedRules(SelectedRequestRules(request))
         /\ \A request, response : TypedRules(SelectedResponseRules(request, response))
<1>1. config.rules \in Seq(ToSet(config.rules))
  BY DEF ConfigInv
<1>2. ASSUME NEW request PROVE SelectedRequestRules(request) \in Seq(ToSet(config.rules))
  <2> DEFINE s == config.rules
             Test(rule) == /\ RoleOk(config.role, Remote, Target)
                           /\ rule.target = "Request"
                           /\ SelectRequest(Port, request, rule.selector)
             lists == [i \in DOMAIN s |-> IF Test(s[i]) THEN <<s[i]>> ELSE <<>>]
  <2>1. SelectedRequestRules(request) = FlattenSeq(lists)
    BY Zenon DEF SelectedRequestRules, Filter
  <2>2. DOMAIN lists = DOMAIN s /\ lists = [i \in DOMAIN lists |-> lists[i]]
    OBVIOUS
  <2>3. \A i \in DOMAIN s : lists[i] \in {<<>>, <<s[i]>>}
    <3> HIDE DEF Test
    <3> QED
      OBVIOUS
  <2> HIDE DEF lists
  <2> QED
    BY <1>1, <2>1, <2>2, <2>3, ChoiceType
<1>3. ASSUME NEW request, NEW response
      PROVE  SelectedResponseRules(request, response) \in Seq(ToSet(config.rules))
  <2> DEFINE s == config.rules
             Test(rule) == /\ RoleOk(config.role, Remote, Target)
                           /\ rule.target = "Response"
                           /\ SelectResponse(Port, request, response, rule.selector)
             lists == [i \in DOMAIN s |-> IF Test(s[i]) THEN <<s[i]>> ELSE <<>>]
  <2>1. SelectedResponseRules(request, response) = FlattenSeq(lists)
    BY Zenon DEF SelectedResponseRules, Filter
  <2>2. DOMAIN lists = DOMAIN s /\ lists = [i \in DOMAIN lists |-> lists[i]]
    OBVIOUS
  <2>3. \A i \in DOMAIN s : lists[i] \in {<<>>, <<s[i]>>}
    <3> HIDE DEF Test
    <3> QED
      OBVIOUS
  <2> HIDE DEF lists
  <2> QED
    BY <1>1, <2>1, <2>2, <2>3, ChoiceType
<1> QED
  BY <1>2, <1>3, ActionsOfType

LEMMA SelectionKept ==
  ASSUME UNCHANGED config
  PROVE  /\ \A request : SelectedRequestRules(request)' = SelectedRequestRules(request)
         /\ \A request, response :
              SelectedResponseRules(request, response)' = SelectedResponseRules(request, response)
BY DEF SelectedRequestRules, SelectedResponseRules, Filter

----------------------------------------------------------------------------
(* The rules that have been applied and those that are left.               *)

\* One rule less is left.
LEMMA LeftStep ==
  ASSUME NEW S, NEW s \in Seq(S), NEW k \in 0 .. Len(s),
         NEW todo, todo = SubSeq(s, k + 1, Len(s)), todo # <<>>
  PROVE  /\ k # Len(s) /\ k + 1 \in 0 .. Len(s) /\ Head(todo) = s[k + 1]
         /\ Tail(todo) = SubSeq(s, k + 1 + 1, Len(s))
<1>1. Len(s) \in Nat /\ k \in Nat
  OBVIOUS
<1>2. /\ todo \in Seq(S) /\ Len(todo) = (IF k + 1 <= Len(s) THEN Len(s) - (k + 1) + 1 ELSE 0)
      /\ \A i \in 1 .. Len(s) - (k + 1) + 1 : todo[i] = s[(k + 1) + i - 1]
  BY <1>1, SubSeqProperties
<1>3. k < Len(s) /\ Len(todo) = Len(s) - k
  BY <1>1, <1>2
<1>4. Head(todo) = s[k + 1]
  <2>1. Head(todo) = todo[1]
    BY <1>2
  <2> QED
    BY <1>1, <1>2, <1>3, <2>1
<1>5. Tail(todo) = SubSeq(s, k + 1 + 1, Len(s))
  <2> DEFINE t == Tail(todo)
             u == SubSeq(s, k + 1 + 1, Len(s))
  <2>1. t \in Seq(S) /\ Len(t) = Len(s) - k - 1 /\ \A i \in 1 .. Len(s) - k - 1 : t[i] = todo[i + 1]
    BY <1>1, <1>2, <1>3, HeadTailProperties
  <2>2. /\ u \in Seq(S) /\ Len(u) = (IF k + 1 + 1 <= Len(s) THEN Len(s) - (k + 1 + 1) + 1 ELSE 0)
        /\ \A i \in 1 .. Len(s) - (k + 1 + 1) + 1 : u[i] = s[(k + 1 + 1) + i - 1]
    <3>1. \A i \in k + 2 .. Len(s) : s[i] \in S
      BY <1>1
    <3> QED
      BY <1>1, <1>3, <3>1, SubSeqProperties
  <2> HIDE DEF t, u
  <2>3. Len(t) = Len(u)
    BY <1>1, <1>3, <2>1, <2>2
  <2>4. ASSUME NEW i \in 1 .. Len(t) PROVE t[i] = u[i]
    <3>1. i \in 1 .. Len(s) - k - 1 /\ i + 1 \in 1 .. Len(s) - (k + 1) + 1
          /\ i \in 1 .. Len(s) - (k + 1 + 1) + 1 /\ (k + 1) + (i + 1) - 1 = (k + 1 + 1) + i - 1
      BY <1>1, <1>3, <2>1
    <3>2. t[i] = todo[i + 1] /\ todo[i + 1] = s[(k + 1) + (i + 1) - 1]
      BY <1>2, <2>1, <3>1
    <3>3. u[i] = s[(k + 1 + 1) + i - 1]
      BY <2>2, <3>1
    <3> QED
      BY <3>1, <3>2, <3>3
  <2>5. t = u
    BY <2>1, <2>2, <2>3, <2>4, SeqEqual
  <2> QED
    BY <2>5 DEF t, u
<1> QED
  BY <1>1, <1>3, <1>4, <1>5

\* No rule is left once all have been applied.
LEMMA NothingLeft ==
  ASSUME NEW S, NEW s \in Seq(S), NEW k \in 0 .. Len(s), SubSeq(s, k + 1, Len(s)) = <<>>
  PROVE  k = Len(s)
<1>1. Len(s) \in Nat /\ k \in Nat
  OBVIOUS
<1>2. Len(SubSeq(s, k + 1, Len(s))) = (IF k + 1 <= Len(s) THEN Len(s) - (k + 1) + 1 ELSE 0)
  BY <1>1, SubSeqProperties
<1>3. Len(SubSeq(s, k + 1, Len(s))) = 0
  <2> DEFINE t == SubSeq(s, k + 1, Len(s))
  <2>1. t = <<>>
    OBVIOUS
  <2> HIDE DEF t
  <2>2. Len(t) = 0
    BY <2>1
  <2> QED
    BY <2>2 DEF t
<1> QED
  BY <1>1, <1>2, <1>3

\* All rules are left before the first, and all have been applied at the end.
LEMMA AllLeft ==
  ASSUME NEW S, NEW s \in Seq(S)
  PROVE  /\ s = SubSeq(s, 0 + 1, Len(s)) /\ 0 \in 0 .. Len(s)
         /\ Prefix(s, 0) = <<>> /\ Prefix(s, Len(s)) = s /\ Len(s) \in 0 .. Len(s)
<1>1. Len(s) \in Nat /\ 0 \in 0 .. Len(s) /\ Len(s) \in 0 .. Len(s)
  OBVIOUS
<1> DEFINE p == Prefix(s, Len(s))
           z == Prefix(s, 0)
<1>2. p \in Seq(S) /\ Len(p) = Len(s) /\ \A i \in 1 .. Len(s) : p[i] = s[i]
  BY <1>1, PrefixType DEF Prefix
<1>3. z \in Seq(S) /\ Len(z) = 0
  BY <1>1, PrefixType DEF Prefix
<1> HIDE DEF p, z
<1>4. p = s
  BY <1>2, SeqEqual
<1>5. z = <<>>
  BY <1>3, EmptySeq
<1>6. SubSeq(s, 0 + 1, Len(s)) = p
  BY DEF p, Prefix
<1> QED
  BY <1>1, <1>4, <1>5, <1>6 DEF p, z

\* The body of a message has not come, or broke off.
Pending(body) == body \in {"coming", "broken"}

\* What an action does to a body, in the terms of RuleMeaning.
LEMMA BodyTouched ==
  \A a : (PatchesBody(a) <=> BodyDiff(a) # {}) /\ (ReplacesBody(a) <=> NewBody(a) # {})
<1>1. ASSUME NEW a PROVE PatchesBody(a) <=> BodyDiff(a) # {}
  BY Zenon DEF PatchesBody, BodyDiff, Field
<1>2. ASSUME NEW a PROVE ReplacesBody(a) <=> NewBody(a) # {}
  BY Zenon DEF ReplacesBody, NewBody, Field
<1> QED
  BY <1>1, <1>2

\* Actions none of which touches the body, and one more.
LEMMA BodyUntouched ==
  ASSUME NEW acts \in Seq(ActionsType), NEW k \in 0 .. Len(acts), k # Len(acts),
         ~ChangesBody(Prefix(acts, k))
  PROVE  LET a == acts[k + 1]
         IN /\ ~PatchesBody(a) /\ ~ReplacesBody(a) => ~ChangesBody(Prefix(acts, k + 1))
            /\ PatchesBody(a) /\ ~ReplacesBody(a) => LooksAtBody(acts)
<1> DEFINE a == acts[k + 1]
           n == Len(acts)
           touched(i) == BodyDiff(acts[i]) # {} \/ NewBody(acts[i]) # {}
<1>1. k \in Nat /\ n \in Nat /\ k + 1 \in 0 .. n /\ DOMAIN acts = 1 .. n
  OBVIOUS
<1> HIDE DEF n
<1>2. \A i \in 1 .. k : ~touched(i)
  <2>1. DOMAIN Prefix(acts, k) = 1 .. k /\ \A i \in 1 .. k : Prefix(acts, k)[i] = acts[i]
    BY PrefixType DEF Prefix
  <2> QED
    BY <2>1 DEF ChangesBody
<1>3. ASSUME ~PatchesBody(a), ~ReplacesBody(a) PROVE ~ChangesBody(Prefix(acts, k + 1))
  <2>1. ~touched(k + 1)
    BY <1>3, BodyTouched
  <2>2. \A i \in 1 .. k + 1 : ~touched(i)
    <3> HIDE DEF touched
    <3>1. \A i \in 1 .. k + 1 : i \in 1 .. k \/ i = k + 1
      BY <1>1
    <3> QED
      BY <1>2, <2>1, <3>1
  <2>3. /\ DOMAIN Prefix(acts, k + 1) = 1 .. k + 1
        /\ \A i \in 1 .. k + 1 : Prefix(acts, k + 1)[i] = acts[i]
    BY <1>1, PrefixType DEF Prefix, n
  <2> QED
    BY <2>2, <2>3 DEF ChangesBody
<1>4. ASSUME PatchesBody(a), ~ReplacesBody(a) PROVE LooksAtBody(acts)
  <2>1. BodyDiff(acts[k + 1]) # {} /\ NewBody(acts[k + 1]) = {}
    BY <1>4, BodyTouched
  <2>2. k + 1 \in DOMAIN acts /\ \A i \in 1 .. k + 1 : i \in 1 .. k \/ i = k + 1
    BY <1>1
  <2>3. \A j \in 1 .. k + 1 : NewBody(acts[j]) = {}
    BY <1>2, <2>1, <2>2
  <2> QED
    BY <2>1, <2>2, <2>3 DEF LooksAtBody
<1> QED
  BY <1>3, <1>4

\* k of the rules have been applied to the original request or response; none of
\* them had a say in the body if that has not come.
RequestProgress(rules, original, todo, request, body, k) ==
  /\ k \in 0 .. Len(rules) /\ todo = SubSeq(rules, k + 1, Len(rules))
  /\ AppliedRequest(request, Prefix(ActionsOf(rules), k), original)
  /\ Pending(body) => ~ChangesBody(Prefix(ActionsOf(rules), k))

ResponseProgress(rules, original, todo, response, body, k) ==
  /\ k \in 0 .. Len(rules) /\ todo = SubSeq(rules, k + 1, Len(rules))
  /\ AppliedResponse(response, Prefix(ActionsOf(rules), k), original)
  /\ Pending(body) => ~ChangesBody(Prefix(ActionsOf(rules), k))

\* Before the first rule.
LEMMA RequestBegins ==
  ASSUME NEW rules, TypedRules(rules), NEW original \in RequestType, NEW body
  PROVE  RequestProgress(rules, original, rules, original, body, 0)
<1>1. /\ rules \in Seq(ToSet(config.rules)) /\ ActionsOf(rules) \in Seq(ActionsType)
  BY DEF TypedRules
<1>2. rules = SubSeq(rules, 0 + 1, Len(rules)) /\ 0 \in 0 .. Len(rules)
  BY <1>1, AllLeft
<1>3. Prefix(ActionsOf(rules), 0) = <<>>
  BY <1>1, AllLeft
<1>4. ~ChangesBody(<<>>)
  BY DEF ChangesBody
<1> QED
  BY <1>2, <1>3, <1>4, RequestStart DEF RequestProgress

LEMMA ResponseBegins ==
  ASSUME NEW rules, TypedRules(rules), NEW original \in ResponseType, NEW body
  PROVE  ResponseProgress(rules, original, rules, original, body, 0)
<1>1. /\ rules \in Seq(ToSet(config.rules)) /\ ActionsOf(rules) \in Seq(ActionsType)
  BY DEF TypedRules
<1>2. rules = SubSeq(rules, 0 + 1, Len(rules)) /\ 0 \in 0 .. Len(rules)
  BY <1>1, AllLeft
<1>3. Prefix(ActionsOf(rules), 0) = <<>>
  BY <1>1, AllLeft
<1>4. ~ChangesBody(<<>>)
  BY DEF ChangesBody
<1> QED
  BY <1>2, <1>3, <1>4, ResponseStart DEF ResponseProgress

\* After the last rule the message is what the rules mean together.
LEMMA RequestEnds ==
  ASSUME NEW rules, TypedRules(rules), NEW original, NEW request, NEW body, NEW k,
         RequestProgress(rules, original, <<>>, request, body, k)
  PROVE  /\ request = MeantRequest(ActionsOf(rules), original)
         /\ Pending(body) => ~ChangesBody(ActionsOf(rules))
<1> DEFINE acts == ActionsOf(rules)
<1>1. /\ rules \in Seq(ToSet(config.rules)) /\ acts \in Seq(ActionsType) /\ Len(acts) = Len(rules)
  BY DEF TypedRules
<1>2. /\ k \in 0 .. Len(rules) /\ <<>> = SubSeq(rules, k + 1, Len(rules))
      /\ request = MeantRequest(Prefix(acts, k), original)
      /\ Pending(body) => ~ChangesBody(Prefix(acts, k))
  BY DEF RequestProgress, AppliedRequest
<1>3. k = Len(acts)
  BY <1>1, <1>2, NothingLeft
<1>4. Prefix(acts, Len(acts)) = acts
  BY <1>1, AllLeft
<1> HIDE DEF acts
<1> QED
  BY <1>2, <1>3, <1>4 DEF acts

LEMMA ResponseEnds ==
  ASSUME NEW rules, TypedRules(rules), NEW original, NEW response, NEW body, NEW k,
         ResponseProgress(rules, original, <<>>, response, body, k)
  PROVE  response = MeantResponse(ActionsOf(rules), original)
<1> DEFINE acts == ActionsOf(rules)
<1>1. /\ rules \in Seq(ToSet(config.rules)) /\ acts \in Seq(ActionsType) /\ Len(acts) = Len(rules)
  BY DEF TypedRules
<1>2. /\ k \in 0 .. Len(rules) /\ <<>> = SubSeq(rules, k + 1, Len(rules))
      /\ response = MeantResponse(Prefix(acts, k), original)
  BY DEF ResponseProgress, AppliedResponse
<1>3. k = Len(acts)
  BY <1>1, <1>2, NothingLeft
<1>4. Prefix(acts, Len(acts)) = acts
  BY <1>1, AllLeft
<1> HIDE DEF acts
<1> QED
  BY <1>2, <1>3, <1>4 DEF acts

\* A body still has not come after the action a, which did not need it.
StillPending(a, body, next) ==
  Pending(next) => Pending(body) /\ ~PatchesBody(a) /\ ~ReplacesBody(a)

\* The next rule, and what is left after it.
LEMMA NextRule ==
  ASSUME NEW rules, TypedRules(rules), NEW k \in 0 .. Len(rules),
         NEW todo, todo = SubSeq(rules, k + 1, Len(rules)), todo # <<>>
  PROVE  /\ k # Len(rules) /\ k + 1 \in 0 .. Len(rules)
         /\ Tail(todo) = SubSeq(rules, k + 1 + 1, Len(rules))
         /\ Head(todo).actions = ActionsOf(rules)[k + 1]
         /\ Head(todo).actions \in ActionsType
<1> DEFINE acts == ActionsOf(rules)
           S == ToSet(config.rules)
<1>1. rules \in Seq(S)
  BY DEF TypedRules
<1>2. /\ acts \in Seq(ActionsType) /\ Len(acts) = Len(rules)
      /\ \A i \in 1 .. Len(rules) : acts[i] = rules[i].actions
  BY DEF TypedRules
<1> HIDE DEF acts, S
<1>3. /\ k # Len(rules) /\ k + 1 \in 0 .. Len(rules) /\ Head(todo) = rules[k + 1]
      /\ Tail(todo) = SubSeq(rules, k + 1 + 1, Len(rules))
  BY <1>1, LeftStep
<1>4. k + 1 \in 1 .. Len(rules)
  BY <1>3
<1>5. Head(todo).actions = acts[k + 1] /\ acts[k + 1] \in ActionsType
  BY <1>2, <1>3, <1>4
<1> QED
  BY <1>3, <1>5 DEF acts

\* One rule more, or an error all rules together mean, or a look at the body as it came.
LEMMA RequestGoesOn ==
  ASSUME NEW rules, TypedRules(rules), NEW original \in RequestType, NEW todo, todo # <<>>,
         NEW request, NEW body, NEW k,
         RequestProgress(rules, original, todo, request, body, k),
         NEW a, a = Head(todo).actions, NEW result, result = ApplyRequestAction(request, a)
  PROVE  /\ result = Err => MeantRequest(ActionsOf(rules), original) = Err
         /\ \A next : result # Err /\ StillPending(a, body, next)
              => RequestProgress(rules, original, Tail(todo), result, next, k + 1)
         /\ ReadsBody(a) /\ Pending(body) => LooksAtBody(ActionsOf(rules))
<1> DEFINE acts == ActionsOf(rules)
           done == Prefix(acts, k)
<1>1. acts \in Seq(ActionsType) /\ Len(acts) = Len(rules)
  BY DEF TypedRules
<1>2. /\ k \in 0 .. Len(rules) /\ todo = SubSeq(rules, k + 1, Len(rules))
      /\ AppliedRequest(request, done, original) /\ (Pending(body) => ~ChangesBody(done))
  BY DEF RequestProgress
<1>3. /\ k # Len(rules) /\ k + 1 \in 0 .. Len(rules)
      /\ Tail(todo) = SubSeq(rules, k + 1 + 1, Len(rules))
      /\ a = acts[k + 1] /\ a \in ActionsType
  BY <1>2, NextRule
<1> HIDE DEF acts
<1>4. done \in Seq(ActionsType) /\ Prefix(acts, k + 1) = More(done, a) /\ a \in ActionsType
  <2>1. k \in 0 .. Len(acts) /\ k # Len(acts)
    BY <1>1, <1>2, <1>3
  <2> QED
    BY <1>1, <1>3, <2>1, PrefixMore, PrefixType DEF Prefix
<1>5. ASSUME Pending(body)
      PROVE  /\ ~PatchesBody(a) /\ ~ReplacesBody(a) => ~ChangesBody(Prefix(acts, k + 1))
             /\ PatchesBody(a) /\ ~ReplacesBody(a) => LooksAtBody(acts)
  <2>1. ~ChangesBody(Prefix(acts, k)) /\ k \in 0 .. Len(acts) /\ k # Len(acts)
    BY <1>1, <1>2, <1>3, <1>5 DEF done
  <2> QED
    BY <1>1, <1>3, <2>1, BodyUntouched
<1> HIDE DEF done
<1>6. /\ result = Err => FailsRequest(More(done, a), original.body)
      /\ result # Err => AppliedRequest(result, More(done, a), original)
  BY <1>2, <1>4, RequestStep
<1>7. ASSUME result = Err PROVE MeantRequest(acts, original) = Err
  <2>1. FailsRequest(Prefix(acts, k + 1), original.body)
    BY <1>4, <1>6, <1>7
  <2>2. k + 1 \in 0 .. Len(acts)
    BY <1>1, <1>3
  <2>3. FailsRequest(acts, original.body)
    BY <1>1, <2>1, <2>2, FailsPrefix
  <2> QED
    BY <2>3, Zenon DEF MeantRequest
<1>8. ASSUME result # Err, NEW next, StillPending(a, body, next)
      PROVE  RequestProgress(rules, original, Tail(todo), result, next, k + 1)
  <2>1. AppliedRequest(result, Prefix(acts, k + 1), original)
    BY <1>4, <1>6, <1>8
  <2>2. Pending(next) => ~ChangesBody(Prefix(acts, k + 1))
    BY <1>5, <1>8 DEF StillPending
  <2> QED
    BY <1>3, <2>1, <2>2, Zenon DEF RequestProgress, acts
<1> QED
  BY <1>5, <1>7, <1>8 DEF acts, ReadsBody

LEMMA ResponseGoesOn ==
  ASSUME NEW rules, TypedRules(rules), NEW original \in ResponseType, NEW todo, todo # <<>>,
         NEW response, NEW body, NEW k,
         ResponseProgress(rules, original, todo, response, body, k),
         NEW a, a = Head(todo).actions, NEW result, result = ApplyResponseAction(response, a)
  PROVE  /\ result = Err => MeantResponse(ActionsOf(rules), original) = Err
         /\ \A next : result # Err /\ StillPending(a, body, next)
              => ResponseProgress(rules, original, Tail(todo), result, next, k + 1)
         /\ ReadsBody(a) /\ Pending(body) => LooksAtBody(ActionsOf(rules))
<1> DEFINE acts == ActionsOf(rules)
           done == Prefix(acts, k)
<1>1. acts \in Seq(ActionsType) /\ Len(acts) = Len(rules)
  BY DEF TypedRules
<1>2. /\ k \in 0 .. Len(rules) /\ todo = SubSeq(rules, k + 1, Len(rules))
      /\ AppliedResponse(response, done, original) /\ (Pending(body) => ~ChangesBody(done))
  BY DEF ResponseProgress
<1>3. /\ k # Len(rules) /\ k + 1 \in 0 .. Len(rules)
      /\ Tail(todo) = SubSeq(rules, k + 1 + 1, Len(rules))
      /\ a = acts[k + 1] /\ a \in ActionsType
  BY <1>2, NextRule
<1> HIDE DEF acts
<1>4. done \in Seq(ActionsType) /\ Prefix(acts, k + 1) = More(done, a) /\ a \in ActionsType
  <2>1. k \in 0 .. Len(acts) /\ k # Len(acts)
    BY <1>1, <1>2, <1>3
  <2> QED
    BY <1>1, <1>3, <2>1, PrefixMore, PrefixType DEF Prefix
<1>5. ASSUME Pending(body)
      PROVE  /\ ~PatchesBody(a) /\ ~ReplacesBody(a) => ~ChangesBody(Prefix(acts, k + 1))
             /\ PatchesBody(a) /\ ~ReplacesBody(a) => LooksAtBody(acts)
  <2>1. ~ChangesBody(Prefix(acts, k)) /\ k \in 0 .. Len(acts) /\ k # Len(acts)
    BY <1>1, <1>2, <1>3, <1>5 DEF done
  <2> QED
    BY <1>1, <1>3, <2>1, BodyUntouched
<1> HIDE DEF done
<1>6. /\ result = Err => Fails(More(done, a), original.body)
      /\ result # Err => AppliedResponse(result, More(done, a), original)
  BY <1>2, <1>4, ResponseStep
<1>7. ASSUME result = Err PROVE MeantResponse(acts, original) = Err
  <2>1. Fails(Prefix(acts, k + 1), original.body)
    BY <1>4, <1>6, <1>7
  <2>2. k + 1 \in 0 .. Len(acts)
    BY <1>1, <1>3
  <2>3. Fails(acts, original.body)
    BY <1>1, <2>1, <2>2, FailsPrefix
  <2> QED
    BY <2>3, Zenon DEF MeantResponse
<1>8. ASSUME result # Err, NEW next, StillPending(a, body, next)
      PROVE  ResponseProgress(rules, original, Tail(todo), result, next, k + 1)
  <2>1. AppliedResponse(result, Prefix(acts, k + 1), original)
    BY <1>4, <1>6, <1>8
  <2>2. Pending(next) => ~ChangesBody(Prefix(acts, k + 1))
    BY <1>5, <1>8 DEF StillPending
  <2> QED
    BY <1>3, <2>1, <2>2, Zenon DEF ResponseProgress, acts
<1> QED
  BY <1>5, <1>7, <1>8 DEF acts, ReadsBody

----------------------------------------------------------------------------
(* An exchange and the rules.                                              *)

\* SelectedRequestRules, Ruled and their like, of a configuration and a stream.
RulesForRequest(c, request) ==
  Filter(c.rules, LAMBDA rule :
    /\ RoleOk(c.role, Remote, Target)
    /\ rule.target = "Request"
    /\ SelectRequest(Port, request, rule.selector))

RulesForResponse(c, request, response) ==
  Filter(c.rules, LAMBDA rule :
    /\ RoleOk(c.role, Remote, Target)
    /\ rule.target = "Response"
    /\ SelectResponse(Port, request, response, rule.selector))

\* The actions of the rules for the request at a place, and for a response to it.
ActsFor(c, s, at)             == ActionsOf(RulesForRequest(c, s[at].request))
ActsBack(c, request, served)  == ActionsOf(RulesForResponse(c, request, served))
MeantFor(c, s, at)            == MeantRequest(ActsFor(c, s, at), s[at].request)
MeantBack(c, request, served) == MeantResponse(ActsBack(c, request, served), served)

\* They are the operators of HttpConnection.
LEMMA RulesOfConfig ==
  /\ \A request : SelectedRequestRules(request) = RulesForRequest(config, request)
  /\ \A request, response :
       SelectedResponseRules(request, response) = RulesForResponse(config, request, response)
BY Zenon DEF SelectedRequestRules, RulesForRequest, SelectedResponseRules, RulesForResponse

LEMMA MeantOfConfig ==
  /\ \A at : RequestActions(at) = ActsFor(config, stream, at)
  /\ \A request, served : ResponseActions(request, served) = ActsBack(config, request, served)
  /\ \A at : Ruled(at) = MeantFor(config, stream, at)
  /\ \A request, served : RuledResponse(request, served) = MeantBack(config, request, served)
<1>1. ASSUME NEW at PROVE RequestActions(at) = ActsFor(config, stream, at)
  BY RulesOfConfig, Zenon DEF RequestActions, ActsFor
<1>2. ASSUME NEW request, NEW served
      PROVE  ResponseActions(request, served) = ActsBack(config, request, served)
  BY RulesOfConfig, Zenon DEF ResponseActions, ActsBack
<1>3. ASSUME NEW at PROVE Ruled(at) = MeantFor(config, stream, at)
  BY <1>1, Zenon DEF Ruled, MeantFor
<1>4. ASSUME NEW request, NEW served
      PROVE  RuledResponse(request, served) = MeantBack(config, request, served)
  BY <1>2, Zenon DEF RuledResponse, MeantBack
<1> QED
  BY <1>1, <1>2, <1>3, <1>4

\* The rules that are selected, with typed actions.
LEMMA ConfigRulesTyped ==
  ASSUME ConfigInv
  PROVE  /\ \A request : TypedRules(RulesForRequest(config, request))
         /\ \A request, response : TypedRules(RulesForResponse(config, request, response))
BY SelectedTypes, RulesOfConfig, Zenon

RequestUnderWay(rules, original, todo, request, body) ==
  \E k \in 0 .. Len(rules) : RequestProgress(rules, original, todo, request, body, k)

ResponseUnderWay(rules, original, todo, response, body) ==
  \E k \in 0 .. Len(rules) : ResponseProgress(rules, original, todo, response, body, k)

\* The rules of this exchange, as far as they have been applied.
InRequest(c, s, e) ==
  /\ e.served = Err /\ s[e.at].request \in RequestType
  /\ RequestUnderWay(RulesForRequest(c, s[e.at].request), s[e.at].request, e.todo, e.request,
                     e.fromClient)

InResponse(c, s, e) ==
  /\ e.request = MeantFor(c, s, e.at) /\ e.served \in ResponseType
  /\ ResponseUnderWay(RulesForResponse(c, e.request, e.served), e.served, e.todo, e.response,
                      e.fromTarget)

ForwardedAs(c, s, x) ==
  x.request = MeantFor(c, s, x.at) /\ (x.streamed => ~ChangesBody(ActsFor(c, s, x.at)))

ForwardedMeant(c, s, f) == \A i \in DOMAIN f : ForwardedAs(c, s, f[i])

AnsweredMeant(c, s, a) ==
  \A i \in DOMAIN a : /\ a[i].request = MeantFor(c, s, a[i].at)
                      /\ a[i].response = MeantBack(c, a[i].request, a[i].served)

AbortMeant(c, s, e, at) ==
  IF e.served = Err
    THEN \/ MeantFor(c, s, at) = Err \/ ~HasAuthority(MeantFor(c, s, at))
         \/ e.fromClient = "broken" /\ LooksAtBody(ActsFor(c, s, at))
    ELSE \/ MeantBack(c, e.request, e.served) = Err
         \/ e.fromTarget = "broken" /\ LooksAtBody(ActsBack(c, e.request, e.served))

RuleInv ==
  /\ pc = "request" => InRequest(config, stream, ex)
  /\ pc = "wait" => ex.request = MeantFor(config, stream, ex.at)
  /\ pc = "response" => InResponse(config, stream, ex)
  /\ ForwardedMeant(config, stream, forwarded) /\ AnsweredMeant(config, stream, answers)
  /\ pc = "aborted" => AbortMeant(config, stream, ex, Last(taken))

\* The invariant implies the three properties.
LEMMA RuleInvMeans ==
  ASSUME RuleInv
  PROVE  ForwardedAsRuled /\ AnsweredAsRuled /\ AbortedAsRuled
<1>1. ForwardedAsRuled
  BY MeantOfConfig DEF RuleInv, ForwardedMeant, ForwardedAs, ForwardedAsRuled
<1>2. AnsweredAsRuled
  BY MeantOfConfig DEF RuleInv, AnsweredMeant, AnsweredAsRuled
<1>3. AbortedAsRuled
  BY MeantOfConfig, Zenon DEF RuleInv, AbortMeant, AbortedAsRuled
<1> QED
  BY <1>1, <1>2, <1>3

LEMMA InitRuleInv == Init => RuleInv
BY DEF Init, RuleInv, ForwardedMeant, AnsweredMeant

----------------------------------------------------------------------------
(* The steps.                                                              *)

\* A request that is taken: no rule has been applied.
LEMMA RequestTaken ==
  ASSUME ConfigInv, NEW at, stream[at].request \in RequestType,
         NEW e, e.at = at, e.request = stream[at].request, e.served = Err,
         e.todo = SelectedRequestRules(stream[at].request)
  PROVE  InRequest(config, stream, e)
<1> DEFINE original == stream[at].request
           rules == RulesForRequest(config, original)
<1>1. e.todo = rules /\ TypedRules(rules)
  BY ConfigRulesTyped, RulesOfConfig
<1>2. original \in RequestType /\ e.request = original
  OBVIOUS
<1> HIDE DEF original, rules
<1>3. RequestUnderWay(rules, original, rules, original, e.fromClient)
  <2>1. RequestProgress(rules, original, rules, original, e.fromClient, 0)
    BY <1>1, <1>2, RequestBegins
  <2> QED
    BY <2>1 DEF RequestUnderWay, RequestProgress
<1>4. RequestUnderWay(rules, original, e.todo, e.request, e.fromClient)
  BY <1>1, <1>2, <1>3
<1> QED
  BY <1>2, <1>4, Zenon DEF InRequest, original, rules

LEMMA TakeRequestRules ==
  ASSUME HInv, ConfigInv, RuleInv, TakeRequest
  PROVE  RuleInv'
<1> DEFINE request == stream[base + 1].request
           todo == SelectedRequestRules(request)
           body == IF Kind(base + 1) = "head" THEN "coming" ELSE "whole"
<1>1. /\ pc' = "request" /\ UNCHANGED <<config, stream, forwarded, answers>>
      /\ ex' = [NoExchange EXCEPT !.at = base + 1, !.request = request, !.todo = todo,
                                  !.fromClient = body]
  BY DEF TakeRequest, conf
<1>2. stream[base + 1].request \in RequestType
  <2>1. stream \in Seq(ToSet(stream)) /\ stream \in Streams
    BY ConnectionAssumption DEF HInv, TypeOK
  <2>2. base < read
    BY DEF TakeRequest, Complete
  <2>3. base + 1 \in DOMAIN stream
    BY <2>1, <2>2, Lengths DEF HInv, TypeOK
  <2>4. stream[base + 1] \in ToSet(stream)
    BY <2>3 DEF ToSet
  <2>5. stream[base + 1].kind \in {"request", "start", "head"}
    BY DEF TakeRequest, Complete, Kind
  <2> QED
    BY <2>1, <2>4, <2>5, MessageAssumption
<1> HIDE DEF request, todo, body
<1>3. ex'.at = base + 1 /\ ex'.request = request /\ ex'.todo = todo /\ ex'.served = Err
  BY <1>1 DEF NoExchange
<1>4. InRequest(config, stream, ex')
  BY <1>2, <1>3, RequestTaken DEF request, todo
<1> QED
  BY <1>1, <1>4 DEF RuleInv

\* Of a request or a response no rule is left for.
LEMMA AllApplied ==
  ASSUME ConfigInv, NEW e, e.todo = <<>>
  PROVE  /\ InRequest(config, stream, e)
              => /\ e.request = MeantFor(config, stream, e.at)
                 /\ Pending(e.fromClient) => ~ChangesBody(ActsFor(config, stream, e.at))
         /\ InResponse(config, stream, e) => e.response = MeantBack(config, e.request, e.served)
<1>1. ASSUME InRequest(config, stream, e)
      PROVE  /\ e.request = MeantFor(config, stream, e.at)
             /\ Pending(e.fromClient) => ~ChangesBody(ActsFor(config, stream, e.at))
  <2> DEFINE original == stream[e.at].request
             rules == RulesForRequest(config, original)
  <2>1. TypedRules(rules)
    BY ConfigRulesTyped
  <2>2. RequestUnderWay(rules, original, <<>>, e.request, e.fromClient)
    BY <1>1 DEF InRequest
  <2> HIDE DEF original, rules
  <2>3. PICK k : RequestProgress(rules, original, <<>>, e.request, e.fromClient, k)
    BY <2>2 DEF RequestUnderWay
  <2>4. /\ e.request = MeantRequest(ActionsOf(rules), original)
        /\ Pending(e.fromClient) => ~ChangesBody(ActionsOf(rules))
    BY <2>1, <2>3, RequestEnds
  <2> QED
    BY <2>4, Zenon DEF MeantFor, ActsFor, original, rules
<1>2. ASSUME InResponse(config, stream, e)
      PROVE  e.response = MeantBack(config, e.request, e.served)
  <2> DEFINE rules == RulesForResponse(config, e.request, e.served)
  <2>1. TypedRules(rules)
    BY ConfigRulesTyped
  <2>2. ResponseUnderWay(rules, e.served, <<>>, e.response, e.fromTarget)
    BY <1>2 DEF InResponse
  <2> HIDE DEF rules
  <2>3. PICK k : ResponseProgress(rules, e.served, <<>>, e.response, e.fromTarget, k)
    BY <2>2 DEF ResponseUnderWay
  <2>4. e.response = MeantResponse(ActionsOf(rules), e.served)
    BY <2>1, <2>3, ResponseEnds
  <2> QED
    BY <2>4, Zenon DEF MeantBack, ActsBack, rules
<1> QED
  BY <1>1, <1>2

\* One rule more.
LEMMA RequestRuleApplied ==
  ASSUME ConfigInv, NEW e, InRequest(config, stream, e), e.todo # <<>>,
         NEW a, a = Head(e.todo).actions,
         NEW result, result = ApplyRequestAction(e.request, a)
  PROVE  /\ result = Err => MeantFor(config, stream, e.at) = Err
         /\ ReadsBody(a) /\ Pending(e.fromClient) => LooksAtBody(ActsFor(config, stream, e.at))
         /\ result # Err
              => \A f : /\ f.at = e.at /\ f.served = e.served
                        /\ f.request = result /\ f.todo = Tail(e.todo)
                        /\ StillPending(a, e.fromClient, f.fromClient)
                        => InRequest(config, stream, f)
<1> DEFINE original == stream[e.at].request
           rules == RulesForRequest(config, original)
<1>1. TypedRules(rules)
  BY ConfigRulesTyped
<1>2. /\ e.served = Err /\ original \in RequestType
      /\ RequestUnderWay(rules, original, e.todo, e.request, e.fromClient)
  BY DEF InRequest
<1> HIDE DEF original, rules
<1>3. PICK k \in 0 .. Len(rules) :
        RequestProgress(rules, original, e.todo, e.request, e.fromClient, k)
  BY <1>2 DEF RequestUnderWay
<1>4. /\ result = Err => MeantRequest(ActionsOf(rules), original) = Err
      /\ \A next : result # Err /\ StillPending(a, e.fromClient, next)
           => RequestProgress(rules, original, Tail(e.todo), result, next, k + 1)
      /\ ReadsBody(a) /\ Pending(e.fromClient) => LooksAtBody(ActionsOf(rules))
  BY <1>1, <1>2, <1>3, RequestGoesOn
<1>5. /\ result = Err => MeantFor(config, stream, e.at) = Err
      /\ ReadsBody(a) /\ Pending(e.fromClient) => LooksAtBody(ActsFor(config, stream, e.at))
  BY <1>4, Zenon DEF MeantFor, ActsFor, original, rules
<1>6. ASSUME result # Err, NEW f, f.at = e.at, f.served = e.served, f.request = result,
             f.todo = Tail(e.todo), StillPending(a, e.fromClient, f.fromClient)
      PROVE  InRequest(config, stream, f)
  <2>1. RequestUnderWay(rules, original, Tail(e.todo), result, f.fromClient)
    BY <1>4, <1>6 DEF RequestUnderWay, RequestProgress
  <2> QED
    BY <1>2, <1>6, <2>1, Zenon DEF InRequest, original, rules
<1> QED
  BY <1>5, <1>6

LEMMA ResponseRuleApplied ==
  ASSUME ConfigInv, NEW e, InResponse(config, stream, e), e.todo # <<>>,
         NEW a, a = Head(e.todo).actions,
         NEW result, result = ApplyResponseAction(e.response, a)
  PROVE  /\ e.served # Err
         /\ result = Err => MeantBack(config, e.request, e.served) = Err
         /\ ReadsBody(a) /\ Pending(e.fromTarget)
              => LooksAtBody(ActsBack(config, e.request, e.served))
         /\ result # Err
              => \A f : /\ f.at = e.at /\ f.served = e.served /\ f.request = e.request
                        /\ f.response = result /\ f.todo = Tail(e.todo)
                        /\ StillPending(a, e.fromTarget, f.fromTarget)
                        => InResponse(config, stream, f)
<1> DEFINE rules == RulesForResponse(config, e.request, e.served)
<1>1. TypedRules(rules)
  BY ConfigRulesTyped
<1>2. /\ e.request = MeantFor(config, stream, e.at) /\ e.served \in ResponseType
      /\ ResponseUnderWay(rules, e.served, e.todo, e.response, e.fromTarget)
  BY DEF InResponse
<1> HIDE DEF rules
<1>3. PICK k \in 0 .. Len(rules) :
        ResponseProgress(rules, e.served, e.todo, e.response, e.fromTarget, k)
  BY <1>2 DEF ResponseUnderWay
<1>4. /\ result = Err => MeantResponse(ActionsOf(rules), e.served) = Err
      /\ \A next : result # Err /\ StillPending(a, e.fromTarget, next)
           => ResponseProgress(rules, e.served, Tail(e.todo), result, next, k + 1)
      /\ ReadsBody(a) /\ Pending(e.fromTarget) => LooksAtBody(ActionsOf(rules))
  BY <1>1, <1>2, <1>3, ResponseGoesOn
<1>5. /\ result = Err => MeantBack(config, e.request, e.served) = Err
      /\ ReadsBody(a) /\ Pending(e.fromTarget)
           => LooksAtBody(ActsBack(config, e.request, e.served))
  BY <1>4, Zenon DEF MeantBack, ActsBack, rules
<1>6. ASSUME result # Err, NEW f, f.at = e.at, f.served = e.served, f.request = e.request,
             f.response = result, f.todo = Tail(e.todo),
             StillPending(a, e.fromTarget, f.fromTarget)
      PROVE  InResponse(config, stream, f)
  <2>1. ResponseUnderWay(rules, e.served, Tail(e.todo), result, f.fromTarget)
    BY <1>4, <1>6 DEF ResponseUnderWay, ResponseProgress
  <2> QED
    BY <1>2, <1>6, <2>1, Zenon DEF InResponse, rules
<1>7. e.served # Err
  BY <1>2, RulesAssumption
<1> QED
  BY <1>5, <1>6, <1>7

\* Steps that neither touch an exchange nor enter a phase of one.
LEMMA RulesStill ==
  ASSUME RuleInv, UNCHANGED <<config, stream, forwarded, answers>>,
         pc' \in ServePc \cup {"aborted"} => pc' = pc /\ taken' = taken /\ ex' = ex
  PROVE  RuleInv'
<1>1. /\ pc' = "aborted" => pc = "aborted" /\ taken' = taken /\ ex' = ex
      /\ pc' = "request" => pc = "request" /\ ex' = ex
      /\ pc' = "wait" => pc = "wait" /\ ex' = ex
      /\ pc' = "response" => pc = "response" /\ ex' = ex
  BY DEF ServePc
<1> QED
  BY <1>1 DEF RuleInv

\* The request handle works on is the last one taken.
LEMMA LastTaken ==
  ASSUME HInv, OrderInv, pc \in ServePc
  PROVE  Last(taken) = ex.at
BY DEF OrderInv, Last, Owing

\* The actions of the next rule are typed.
LEMMA HeadTyped ==
  ASSUME ConfigInv, NEW e, InRequest(config, stream, e), e.todo # <<>>
  PROVE  Head(e.todo).actions \in ActionsType
<1> DEFINE original == stream[e.at].request
           rules == RulesForRequest(config, original)
<1>1. TypedRules(rules)
  BY ConfigRulesTyped
<1>2. RequestUnderWay(rules, original, e.todo, e.request, e.fromClient)
  BY DEF InRequest
<1> HIDE DEF original, rules
<1>3. PICK k \in 0 .. Len(rules) : e.todo = SubSeq(rules, k + 1, Len(rules))
  BY <1>2 DEF RequestUnderWay, RequestProgress
<1> QED
  BY <1>1, <1>3, NextRule

\* An action that gives a request back has neither an abort nor a bad path.
LEMMA RequestDoesNotFail ==
  ASSUME ConfigInv, NEW e, InRequest(config, stream, e), e.todo # <<>>,
         NEW a, a = Head(e.todo).actions, ApplyRequestAction(e.request, a) # Err
  PROVE  ~a.abort /\ \A r \in a.replace : BadPath \notin r.path
<1>1. a \in ActionsType
  BY HeadTyped
<1>2. ~a.abort
  BY DEF ApplyRequestAction
<1>3. ASSUME NEW r \in a.replace PROVE BadPath \notin r.path
  <2>1. The(a.replace) = r /\ a.replace # {}
    BY <1>1, <1>3, OptionIs DEF ActionsType
  <2>2. ReplaceRequest(e.request, r) # Err
    BY <2>1 DEF ApplyRequestAction
  <2> QED
    BY <2>2 DEF ReplaceRequest
<1> QED
  BY <1>2, <1>3

LEMMA ApplyToRequestRules ==
  ASSUME HInv, OrderInv, ConfigInv, RuleInv, ApplyToRequest
  PROVE  RuleInv'
<1> DEFINE a == Head(ex.todo).actions
           result == ApplyRequestAction(ex.request, a)
<1>1. a = Head(ex.todo).actions /\ result = ApplyRequestAction(ex.request, a)
  OBVIOUS
<1> HIDE DEF a, result
<1>2. /\ pc = "request" /\ ex.todo # <<>> /\ ~Waits(a, ex.fromClient)
      /\ UNCHANGED <<config, stream, taken, forwarded, answers>>
      /\ \/ /\ result = Err \/ Breaks(a, ex.fromClient)
            /\ pc' = "aborted" /\ ex' = ex
         \/ /\ result # Err /\ ~Breaks(a, ex.fromClient)
            /\ pc' = pc /\ ex'.at = ex.at /\ ex'.served = ex.served /\ ex'.request = result
            /\ ex'.todo = Tail(ex.todo) /\ ex'.fromClient = BodyAfter(a, ex.fromClient)
  BY <1>1, ApplyToRequestDoes
<1>3. InRequest(config, stream, ex) /\ ex.served = Err
  BY <1>2 DEF RuleInv, InRequest
<1>4. CASE /\ result = Err \/ Breaks(a, ex.fromClient)
           /\ pc' = "aborted" /\ ex' = ex
  <2>1. \/ MeantFor(config, stream, ex.at) = Err
        \/ ex.fromClient = "broken" /\ LooksAtBody(ActsFor(config, stream, ex.at))
    BY <1>1, <1>2, <1>3, <1>4, RequestRuleApplied DEF Breaks, ReadsRequestBody, Pending
  <2>2. Last(taken) = ex.at
    BY <1>2, LastTaken DEF ServePc
  <2>3. AbortMeant(config, stream, ex, Last(taken))
    BY <1>3, <2>1, <2>2 DEF AbortMeant
  <2> QED
    BY <1>2, <1>4, <2>3 DEF RuleInv
<1>5. CASE /\ result # Err /\ ~Breaks(a, ex.fromClient)
           /\ pc' = pc /\ ex'.at = ex.at /\ ex'.served = ex.served /\ ex'.request = result
           /\ ex'.todo = Tail(ex.todo) /\ ex'.fromClient = BodyAfter(a, ex.fromClient)
  <2>1. StillPending(a, ex.fromClient, BodyAfter(a, ex.fromClient))
    <3>1. ~a.abort /\ \A r \in a.replace : BadPath \notin r.path
      BY <1>1, <1>2, <1>3, <1>5, RequestDoesNotFail
    <3> QED
      BY <1>2, <1>5, <3>1
      DEF StillPending, Pending, BodyAfter, Unwanted, Waits, Breaks, ReadsRequestBody, ReadsBody
  <2>2. InRequest(config, stream, ex')
    BY <1>1, <1>2, <1>3, <1>5, <2>1, RequestRuleApplied
  <2>3. pc' = "request"
    BY <1>2, <1>5
  <2> QED
    BY <1>2, <2>2, <2>3 DEF RuleInv
<1> QED
  BY <1>2, <1>4, <1>5

LEMMA ApplyToResponseRules ==
  ASSUME HInv, OrderInv, ConfigInv, RuleInv, ApplyToResponse
  PROVE  RuleInv'
<1> DEFINE a == Head(ex.todo).actions
           result == ApplyResponseAction(ex.response, a)
           next == IF ReplacesBody(a) THEN "whole" ELSE ex.fromTarget
<1>1. a = Head(ex.todo).actions /\ result = ApplyResponseAction(ex.response, a)
  OBVIOUS
<1>2. next = IF ReplacesBody(a) THEN "whole" ELSE ex.fromTarget
  OBVIOUS
<1> HIDE DEF a, result, next
<1>3. /\ pc = "response" /\ ex.todo # <<>> /\ (ReadsBody(a) => ex.fromTarget # "coming")
      /\ UNCHANGED <<config, stream, taken, forwarded, answers>>
      /\ \/ /\ result = Err \/ (ReadsBody(a) /\ ex.fromTarget = "broken")
            /\ pc' = "aborted" /\ ex' = ex
         \/ /\ result # Err /\ ~(ReadsBody(a) /\ ex.fromTarget = "broken")
            /\ pc' = pc /\ ex'.at = ex.at /\ ex'.served = ex.served /\ ex'.request = ex.request
            /\ ex'.response = result /\ ex'.todo = Tail(ex.todo) /\ ex'.fromTarget = next
  BY <1>1, <1>2, ApplyToResponseDoes
<1>4. InResponse(config, stream, ex)
  BY <1>3 DEF RuleInv
<1>5. CASE /\ result = Err \/ (ReadsBody(a) /\ ex.fromTarget = "broken")
           /\ pc' = "aborted" /\ ex' = ex
  <2>1. /\ ex.served # Err
        /\ \/ MeantBack(config, ex.request, ex.served) = Err
           \/ ex.fromTarget = "broken" /\ LooksAtBody(ActsBack(config, ex.request, ex.served))
    BY <1>1, <1>3, <1>4, <1>5, ResponseRuleApplied DEF Pending
  <2>2. AbortMeant(config, stream, ex, Last(taken))
    BY <2>1 DEF AbortMeant
  <2> QED
    BY <1>3, <1>5, <2>2 DEF RuleInv
<1>6. CASE /\ result # Err /\ ~(ReadsBody(a) /\ ex.fromTarget = "broken")
           /\ pc' = pc /\ ex'.at = ex.at /\ ex'.served = ex.served /\ ex'.request = ex.request
           /\ ex'.response = result /\ ex'.todo = Tail(ex.todo) /\ ex'.fromTarget = next
  <2>1. StillPending(a, ex.fromTarget, next)
    <3>1. ~a.abort
      BY <1>1, <1>6 DEF ApplyResponseAction
    <3> QED
      BY <1>2, <1>3, <1>6, <3>1 DEF StillPending, Pending, ReadsBody
  <2>2. InResponse(config, stream, ex')
    BY <1>1, <1>3, <1>4, <1>6, <2>1, ResponseRuleApplied
  <2>3. pc' = "response"
    BY <1>3, <1>6
  <2> QED
    BY <1>3, <2>2, <2>3 DEF RuleInv
<1> QED
  BY <1>3, <1>5, <1>6

\* The target or, in its place, handle has given the response m.
LEMMA ResponseServed ==
  ASSUME ConfigInv, ex.request = MeantFor(config, stream, ex.at),
         UNCHANGED <<config, stream>>, NEW m \in ResponseType, ServedIs(m)
  PROVE  InResponse(config, stream, ex')
<1> DEFINE rules == RulesForResponse(config, ex.request, m)
<1>1. SelectedResponseRules(ex.request, m) = rules /\ TypedRules(rules)
  BY ConfigRulesTyped, RulesOfConfig
<1> HIDE DEF rules
<1>2. /\ ex'.at = ex.at /\ ex'.served = m /\ ex'.request = ex.request
      /\ ex'.response = m /\ ex'.todo = rules
  BY <1>1 DEF ServedIs
<1>3. ResponseUnderWay(rules, ex'.served, ex'.todo, ex'.response, ex'.fromTarget)
  <2>1. \A body : ResponseProgress(rules, m, rules, m, body, 0)
    BY <1>1, ResponseBegins
  <2> QED
    BY <1>2, <2>1 DEF ResponseUnderWay, ResponseProgress
<1>4. rules = RulesForResponse(config, ex'.request, ex'.served)
  BY <1>2 DEF rules
<1> QED
  BY <1>2, <1>3, <1>4 DEF InResponse

LEMMA ForwardRules ==
  ASSUME HInv, OrderInv, ConfigInv, RuleInv, Forward
  PROVE  RuleInv'
<1>1. /\ pc = "request" /\ ex.todo = <<>> /\ InRequest(config, stream, ex)
      /\ UNCHANGED <<config, stream, answers>>
  BY DEF Forward, conf, RuleInv
<1>2. /\ ex.request = MeantFor(config, stream, ex.at)
      /\ Pending(ex.fromClient) => ~ChangesBody(ActsFor(config, stream, ex.at))
  BY <1>1, AllApplied
<1>3. CASE pc' = "wait" /\ ex' = ex /\ forwarded' = Append(forwarded, Forwarding)
  <2>1. ForwardedAs(config, stream, Forwarding)
    BY <1>2 DEF Forwarding, ForwardedAs, Pending
  <2> HIDE DEF Forwarding
  <2>2. ForwardedMeant(config, stream, forwarded')
    BY <1>3, <2>1, AppendOwn DEF OrderInv, RuleInv, ForwardedMeant
  <2> QED
    BY <1>1, <1>2, <1>3, <2>2 DEF RuleInv
<1>4. CASE pc' = "response" /\ NotServed /\ forwarded' = forwarded
  <2>1. ServedIs(BadGateway)
    BY <1>4, ServedDoes DEF HInv
  <2>2. InResponse(config, stream, ex')
    BY <1>1, <1>2, <2>1, ResponseServed, MessageAssumption
  <2> QED
    BY <1>1, <1>4, <2>2 DEF RuleInv
<1> QED
  BY <1>3, <1>4 DEF Forward, Forwarding

LEMMA RefuseHostRules ==
  ASSUME HInv, OrderInv, ConfigInv, RuleInv, RefuseHost
  PROVE  RuleInv'
<1>1. /\ pc = "request" /\ ex.todo = <<>> /\ InRequest(config, stream, ex)
      /\ ~HasAuthority(ex.request) /\ pc' = "aborted"
      /\ UNCHANGED <<config, stream, ex, taken, forwarded, answers>>
  BY DEF RefuseHost, Close, conf, http, RuleInv
<1>2. ex.request = MeantFor(config, stream, ex.at) /\ ex.served = Err
  BY <1>1, AllApplied DEF InRequest
<1>3. Last(taken) = ex.at
  BY <1>1, LastTaken DEF ServePc
<1>4. AbortMeant(config, stream, ex, Last(taken))
  BY <1>1, <1>2, <1>3 DEF AbortMeant
<1> QED
  BY <1>1, <1>4 DEF RuleInv

LEMMA DeliverRules ==
  ASSUME HInv, OrderInv, ConfigInv, RuleInv, Deliver
  PROVE  RuleInv'
<1> DEFINE x == [at |-> ex.at, request |-> ex.request, served |-> ex.served,
                 response |-> ex.response]
<1>1. /\ pc = "response" /\ ex.todo = <<>> /\ InResponse(config, stream, ex)
      /\ pc' \in {"parts", "http", "closed", "drain"}
      /\ UNCHANGED <<config, stream, forwarded>> /\ answers' = Append(answers, x)
  BY DEF Deliver, EndExchange, Close, conf, RuleInv
<1>2. /\ ex.request = MeantFor(config, stream, ex.at)
      /\ ex.response = MeantBack(config, ex.request, ex.served)
  BY <1>1, AllApplied DEF InResponse
<1>3. /\ x.request = MeantFor(config, stream, x.at)
      /\ x.response = MeantBack(config, x.request, x.served)
  BY <1>2
<1> HIDE DEF x
<1>4. AnsweredMeant(config, stream, answers')
  BY <1>1, <1>3, AppendOwn DEF OrderInv, RuleInv, AnsweredMeant
<1> QED
  BY <1>1, <1>4 DEF RuleInv

LEMMA TargetAnswersRules ==
  ASSUME HInv, ConfigInv, RuleInv, TargetAnswers
  PROVE  RuleInv'
<1>1. /\ pc = "wait" /\ pc' = "response"
      /\ UNCHANGED <<config, stream, taken, forwarded, answers>>
  BY DEF TargetAnswers, conf
<1>2. PICK m \in Responses \cup {BadGateway} : ServedIs(m)
  BY ServedDoes DEF TargetAnswers, HInv
<1>3. InResponse(config, stream, ex')
  BY <1>1, <1>2, ResponseServed, MessageAssumption DEF RuleInv
<1> QED
  BY <1>1, <1>3 DEF RuleInv

\* A body that moves.
LEMMA BodyStepRules ==
  ASSUME HInv, RuleInv, ReadBody \/ BodyBreaks \/ TargetSendsBody \/ TargetDropsBody
  PROVE  RuleInv'
<1>1. /\ pc \in ExchangePc /\ UNCHANGED <<pc, config, stream, taken, forwarded, answers>>
      /\ ex'.at = ex.at /\ ex'.request = ex.request /\ ex'.served = ex.served
      /\ ex'.response = ex.response /\ ex'.todo = ex.todo
      /\ Pending(ex'.fromClient) => Pending(ex.fromClient)
      /\ Pending(ex'.fromTarget) => Pending(ex.fromTarget)
  BY BodyStepDoes DEF BodyMoves, Pending
<1>2. InRequest(config, stream, ex) => InRequest(config, stream, ex')
  BY <1>1 DEF InRequest, RequestUnderWay, RequestProgress
<1>3. InResponse(config, stream, ex) => InResponse(config, stream, ex')
  BY <1>1 DEF InResponse, ResponseUnderWay, ResponseProgress
<1>4. pc # "aborted"
  BY <1>1 DEF ExchangePc, ServePc
<1> QED
  BY <1>1, <1>2, <1>3, <1>4 DEF RuleInv

\* Every step keeps the invariant.
LEMMA NextRuleInv ==
  ASSUME HInv, OrderInv, ConfigInv, RuleInv, [Next]_vars
  PROVE  RuleInv'
<1>1. CASE TakeRequest \/ TargetAnswers
  BY <1>1, TakeRequestRules, TargetAnswersRules
<1>2. CASE ReadBody \/ BodyBreaks \/ TargetSendsBody \/ TargetDropsBody
  BY <1>2, BodyStepRules
<1>3. CASE HandleStep
  BY <1>3, ApplyToRequestRules, ForwardRules, RefuseHostRules, ApplyToResponseRules, DeliverRules
  DEF HandleStep
<1>4. CASE HyperStep /\ ~TakeRequest /\ ~ReadBody /\ ~BodyBreaks
  BY <1>4, RulesStill
  DEF HyperStep, TlsAccept, Read, ServeEof, Drained, ResponseBreaksOff, EndExchange, ParseError,
      ServeAgain, Close, http, conf, ServePc
<1>5. CASE RelayStep
  BY <1>5, RulesStill
  DEF RelayStep, BindAndConnect, Replay, RelayToTarget, ShutTarget, RelayToClient, ShutClient,
      RelayEnds, Close, http, conf, ServePc
<1>6. CASE Environment
  BY <1>6, RulesStill
  DEF Environment, ClientSends, ClientCloses, TargetReplies, Cancel, RelayFails, Close, http,
      conf, ServePc
<1>7. CASE TargetCloses \/ UpstreamCloses \/ Ended \/ UNCHANGED vars
  BY <1>7, RulesStill DEF TargetCloses, UpstreamCloses, Ended, vars, http, conf
<1> QED
  BY <1>1, <1>2, <1>3, <1>4, <1>5, <1>6, <1>7 DEF Next, TargetStep, HyperStep

\* No step changes the configuration.
LEMMA NextConfigInv == ConfigInv /\ [Next]_vars => ConfigInv'
<1> SUFFICES ASSUME ConfigInv, [Next]_vars PROVE ConfigInv'
  OBVIOUS
<1>1. config' = config
  BY DEF Next, HyperStep, TlsAccept, Read, ReadBody, BodyBreaks, TakeRequest, ServeEof, Drained,
         ResponseBreaksOff, ParseError, ServeAgain, TargetSendsBody, TargetDropsBody,
         HandleStep, ApplyToRequest, Forward, RefuseHost, ApplyToResponse, Deliver,
         RelayStep, BindAndConnect, Replay, RelayToTarget, ShutTarget, RelayToClient,
         ShutClient, RelayEnds, Environment, ClientSends, ClientCloses, TargetReplies, Cancel,
         RelayFails, TargetStep, TargetAnswers, TargetCloses, UpstreamCloses, Ended, vars, conf
<1> QED
  BY <1>1 DEF ConfigInv

RInv == HInv /\ OrderInv /\ ConfigInv /\ RuleInv

\* The invariant is inductive.
LEMMA RInvInductive ==
  /\ Init => RInv
  /\ RInv /\ [Next]_vars => RInv'
<1>1. Init => RInv
  BY InitHInv, InitOrderInv, InitConfigInv, InitRuleInv DEF RInv
<1>2. RInv /\ [Next]_vars => RInv'
  BY NextHInv, NextOrderInv, NextConfigInv, NextRuleInv DEF RInv
<1> QED
  BY <1>1, <1>2

\* server.rs 232-248, action.rs 48-118: the target receives what the rules that match the
\* original request mean together, whatever the rules, the request and the stream it is in,
\* and never the stream of a body they have a say in.
THEOREM ForwardsAsRuled == Spec => []ForwardedAsRuled
<1>1. RInv => ForwardedAsRuled
  BY RuleInvMeans DEF RInv
<1> QED
  BY <1>1, RInvInductive, PTL DEF Spec

\* server.rs 250-252, 296-328: the client receives what the rules that match the forwarded
\* request and the served response mean together, whatever they are.
THEOREM AnswersAsRuled == Spec => []AnsweredAsRuled
<1>1. RInv => AnsweredAsRuled
  BY RuleInvMeans DEF RInv
<1> QED
  BY <1>1, RInvInductive, PTL DEF Spec

\* server.rs 246, 327, action.rs 53-62: for all rules, a connection is aborted only by rules
\* that mean an error, by rules that look into a body that broke off, or by a Host header that
\* is no authority.
THEOREM AbortsAsRuled == Spec => []AbortedAsRuled
<1>1. RInv => AbortedAsRuled
  BY RuleInvMeans DEF RInv
<1> QED
  BY <1>1, RInvInductive, PTL DEF Spec

----------------------------------------------------------------------------
(* Messages and their lengths.                                             *)

\* A message as far as its body is concerned, and what a handler may return.
Message(m) == {"body", "length"} \subseteq DOMAIN m /\ TrueLength(m)
Result(m)  == m = Err \/ Message(m)

----------------------------------------------------------------------------
(* Rules and the length of a body.                                         *)

LEMMA OtherFieldKept ==
  ASSUME NEW m, Message(m), NEW f, f \notin {"body", "length"}, NEW x
  PROVE  Message([m EXCEPT ![f] = x])
BY DEF Message, TrueLength

LEMMA NewBodyHasNoLength ==
  ASSUME NEW m, Message(m), NEW body
  PROVE  Message(WithBody(m, body))
BY DEF Message, TrueLength, WithBody

LEMMA ReplaceBodyLength ==
  ASSUME NEW m, Message(m), NEW body
  PROVE  Message(ReplaceBody(m, body))
BY NewBodyHasNoLength DEF ReplaceBody

LEMMA ReplaceHeadersLength ==
  ASSUME NEW m, Message(m), NEW headers
  PROVE  Message(ReplaceHeaders(m, headers))
BY OtherFieldKept DEF ReplaceHeaders

LEMMA PatchLength ==
  ASSUME NEW m, Message(m), NEW body, NEW headers
  PROVE  Result(PatchHeaders(PatchBody(m, body), headers))
<1> DEFINE patched == PatchBody(m, body)
<1>1. Result(patched)
  BY NewBodyHasNoLength DEF PatchBody, Result
<1> HIDE DEF patched
<1>2. Result(PatchHeaders(patched, headers))
  BY <1>1, OtherFieldKept DEF PatchHeaders, Result
<1> QED
  BY <1>2 DEF patched

LEMMA ReplaceRequestLength ==
  ASSUME NEW m, Message(m), NEW r
  PROVE  Result(ReplaceRequest(m, r))
<1> DEFINE p == ReplacePath(m, r.path)
           q == [p EXCEPT !.method = UnwrapOr(r.method, @)]
           b == ReplaceBody(q, r.body)
           u == ReplaceQueries(b, r.queries)
<1>1. Message(p)
  BY OtherFieldKept DEF ReplacePath
<1> HIDE DEF p
<1>2. Message(q)
  BY <1>1, OtherFieldKept
<1> HIDE DEF q
<1>3. Message(b)
  BY <1>2, ReplaceBodyLength
<1> HIDE DEF b
<1>4. Message(u)
  BY <1>3, OtherFieldKept DEF ReplaceQueries
<1> HIDE DEF u
<1>5. Message(ReplaceHeaders(u, r.headers))
  BY <1>4, ReplaceHeadersLength
<1> QED
  BY <1>5 DEF ReplaceRequest, Result, u, b, q, p

LEMMA PatchRequestLength ==
  ASSUME NEW m, Message(m), NEW p
  PROVE  Result(PatchRequest(m, p))
<1> DEFINE q == AppendQueries(m, p.queries)
<1>1. Message(q)
  BY OtherFieldKept DEF AppendQueries
<1> HIDE DEF q
<1>2. Result(PatchHeaders(PatchBody(q, p.body), p.headers))
  BY <1>1, PatchLength
<1> QED
  BY <1>2 DEF PatchRequest, q

LEMMA RequestActionLength ==
  ASSUME NEW m, Message(m), NEW a
  PROVE  Result(ApplyRequestAction(m, a))
<1> DEFINE replaced == IF a.replace = {} THEN m ELSE ReplaceRequest(m, The(a.replace))
           patched  == IF a.patch = {} THEN replaced ELSE PatchRequest(replaced, The(a.patch))
<1>1. Result(replaced)
  BY ReplaceRequestLength DEF Result
<1> HIDE DEF replaced
<1>2. replaced # Err => Result(patched)
  BY <1>1, PatchRequestLength DEF Result
<1> HIDE DEF patched
<1>3. ApplyRequestAction(m, a) = IF a.abort \/ replaced = Err THEN Err ELSE patched
  BY DEF ApplyRequestAction, replaced, patched
<1> QED
  BY <1>2, <1>3 DEF Result

LEMMA ResponseActionLength ==
  ASSUME NEW m, Message(m), NEW a
  PROVE  Result(ApplyResponseAction(m, a))
<1> DEFINE replaced == IF a.replace = {} THEN m ELSE ReplaceResponse(m, The(a.replace))
           patched  == IF a.patch = {} THEN replaced ELSE PatchResponse(replaced, The(a.patch))
<1>1. ASSUME NEW r PROVE Message(ReplaceResponse(m, r))
  <2> DEFINE c == [m EXCEPT !.code = UnwrapOr(r.code, @)]
             b == ReplaceBody(c, r.body)
  <2>1. Message(c)
    BY OtherFieldKept
  <2> HIDE DEF c
  <2>2. Message(b)
    BY <2>1, ReplaceBodyLength
  <2> HIDE DEF b
  <2>3. Message(ReplaceHeaders(b, r.headers))
    BY <2>2, ReplaceHeadersLength
  <2> QED
    BY <2>3 DEF ReplaceResponse, b, c
<1>2. Message(replaced)
  BY <1>1
<1> HIDE DEF replaced
<1>3. Result(patched)
  BY <1>2, PatchLength DEF PatchResponse, Result
<1> HIDE DEF patched
<1>4. ApplyResponseAction(m, a) = IF a.abort THEN Err ELSE patched
  BY DEF ApplyResponseAction, replaced, patched
<1> QED
  BY <1>3, <1>4 DEF Result

----------------------------------------------------------------------------
(* The length of every body: the invariant.                                *)

\* The messages rules are working on, and those that went out, as far as they
\* came with the length of their body.
LengthInv ==
  /\ pc = "request" /\ TrueLength(stream[ex.at].request) => Message(ex.request)
  /\ pc = "response" /\ TrueLength(ex.served) => Message(ex.response)
  /\ \A i \in DOMAIN forwarded :
       TrueLength(stream[forwarded[i].at].request) => Message(forwarded[i].request)
  /\ \A i \in DOMAIN answers : TrueLength(answers[i].served) => Message(answers[i].response)

LEMMA TakeRequestLength ==
  ASSUME HInv, LengthInv, TakeRequest
  PROVE  LengthInv'
<1> DEFINE request == stream[base + 1].request
           todo == SelectedRequestRules(request)
           body == IF Kind(base + 1) = "head" THEN "coming" ELSE "whole"
<1>1. /\ pc' = "request" /\ UNCHANGED <<stream, forwarded, answers>>
      /\ ex' = [NoExchange EXCEPT !.at = base + 1, !.request = request, !.todo = todo,
                                  !.fromClient = body]
  BY DEF TakeRequest, conf
<1>2. base + 1 \in DOMAIN stream
  <2>1. stream \in Seq(ToSet(stream)) /\ stream \in Streams
    BY ConnectionAssumption DEF HInv, TypeOK
  <2>2. base < read
    BY DEF TakeRequest, Complete
  <2> QED
    BY <2>1, <2>2, Lengths DEF HInv, TypeOK
<1>3. stream \in Streams /\ stream[base + 1] \in ToSet(stream)
  BY <1>2 DEF HInv, TypeOK, ToSet
<1>4. stream[base + 1].kind \in {"request", "start", "head"}
  BY DEF TakeRequest, Complete, Kind
<1>5. TrueLength(request) => Message(request)
  BY <1>3, <1>4, MessageAssumption DEF Message, RequestType
<1>6. request = stream[base + 1].request
  OBVIOUS
<1> HIDE DEF request, todo, body
<1>7. ex'.request = request /\ ex'.at = base + 1
  BY <1>1 DEF NoExchange
<1> QED
  BY <1>1, <1>5, <1>6, <1>7 DEF LengthInv

LEMMA ApplyLength ==
  ASSUME HInv, LengthInv, ApplyToRequest \/ ApplyToResponse
  PROVE  LengthInv'
<1> DEFINE a == Head(ex.todo).actions
<1>1. CASE ApplyToRequest
  <2> DEFINE result == ApplyRequestAction(ex.request, a)
  <2>1. a = Head(ex.todo).actions /\ result = ApplyRequestAction(ex.request, a)
    OBVIOUS
  <2> HIDE DEF a, result
  <2>2. /\ pc = "request" /\ UNCHANGED <<stream, forwarded, answers>>
        /\ \/ pc' = "aborted"
           \/ result # Err /\ pc' = pc /\ ex'.at = ex.at /\ ex'.request = result
    BY <1>1, <2>1, ApplyToRequestDoes
  <2>3. TrueLength(stream[ex.at].request) => Result(result)
    BY <2>1, <2>2, RequestActionLength DEF LengthInv
  <2> QED
    BY <2>2, <2>3 DEF LengthInv, Result
<1>2. CASE ApplyToResponse
  <2> DEFINE result == ApplyResponseAction(ex.response, a)
  <2>1. a = Head(ex.todo).actions /\ result = ApplyResponseAction(ex.response, a)
    OBVIOUS
  <2> HIDE DEF a, result
  <2>2. /\ pc = "response" /\ UNCHANGED <<stream, forwarded, answers>>
        /\ \/ pc' = "aborted"
           \/ result # Err /\ pc' = pc /\ ex'.served = ex.served /\ ex'.response = result
    BY <1>2, <2>1, ApplyToResponseDoes
  <2>3. TrueLength(ex.served) => Result(result)
    BY <2>1, <2>2, ResponseActionLength DEF LengthInv
  <2> QED
    BY <2>2, <2>3 DEF LengthInv, Result
<1> QED
  BY <1>1, <1>2

\* A response that is served is one that came, or the 502.
LEMMA ServedLength ==
  ASSUME NEW m \in Responses \cup {BadGateway}, ServedIs(m)
  PROVE  TrueLength(ex'.served) => Message(ex'.response)
<1>1. m \in ResponseType
  BY MessageAssumption
<1> QED
  BY <1>1 DEF ServedIs, Message, ResponseType

LEMMA ForwardLength ==
  ASSUME HInv, OrderInv, LengthInv, Forward
  PROVE  LengthInv'
<1>1. pc = "request" /\ UNCHANGED <<stream, answers>>
  BY DEF Forward, conf
<1>2. CASE pc' = "wait" /\ forwarded' = Append(forwarded, Forwarding)
  <2>1. TrueLength(stream[Forwarding.at].request) => Message(Forwarding.request)
    BY <1>1 DEF LengthInv, Forwarding
  <2> HIDE DEF Forwarding
  <2>2. \A i \in DOMAIN forwarded' :
          TrueLength(stream[forwarded'[i].at].request) => Message(forwarded'[i].request)
    BY <1>2, <2>1, AppendOwn DEF OrderInv, LengthInv
  <2> QED
    BY <1>1, <1>2, <2>2 DEF LengthInv
<1>3. CASE NotServed /\ pc' = "response" /\ forwarded' = forwarded
  <2>1. ServedIs(BadGateway)
    BY <1>3, ServedDoes DEF HInv
  <2> QED
    BY <1>1, <1>3, <2>1, ServedLength DEF LengthInv
<1> QED
  BY <1>2, <1>3 DEF Forward, Forwarding

LEMMA DeliverLength ==
  ASSUME OrderInv, LengthInv, Deliver
  PROVE  LengthInv'
<1> DEFINE x == [at |-> ex.at, request |-> ex.request, served |-> ex.served,
                 response |-> ex.response]
<1>1. /\ pc = "response" /\ pc' \in {"parts", "http", "closed", "drain"}
      /\ UNCHANGED <<stream, forwarded>> /\ answers' = Append(answers, x)
      /\ x.response = ex.response /\ x.served = ex.served
  BY DEF Deliver, EndExchange, Close, conf
<1> HIDE DEF x
<1>2. TrueLength(x.served) => Message(x.response)
  BY <1>1 DEF LengthInv
<1>3. \A i \in DOMAIN answers' :
        answers'[i] = x \/ \E j \in DOMAIN answers : answers'[i] = answers[j]
  BY <1>1, AppendOwn DEF OrderInv
<1>4. \A i \in DOMAIN answers' : TrueLength(answers'[i].served) => Message(answers'[i].response)
  BY <1>2, <1>3 DEF LengthInv
<1> QED
  BY <1>1, <1>4 DEF LengthInv

LEMMA NextLengthInv ==
  ASSUME HInv, OrderInv, LengthInv, [Next]_vars
  PROVE  LengthInv'
<1>1. CASE TakeRequest \/ ApplyToRequest \/ ApplyToResponse \/ Forward \/ Deliver
  BY <1>1, TakeRequestLength, ApplyLength, ForwardLength, DeliverLength
<1>2. CASE TargetAnswers
  <2>1. pc' = "response" /\ UNCHANGED <<stream, forwarded, answers>>
    BY <1>2 DEF TargetAnswers, conf
  <2>2. \E m \in Responses \cup {BadGateway} : ServedIs(m)
    BY <1>2, ServedDoes DEF TargetAnswers, HInv
  <2>3. TrueLength(ex'.served) => Message(ex'.response)
    BY <2>2, ServedLength
  <2> QED
    BY <2>1, <2>3 DEF LengthInv
<1>3. ASSUME UNCHANGED <<stream, forwarded, answers>>,
             pc' \in {"request", "response"} =>
               /\ pc' = pc /\ ex'.at = ex.at /\ ex'.request = ex.request
               /\ ex'.served = ex.served /\ ex'.response = ex.response
      PROVE  LengthInv'
  BY <1>3 DEF LengthInv
<1>4. CASE ReadBody \/ BodyBreaks \/ TargetSendsBody \/ TargetDropsBody
  BY <1>3, <1>4, BodyStepDoes DEF BodyMoves
<1>5. CASE HyperStep /\ ~TakeRequest /\ ~ReadBody /\ ~BodyBreaks
  BY <1>3, <1>5 DEF HyperStep, TlsAccept, Read, ServeEof, Drained, ResponseBreaksOff, EndExchange,
                    ParseError, ServeAgain, Close, http, conf
<1>6. CASE RefuseHost
  BY <1>3, <1>6 DEF RefuseHost, Close, http, conf
<1>7. CASE RelayStep
  BY <1>3, <1>7 DEF RelayStep, BindAndConnect, Replay, RelayToTarget, ShutTarget, RelayToClient,
                ShutClient, RelayEnds, Close, http, conf
<1>8. CASE Environment
  BY <1>3, <1>8 DEF Environment, ClientSends, ClientCloses, TargetReplies, Cancel, RelayFails,
                Close, http, conf
<1>9. CASE TargetCloses \/ UpstreamCloses \/ Ended \/ UNCHANGED vars
  BY <1>3, <1>9 DEF TargetCloses, UpstreamCloses, Ended, vars, http, conf
<1> QED
  BY <1>1, <1>2, <1>4, <1>5, <1>6, <1>7, <1>8, <1>9 DEF Next, HyperStep, HandleStep, TargetStep

\* server.rs 232-330, action.rs 90-118, 223-244: whatever sequence of rules has
\* changed a request or a response that came with the length of its body, for
\* every stream and all rules, it goes out with no Content-Length or with that of
\* its body.
THEOREM LengthsAreTrue == Spec => []LengthTrue
<1>1. Init => LengthInv
  BY DEF Init, LengthInv
<1>2. HInv /\ HInv' /\ OrderInv /\ LengthInv /\ [Next]_vars => LengthInv'
  BY NextLengthInv
<1>3. LengthInv => LengthTrue
  BY DEF LengthInv, LengthTrue, Message
<1>4. HInv /\ OrderInv /\ [Next]_vars => OrderInv'
  BY NextOrderInv
<1>5. HInv /\ [Next]_vars => HInv'
  BY NextHInv
<1> QED
  BY <1>1, <1>2, <1>3, <1>4, <1>5, InitHInv, InitOrderInv, PTL DEF Spec
=============================================================================
