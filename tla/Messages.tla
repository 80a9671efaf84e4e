------------------------------ MODULE Messages ------------------------------
(***************************************************************************)
(* The two functions at the system's outer boundary: the adapters'         *)
(* Message-Translator with the transport bindings in front of it           *)
(* (packages/adapters/src/mapping.ts, bindings.ts), and the notifications' *)
(* templating (packages/notifications/src/templating.ts).  Either raises   *)
(* or returns a message; a step of this module is one call.                *)
(*                                                                         *)
(* A JSON document is held by reference, as the code holds it: the heap is *)
(* the sequence of all objects, an object is a function from the names of  *)
(* its members to values, and a value is an atom or the place of an object *)
(* in the heap.  Two documents may share an object, and writing into it    *)
(* shows in both.  Arrays and null are left out.  A fragment of text is    *)
(* the set of its placeholders, and a substituted one the value put for    *)
(* each.                                                                   *)
(***************************************************************************)
EXTENDS Integers, Sequences, Functions

CONSTANTS Tokens,        \* the names of members, of which a path is made
          Strings,       \* atoms: the non-empty strings,
          Numbers,       \*   the numbers,
          AsNumber,      \*   what Number() makes of the strings that read as one
          Undefined,     \* what a path that leads nowhere leads to
          NoPointer,     \* a rule without "from"
          NoText,        \* a text without a subject
          Error          \* MappingError, RenderError

Atoms == Strings \union Numbers

ASSUME MessagesAssumption ==
  /\ {"_headers", "_query"} \subseteq Tokens
  /\ Atoms \intersect Nat = {} /\ Undefined \notin Atoms \union Nat
  /\ AsNumber \in [DOMAIN AsNumber -> Numbers] /\ DOMAIN AsNumber \subseteq Strings
  /\ NoPointer \notin Seq(Tokens) /\ Error \notin [keys : Seq(Strings), payload : Nat]

VARIABLES input,    \* the arguments of the call
          result    \* its answer, {} before it

mvars == <<input, result>>

-----------------------------------------------------------------------------
(* The heap.                                                               *)

\* Member t of value v: only an object has members.
Member(heap, v, t) ==
  IF v \in DOMAIN heap /\ t \in DOMAIN heap[v] THEN heap[v][t] ELSE Undefined

NewObject == [t \in {} |-> Undefined]

Put(heap, object, t, v) ==
  [heap EXCEPT ![object] = [x \in DOMAIN @ \union {t} |-> IF x = t THEN v ELSE @[x]]]

-----------------------------------------------------------------------------
(* mapping.ts *)

\* resolvePointer: the value the pointer leads to, itself and no copy of it.
ResolvePointer(heap, doc, pointer) ==
  LET current[n \in 0..Len(pointer)] ==
        IF n = 0 THEN doc ELSE Member(heap, current[n - 1], pointer[n])
  IN  current[Len(pointer)]

\* One token of setDotted's way: into the object that is there, whosever it is, or
\* else into a new one put there.
Descend(walk, t) ==
  LET next == Member(walk.heap, walk.node, t)
      new  == Len(walk.heap) + 1
  IN  IF next \in DOMAIN walk.heap THEN [heap |-> walk.heap, node |-> next]
      ELSE [heap |-> Append(Put(walk.heap, walk.node, t, new), NewObject), node |-> new]

\* setDotted: the heap with value at the path from target.
SetDotted(heap, target, path, value) ==
  LET walk[n \in 0..(Len(path) - 1)] ==
        IF n = 0 THEN [heap |-> heap, node |-> target] ELSE Descend(walk[n - 1], path[n])
      end == walk[Len(path) - 1]
  IN  Put(end.heap, end.node, path[Len(path)], value)

\* An optional source is missing: the rule writes nothing.
RuleSkips(rule, heap, wire) ==
  /\ rule.operation # "constant"
  /\ rule.from # NoPointer
  /\ rule.optional
  /\ ResolvePointer(heap, wire, rule.from) = Undefined

RuleRaises(rule, heap, wire) ==
  /\ rule.operation # "constant"
  /\ \/ rule.from = NoPointer
     \/ LET raw == ResolvePointer(heap, wire, rule.from) IN
        \/ raw = Undefined /\ ~rule.optional
        \/ /\ rule.operation = "copyNumber"
           /\ raw \notin {Undefined} \union Numbers \union DOMAIN AsNumber

\* The value a rule writes: the literal of the mapping itself, a number, or what is
\* in the wire message.
RuleValue(rule, heap, wire) ==
  IF rule.operation = "constant" THEN rule.value
  ELSE LET raw == ResolvePointer(heap, wire, rule.from) IN
       IF rule.operation = "copyNumber" /\ raw \in DOMAIN AsNumber THEN AsNumber[raw] ELSE raw

\* The next rule of a translation that got to `so'.
ApplyRule(rule, wire, payload, so) ==
  IF so.raised \/ RuleRaises(rule, so.heap, wire) THEN [so EXCEPT !.raised = TRUE]
  ELSE IF RuleSkips(rule, so.heap, wire) THEN so
  ELSE [so EXCEPT !.heap = SetDotted(so.heap, payload, rule.to,
                                     RuleValue(rule, so.heap, wire))]

\* The rules in their order, into a payload that is a new object.
Applied(rules, heap, wire) ==
  LET after[n \in 0..Len(rules)] ==
        IF n = 0 THEN [heap |-> Append(heap, NewObject), raised |-> FALSE]
        ELSE ApplyRule(rules[n], wire, Len(heap) + 1, after[n - 1])
  IN  after[Len(rules)]

\* requireString, for messageIdFrom, correlationFrom and caseIdFrom.
KeyRaises(pointer, heap, wire) == ResolvePointer(heap, wire, pointer) \notin Strings

\* translate: the envelope, or Error, and what has become of the heap.
Translation(mapping, heap, wire) ==
  LET applied == Applied(mapping.rules, heap, wire) IN
  [heap     |-> applied.heap,
   envelope |-> IF \/ applied.raised
                   \/ \E k \in Range(mapping.keys) : KeyRaises(k, applied.heap, wire)
                THEN Error
                ELSE [keys    |-> [i \in DOMAIN mapping.keys |->
                                     ResolvePointer(applied.heap, wire, mapping.keys[i])],
                      payload |-> Len(heap) + 1]]

-----------------------------------------------------------------------------
(* bindings.ts *)

EnvelopeKey == [broker |-> "_headers", webhook |-> "_query"]

\* frameFor: the wire message as a frame of the transport, its headers or query,
\* if need be none, beside a body without them.
FrameFor(protocol, heap, wire) ==
  IF protocol = "rest" THEN [heap |-> heap, body |-> wire]
  ELSE LET key  == EnvelopeKey[protocol]
           at   == Member(heap, wire, key)
           body == Append(heap, Restrict(heap[wire], DOMAIN heap[wire] \ {key}))
       IN  IF at = Undefined
           THEN [heap |-> Append(body, NewObject), body |-> Len(heap) + 1,
                 envelope |-> Len(heap) + 2]
           ELSE [heap |-> body, body |-> Len(heap) + 1, envelope |-> at]

DecodeBare(protocol, frame) ==              \* mutant: headers and query are dropped
  Append(frame.heap, frame.heap[frame.body])

\* decode: a new message with the members of the body, and the headers or the query
\* under their key.
Decode(protocol, frame) ==
  LET copy == Append(frame.heap, frame.heap[frame.body]) IN
  IF protocol = "rest" THEN copy
  ELSE Put(copy, Len(copy), EnvelopeKey[protocol], frame.envelope)

-----------------------------------------------------------------------------
(* templating.ts *)

\* substitute: every placeholder declared and supplied, or it raises.
SubstituteRaises(refs, params, declared) == ~(refs \subseteq declared \intersect DOMAIN params)

HasSubject(template, text) == template.channel = "email" /\ text.subject # NoText

Rendering(template, request) ==
  LET text == template.text[request.locale]
      bad(refs) == SubstituteRaises(refs, request.params, template.params)
  IN  IF \/ request.locale \notin DOMAIN template.text
         \/ ~(DOMAIN request.params \subseteq template.params)
         \/ bad(text.body)
         \/ HasSubject(template, text) /\ bad(text.subject)
      THEN Error
      ELSE [channel |-> template.channel,
            body    |-> Restrict(request.params, text.body),
            subject |-> IF HasSubject(template, text)
                        THEN Restrict(request.params, text.subject) ELSE NoText]

-----------------------------------------------------------------------------

\* A round trip of runAdapters: the message is translated as it is and, unless that
\* raises, through the transport, by the same mapping.
RoundTrip(mapping, heap, wire, protocol) ==
  LET direct  == Translation(mapping, heap, wire)
      decoded == Decode(protocol, FrameFor(protocol, direct.heap, wire))
      framed  == Translation(mapping, decoded, Len(decoded))
  IN  IF direct.envelope = Error THEN [heap |-> direct.heap, direct |-> Error]
      ELSE [heap |-> framed.heap, direct |-> direct.envelope, framed |-> framed.envelope]

Translate ==
  /\ input.of = "translate" /\ result = {}
  /\ result' = {RoundTrip(input.mapping, input.heap, input.wire, input.protocol)}
  /\ UNCHANGED input

Render ==
  /\ input.of = "render" /\ result = {}
  /\ result' = {Rendering(input.template, input.request)}
  /\ UNCHANGED input

MessagesNext == Translate \/ Render

\* Objects whose members are atoms and objects of the heap.
IsHeap(heap) ==
  /\ heap \in Seq(Range(heap))
  /\ \A o \in DOMAIN heap : \A t \in DOMAIN heap[o] : heap[o][t] \in Atoms \union DOMAIN heap

\* The arguments have their types: a wire message is an object, a constant rule has
\* its literal, and a rule writes somewhere inside the payload.
WellTyped(call) ==
  call.of = "translate" =>
    /\ call.protocol \in {"rest", "broker", "webhook"}
    /\ IsHeap(call.heap) /\ call.wire \in DOMAIN call.heap
    /\ Len(call.mapping.rules) \in Nat
    /\ \A i \in 1..Len(call.mapping.rules) :
         LET rule == call.mapping.rules[i] IN
         /\ rule.to \in Seq(Tokens) \ {<<>>} /\ rule.from \in Seq(Tokens) \union {NoPointer}
         /\ rule.operation = "constant" => rule.value \in Atoms \union DOMAIN call.heap
    /\ call.mapping.keys \in Seq(Seq(Tokens))

MessagesInit == WellTyped(input) /\ result = {}

MessagesSpec == MessagesInit /\ [][MessagesNext]_mvars

-----------------------------------------------------------------------------
(* Properties.                                                             *)

Extends(path, prefix) ==
  Len(prefix) <= Len(path) /\ SubSeq(path, 1, Len(prefix)) = prefix

Clash(p, q) == Extends(p, q) \/ Extends(q, p)

\* Rule i of the mapping writes into the payload of the message.
Writes(rules, i, heap, wire) ==
  /\ i \in 1..Len(rules)
  /\ ~RuleSkips(rules[i], heap, wire) /\ ~RuleRaises(rules[i], heap, wire)

\* Some rule writes beneath where an earlier one put an object, of the message or of
\* the mapping: it writes into that object.
WritesThrough(rules, heap, wire) ==
  \E i, j \in 1..Len(rules) :
    /\ i < j /\ Writes(rules, i, heap, wire) /\ Writes(rules, j, heap, wire)
    /\ RuleValue(rules[i], heap, wire) \in DOMAIN heap
    /\ rules[j].to # rules[i].to /\ Extends(rules[j].to, rules[i].to)

\* The mapping copies the transport's headers or query as a whole, or the whole
\* message, from a message that has none: the frame gives it an empty one.
SeesTheFrame(rules, heap, wire, protocol) ==
  /\ protocol # "rest"
  /\ Member(heap, wire, EnvelopeKey[protocol]) = Undefined
  /\ \E i \in 1..Len(rules) : rules[i].from \in {<<>>, <<EnvelopeKey[protocol]>>}

\* The same value, or objects with the same members.
Alike(heap, u, v) ==
  \/ u = v
  \/ /\ {u, v} \subseteq DOMAIN heap
     /\ \A t \in Tokens : Member(heap, u, t) = Member(heap, v, t)

\* What the rules make of the message is in the payload: what no rule that clashes
\* comes after has its value there, and what no rule writes is not there.
Carries(heap, payload, rules, source, wire) ==
  \A i \in 1..Len(rules) :
    LET at == ResolvePointer(heap, payload, rules[i].to)
        clashing == {j \in 1..Len(rules) : /\ Writes(rules, j, source, wire)
                                            /\ Clash(rules[i].to, rules[j].to)}
    IN  /\ clashing = {} => at = Undefined
        /\ i \in clashing /\ (\A j \in clashing : j <= i) =>
             Alike(heap, at, RuleValue(rules[i], source, wire))

\* A translated message is whole, and the translation leaves the wire message and the
\* mapping as they were, so that it comes out the same the next time and through
\* whatever transport (translate, decode).  All this only if no rule writes through
\* another: else it is false (TranslatePure).
TranslatedWhole(answer) ==
  LET rules == input.mapping.rules  source == input.heap  wire == input.wire IN
  /\ ~WritesThrough(rules, source, wire) /\ ~SeesTheFrame(rules, source, wire, input.protocol)
  => /\ \A o \in DOMAIN source : answer.heap[o] = source[o]
     /\ answer.direct # Error =>
          /\ answer.framed # Error /\ answer.framed.keys = answer.direct.keys
          /\ \A envelope \in {answer.direct, answer.framed} :
               Carries(answer.heap, envelope.payload, rules, source, wire)

\* A rendered message has the supplied value for each placeholder of the body and of
\* an email's subject, and was supplied with no unknown parameter (render).
RenderedWhole(answer) ==
  answer # Error =>
    LET text == input.template.text[input.request.locale]
        refs == text.body \union (IF answer.subject = NoText THEN {} ELSE text.subject)
        filled(r) == r \in DOMAIN answer.body \/ r \in DOMAIN answer.subject
    IN  /\ refs \union DOMAIN input.request.params \subseteq input.template.params
        /\ \A r \in refs : filled(r)
        /\ answer.channel = "sms" => answer.subject = NoText

\* A message is made whole or not at all, and of nothing but what went into it: by the
\* translation, and by the rendering.
NothingHalfMade ==
  \A answer \in result :
    /\ input.of = "translate" => TranslatedWhole(answer)
    /\ input.of = "render" => RenderedWhole(answer)

\* "The declarative, pure function ...: no I/O, no cross-message state"
\* (packages/adapters/src/mapping.ts:5): a translation writes neither into the wire
\* message nor into the mapping.
TranslatePure ==
  input.of = "translate" =>
    \A answer \in result : \A o \in DOMAIN input.heap : answer.heap[o] = input.heap[o]
=============================================================================
