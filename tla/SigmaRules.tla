----------------------------- MODULE SigmaRules -----------------------------
(* Sigma rules: the condition parser, the compilation of detection blocks   *)
(* into a selection tree, the matcher that evaluates a selection over an    *)
(* event, and the export of a selection back to Sigma.                      *)
(* A value is [t, s]: its type and its text.  A predicate on a field is a   *)
(* scalar, or a set of [op, vals] (an operator map).  A selection is a flat *)
(* map from fields to predicates, or any_of, all_of, not.                   *)
EXTENDS Naturals, Sequences, FiniteSets, SequencesExt

VARIABLES rule,      \* [det, cond, category]: blocks, condition tree, logsource category
          stage,     \* "given", "refused", "compiled", "exported", "reimported"
          selection, \* the compiled selection
          exported   \* [blocks, tokens] of the exported rule

vars == <<rule, stage, selection, exported>>

Str(x) == [t |-> "str", s |-> x]
Null == [t |-> "null", s |-> "None"]
Int5 == [t |-> "int", s |-> "5"]
Docs == {[f |-> x, g |-> y, category |-> c] :
            x \in {Null, Str("a"), Str("b"), Str("ab"), Str("ba"), Int5, Str("5")},
            y \in {Null, Str("a")}, c \in {Str("process"), Str("network")}}

----------------------------------------------------------------------------
\* detection._match_operator.  An operator is [base, quant, neg]; text is ""
\* for a missing field, and str(None) is "None".
Text(v) == IF v = Null THEN "" ELSE v.s
Longer == {<<"ab", "a">>, <<"ba", "a">>, <<"ab", "b">>, <<"ba", "b">>}
Has(text, x) == text = x \/ <<text, x>> \in Longer
Test(base, v, x) ==
    CASE base \in {"contains", "regex"} -> Has(Text(v), x.s)
      [] base = "startswith" -> Text(v) = x.s \/ <<Text(v), x.s>> \in {<<"ab", "a">>, <<"ba", "b">>}
      [] base = "endswith"   -> Text(v) = x.s \/ <<Text(v), x.s>> \in {<<"ab", "b">>, <<"ba", "a">>}
      [] base = "equals"     -> Text(v) = x.s
      [] base = "in"         -> v = x
      [] base = "exists"     -> (v # Null) = (x.s = "true")

MatchOperator(v, o) ==
    (IF o.op.quant = "all" THEN \A x \in o.vals : Test(o.op.base, v, x)
                           ELSE \E x \in o.vals : Test(o.op.base, v, x)) # o.op.neg

\* A scalar or a list compares typed values; an empty operator map is no match.
MatchPredicate(v, p) ==
    CASE p.kind = "scalar" -> v = p.v
      [] p.kind = "ops"    -> p.ops # {} /\ \A o \in p.ops : MatchOperator(v, o)

RECURSIVE MatchesSelection(_, _)
MatchesSelection(doc, sel) ==
    CASE sel.kind = "flat" -> \A f \in DOMAIN sel.m : MatchPredicate(doc[f], sel.m[f])
      [] sel.kind = "any"  -> \E i \in DOMAIN sel.xs : MatchesSelection(doc, sel.xs[i])
      [] sel.kind = "all"  -> \A i \in DOMAIN sel.xs : MatchesSelection(doc, sel.xs[i])
      [] sel.kind = "not"  -> ~MatchesSelection(doc, sel.x)

----------------------------------------------------------------------------
\* Compiling: what a field item <<field, modifier, values>> becomes.
Op(base, quant) == [base |-> base, quant |-> quant, neg |-> FALSE]
Ops(o, vals) == [kind |-> "ops", ops |-> {[op |-> o, vals |-> vals]}]
Scalar(v) == [kind |-> "scalar", v |-> v]
The(S) == CHOOSE x \in S : TRUE
Many(vals) == Cardinality(vals) > 1

MapFieldValue(modifier, vals) ==
    CASE modifier \in {"contains", "startswith", "endswith"} ->
            Ops(Op(modifier, IF Many(vals) THEN "any" ELSE "one"), vals)
      [] modifier \in {"contains_all", "startswith_all", "endswith_all"} ->
            Ops(Op(CASE modifier = "contains_all" -> "contains"
                     [] modifier = "startswith_all" -> "startswith"
                     [] modifier = "endswith_all" -> "endswith", "all"), vals)
      [] modifier = "re" -> Ops(Op("regex", "one"), vals)
      [] modifier = "exists" -> Ops(Op("exists", "one"), vals)
      [] modifier = "plain" -> IF Many(vals) THEN Ops(Op("in", "any"), vals)
                                             ELSE Scalar(The(vals))

Flat(m) == [kind |-> "flat", m |-> m]

\* selection[field] = ...: a later item on the same field replaces the earlier.
SigmaFieldsToSelection(items) ==
    Flat([f \in {items[i].field : i \in DOMAIN items} |->
            LET last == CHOOSE i \in DOMAIN items :
                            items[i].field = f /\ \A j \in DOMAIN items :
                                items[j].field = f => j <= i
            IN  MapFieldValue(items[last].modifier, items[last].vals)])

\* A SigmaParseError raised inside a condition abandons the whole rule.
ParseError == [kind |-> "error"]
Fails(parts) == \E i \in DOMAIN parts : parts[i] = ParseError

Flatten(kind, parts) ==
    FoldLeft(LAMBDA acc, p : acc \o (IF p.kind = kind THEN p.xs ELSE <<p>>), <<>>, parts)

SelectionAny(parts) ==
    LET flat == Flatten("any", parts)
    IN  IF Fails(parts) THEN ParseError
        ELSE IF Len(flat) = 1 THEN flat[1] ELSE [kind |-> "any", xs |-> flat]

\* _merge_selection_predicate: two predicates on one field become one operator
\* map, a scalar turning into `equals`; one operator twice cannot be merged.
AsOps(p) == IF p.kind = "ops" THEN p.ops
            ELSE {[op |-> Op("equals", "one"), vals |-> {p.v}]}
OpNames(p) == {o.op : o \in AsOps(p)}
Clash(a, b) == \E f \in DOMAIN a \cap DOMAIN b : OpNames(a[f]) \cap OpNames(b[f]) # {}
LaterWins(a, b) ==  \* mutant: one predicate replaces the other
    [f \in DOMAIN a \cup DOMAIN b |-> IF f \in DOMAIN b THEN b[f] ELSE a[f]]
MergePredicates(a, b) ==
    [f \in DOMAIN a \cup DOMAIN b |->
        IF f \notin DOMAIN b THEN a[f] ELSE IF f \notin DOMAIN a THEN b[f]
        ELSE [kind |-> "ops", ops |-> AsOps(a[f]) \cup AsOps(b[f])]]

SelectionAll(parts) ==
    LET flat == Flatten("all", parts)
        step(acc, p) == IF acc = <<>> \/ Clash(acc[1], p.m) THEN <<>>
                        ELSE <<MergePredicates(acc[1], p.m)>>
        merged == FoldLeft(step, <<[f \in {} |-> 0]>>, flat)
    IN  CASE Fails(parts) -> ParseError
          [] ~Fails(parts) /\ Len(flat) = 1 -> flat[1]
          [] ~Fails(parts) /\ Len(flat) # 1 /\ (\A i \in DOMAIN flat : flat[i].kind = "flat") /\ merged # <<>> ->
                Flat(merged[1])
          [] OTHER -> [kind |-> "all", xs |-> flat]

\* Only a one-operator predicate can be negated in place; a scalar becomes
\* not_equals, which compares text.  Several operators are refused.
NegateExpected(p) ==
    IF p.kind = "scalar"
    THEN Ops([base |-> "equals", quant |-> "one", neg |-> TRUE], {p.v})
    ELSE LET o == The(p.ops)
         IN  IF o.op.base = "exists"
             THEN Ops(o.op, {Str(IF The(o.vals).s = "true" THEN "false" ELSE "true")})
             ELSE Ops([o.op EXCEPT !.neg = ~@], o.vals)

SelectionNot(sel) ==
    IF sel = ParseError THEN ParseError
    ELSE IF sel.kind = "not" THEN sel.x
    ELSE IF sel.kind = "flat" /\ Cardinality(DOMAIN sel.m) = 1
    THEN IF \E f \in DOMAIN sel.m : sel.m[f].kind = "ops" /\ Cardinality(sel.m[f].ops) # 1
         THEN ParseError
         ELSE Flat([f \in DOMAIN sel.m |-> NegateExpected(sel.m[f])])
    ELSE [kind |-> "not", x |-> sel]

----------------------------------------------------------------------------
\* A detection maps block names to a list of alternatives, each a list of
\* field items.
Tok(k) == [k |-> k, n |-> ""]
Block(det, name) == SelectionAny([i \in DOMAIN det[name] |-> SigmaFieldsToSelection(det[name][i])])
MatchingBlocks(det, pattern) ==
    SelectSeq(<<"sel_1", "sel_2", "filter">>, LAMBDA b : b \in DOMAIN det
                  /\ (pattern = "them" \/ (pattern = "sel*" /\ b # "filter")))

\* _ConditionParser over a token sequence: from each token a level (_parse_not
\* with _parse_primary) builds a selection and says where it ends.
ParseCondition(det, ts) ==
    LET at(i, k) == i <= Len(ts) /\ ts[i].k = k
        matching(i) == LET blocks == MatchingBlocks(det, ts[i].n)
                       IN  [b \in DOMAIN blocks |-> Block(det, blocks[b])]
        one(sel, next) == [parts |-> <<sel>>, sel |-> sel, next |-> next]
        parse[from \in {"or", "and", "not"} \X (1..Len(ts) + 1)] ==
            LET level == from[1]  i == from[2]
                first == parse[<<IF level = "or" THEN "and" ELSE "not", i>>]
                more  == parse[<<level, first.next + 1>>]
                parts == <<first.sel>> \o (IF at(first.next, level) THEN more.parts ELSE <<>>)
                negated == parse[<<"not", i + 1>>]
                inner == parse[<<"or", i + 1>>]
            IN  IF level \in {"or", "and"}
                THEN [parts |-> parts,
                      sel   |-> IF level = "or" THEN SelectionAny(parts) ELSE SelectionAll(parts),
                      next  |-> IF at(first.next, level) THEN more.next ELSE first.next]
                ELSE CASE at(i, "not")    -> one(SelectionNot(negated.sel), negated.next)
                       [] at(i, "(")      -> one(inner.sel, inner.next + 1)
                       [] at(i, "1 of")   -> one(SelectionAny(matching(i)), i + 1)
                       [] at(i, "all of") -> one(SelectionAll(matching(i)), i + 1)
                       [] at(i, "name")   -> one(Block(det, ts[i].n), i + 1)
    IN  parse[<<"or", 1>>].sel

UnknownBlock(det, ts) ==
    \E i \in DOMAIN ts : \/ ts[i].k = "name" /\ ts[i].n \notin DOMAIN det
                         \/ ts[i].k \in {"1 of", "all of"} /\ MatchingBlocks(det, ts[i].n) = <<>>
SigmaDetectionToSelection(det, ts) == ParseCondition(det, ts)

\* A category is an alias of a normalized one, unconstrained, or refused.
LogsourceToSelection(category) ==
    IF category = "unspecified" THEN <<>> ELSE <<Flat([category |-> Scalar(Str("process"))])>>

\* sigma_to_rule: a parse error, an unknown block or an unmapped category
\* refuses the rule.
Refused(det, ts, category) ==
    \/ UnknownBlock(det, ts)
    \/ category = "registry_event"
    \/ ~UnknownBlock(det, ts) /\ SigmaDetectionToSelection(det, ts) = ParseError
SigmaToRule(det, ts, category) ==
    LET sel == SigmaDetectionToSelection(det, ts)
        logsource == LogsourceToSelection(category)
    IN  IF logsource = <<>> THEN sel ELSE SelectionAll(<<logsource[1], sel>>)

----------------------------------------------------------------------------
\* rule_to_sigma: negative operators become filter blocks; a selection with
\* any_of, all_of, not or several operators on a field is exported as a tree.
Negative(o) == o.op.neg \/ (o.op.base = "exists" /\ The(o.vals).s = "false")
Positive(o) == IF o.op.base = "exists" THEN [o EXCEPT !.vals = {Str("true")}]
                                       ELSE [o EXCEPT !.op.neg = FALSE]
SplitFilters(m) ==
    UNION {{<<f, Positive(o)>> : o \in {x \in m[f].ops : Negative(x)}} :
              f \in {g \in DOMAIN m : m[g].kind = "ops"}}
Included(m) ==
    UNION {IF m[f].kind = "scalar" THEN {<<f, [op |-> Op("equals", "one"), vals |-> {m[f].v}]>>}
           ELSE {<<f, o>> : o \in {x \in m[f].ops : ~Negative(x)}} : f \in DOMAIN m}

ForgetsAll(fo) ==  \* mutant: contains_all is exported as contains
    [field |-> fo[1], vals |-> fo[2].vals,
     modifier |-> CASE fo[2].op.base \in {"equals", "in"} -> "plain"
                    [] fo[2].op.base = "regex" -> "re"
                    [] OTHER -> fo[2].op.base]
ExportField(fo) ==
    LET o == fo[2]
    IN  [field |-> fo[1], vals |-> o.vals,
         modifier |-> IF o.op.base \in {"equals", "in"} THEN "plain"
                      ELSE IF o.op.base = "regex" THEN "re"
                      ELSE IF o.op.base = "exists" \/ o.op.quant # "all" THEN o.op.base
                      ELSE o.op.base \o "_all"]
ExportBlock(fos) == <<SetToSeq({ExportField(fo) : fo \in fos})>>

RequiresStructure(sel) ==
    sel.kind # "flat" \/ \E f \in DOMAIN sel.m : sel.m[f].kind = "ops" /\ Cardinality(sel.m[f].ops) > 1

Name(i) == [k |-> "name", n |-> i]
Join(termTokens, word) ==
    FoldLeft(LAMBDA acc, t : IF acc = <<>> THEN t ELSE acc \o <<Tok(word)>> \o t, <<>>, termTokens)
Paren(ts) == <<Tok("(")>> \o ts \o <<Tok(")")>>

\* The blocks of one flat node: a block per operator where a field has several,
\* one for the rest, and one negated block per filter.
FlatTerms(m, structured) ==
    LET inc == Included(m)
        multi == IF structured THEN {fo \in inc : \E other \in inc : other[1] = fo[1] /\ other # fo}
                               ELSE {}
        rest == IF inc = multi /\ structured THEN <<>> ELSE <<ExportBlock(inc \ multi)>>
    IN  [pos |-> [i \in 1..Cardinality(multi) |-> ExportBlock({SetToSeq(multi)[i]})] \o rest,
         neg |-> [i \in 1..Cardinality(SplitFilters(m)) |->
                     ExportBlock({SetToSeq(SplitFilters(m))[i]})]]
EmitFlat(m, n, structured) ==
    LET t == FlatTerms(m, structured)
        pos == [i \in DOMAIN t.pos |-> <<Name(n + i)>>]
        neg == [i \in DOMAIN t.neg |-> <<Tok("not"), Name(n + Len(t.pos) + i)>>]
        all == pos \o neg
    IN  [blocks |-> t.pos \o t.neg,
         tokens |-> IF Len(all) > 1 /\ structured THEN Paren(Join(all, "and")) ELSE Join(all, "and")]

RECURSIVE Emit(_, _)
Emit(node, n) ==
    LET step(acc, x) == LET e == Emit(x, n + Len(acc.blocks))
                        IN  [blocks |-> acc.blocks \o e.blocks, terms |-> Append(acc.terms, e.tokens)]
        all == FoldLeft(step, [blocks |-> <<>>, terms |-> <<>>], node.xs)
        inner == Emit(node.x, n)
    IN  CASE node.kind = "flat" -> EmitFlat(node.m, n, TRUE)
          [] node.kind = "any"  -> [blocks |-> all.blocks, tokens |-> Paren(Join(all.terms, "or"))]
          [] node.kind = "all"  -> [blocks |-> all.blocks, tokens |-> Paren(Join(all.terms, "and"))]
          [] node.kind = "not"  -> [blocks |-> inner.blocks,
                                    tokens |-> <<Tok("not")>> \o Paren(inner.tokens)]

RuleToSigma(sel) == IF RequiresStructure(sel) THEN Emit(sel, 0) ELSE EmitFlat(sel.m, 0, FALSE)

----------------------------------------------------------------------------
\* The rules considered: a tree of conditions printed with the parentheses it
\* needs, and blocks of one or two alternatives.
Alone(f, v) == [field |-> f, modifier |-> "plain", vals |-> {v}]
Item(f, m, vs) == [field |-> f, modifier |-> m, vals |-> {Str(v) : v \in vs}]
One(item) == <<<<item>>>>
Sel1 == {One(Item("f", "plain", {"a"})), One(Item("f", "contains", {"a", "b"})),
         <<<<Item("f", "startswith", {"a"})>>, <<Item("g", "exists", {"true"})>>>>,
         One(Alone("f", Null)), One(Alone("f", Int5)),
         <<<<Item("f", "startswith", {"a"}), Item("f", "endswith", {"b"})>>>>}
Sel2 == {One(Item("f", "plain", {"a", "ab"})), One(Item("f", "contains_all", {"a", "b"})),
         <<<<Item("f", "contains", {"b"}), Item("g", "plain", {"a"})>>>>}
Filter == {One(Item("f", "endswith", {"b"})), One(Item("g", "exists", {"true"})),
           <<<<Item("f", "re", {"a"}), Item("g", "plain", {"a"})>>>>}

N(x) == [k |-> "name", n |-> x]
Not(x) == [k |-> "not", x |-> x]
Bin(k, x, y) == [k |-> k, x |-> x, y |-> y]
Quants == {[k |-> q, n |-> p] : q \in {"1 of", "all of"}, p \in {"them", "sel*"}}
Literals == {N("sel_1"), N("sel_2"), N("filter")} \cup {Not(N("sel_1")), Not(N("filter"))}
Pairs == {Bin(k, x, y) : k \in {"and", "or"}, x \in Literals \ {N("filter")}, y \in Literals}
Conditions == Literals \cup Quants \cup {Not(q) : q \in Quants} \cup Pairs \cup {Not(p) : p \in Pairs}
              \cup {Bin(k, p, N("filter")) : k \in {"and", "or"},
                       p \in {Bin(j, N("sel_1"), y) : j \in {"and", "or"}, y \in {N("sel_2"), Not(N("sel_2"))}}}
              \cup {Not(Not(N("sel_1"))), N("missing")}

RECURSIVE Tokens(_)
Tokens(c) ==
    LET arg(x) == IF x.k \in {"and", "or"} THEN Paren(Tokens(x)) ELSE Tokens(x)
    IN  CASE c.k = "not" -> <<Tok("not")>> \o arg(c.x)
          [] c.k = "and" -> (IF c.x.k = "or" THEN Paren(Tokens(c.x)) ELSE Tokens(c.x)) \o <<Tok("and")>>
                            \o arg(c.y)
          [] c.k = "or"  -> Tokens(c.x) \o <<Tok("or")>> \o Tokens(c.y)
          [] OTHER -> <<c>>

Rules == {[det |-> [sel_1 |-> a, sel_2 |-> b, filter |-> x], cond |-> c, category |-> l] :
            a \in Sel1, b \in Sel2, x \in Filter, c \in Conditions, l \in {"unspecified"}}
         \cup {[det |-> [sel_1 |-> a, sel_2 |-> b, filter |-> One(Item("g", "exists", {"true"}))],
                cond |-> c, category |-> l] :
                  a \in Sel1, b \in Sel2, c \in Literals \cup Quants,
                  l \in {"process_creation", "registry_event"}}
Given == stage = "given" /\ selection = Flat(<<>>) /\ exported = [blocks |-> <<>>, tokens |-> <<>>]
Init == rule \in Rules /\ Given

Refuse == /\ stage = "given" /\ Refused(rule.det, Tokens(rule.cond), rule.category)
          /\ stage' = "refused"
          /\ UNCHANGED <<rule, selection, exported>>

Compile == /\ stage = "given" /\ ~Refused(rule.det, Tokens(rule.cond), rule.category)
           /\ selection' = SigmaToRule(rule.det, Tokens(rule.cond), rule.category)
           /\ stage' = "compiled"
           /\ UNCHANGED <<rule, exported>>

Export == /\ stage = "compiled"
          /\ exported' = RuleToSigma(selection)
          /\ stage' = "exported"
          /\ UNCHANGED <<rule, selection>>

Reimport == /\ stage = "exported"
            /\ selection' = SigmaToRule(exported.blocks, exported.tokens, "unspecified")
            /\ stage' = "reimported"
            /\ UNCHANGED <<rule, exported>>

Next == Refuse \/ Compile \/ Export \/ Reimport
Spec == Init /\ [][Next]_vars

----------------------------------------------------------------------------
\* What the condition says: each item on its own, each block any of its
\* alternatives, the condition the Boolean combination of its blocks.
ItemHolds(doc, i) ==
    LET v == doc[i.field]
    IN  CASE i.modifier = "plain" -> v \in i.vals
          [] i.modifier = "exists" -> v # Null
          [] i.modifier = "contains_all" -> \A x \in i.vals : Test("contains", v, x)
          [] i.modifier = "re" -> \E x \in i.vals : Test("regex", v, x)
          [] OTHER -> \E x \in i.vals : Test(i.modifier, v, x)
BlockHolds(doc, b) == \E i \in DOMAIN b : \A j \in DOMAIN b[i] : ItemHolds(doc, b[i][j])

RECURSIVE Holds(_, _, _)
Holds(doc, det, c) ==
    CASE c.k = "name"   -> BlockHolds(doc, det[c.n])
      [] c.k = "not"    -> ~Holds(doc, det, c.x)
      [] c.k = "and"    -> Holds(doc, det, c.x) /\ Holds(doc, det, c.y)
      [] c.k = "or"     -> Holds(doc, det, c.x) \/ Holds(doc, det, c.y)
      [] c.k = "1 of"   -> \E b \in ToSet(MatchingBlocks(det, c.n)) : BlockHolds(doc, det[b])
      [] c.k = "all of" -> \A b \in ToSet(MatchingBlocks(det, c.n)) : BlockHolds(doc, det[b])
Means(doc, det) == /\ rule.category = "process_creation" => doc.category = Str("process")
                   /\ Holds(doc, det, rule.cond)

\* A block that names a field twice (Image|startswith, Image|endswith) keeps what
\* it says of it last.
Repeats(items) == \E i, j \in DOMAIN items : i # j /\ items[i].field = items[j].field
LastItems(items) ==
    SetToSeq({items[i] : i \in {k \in DOMAIN items :
                 \A j \in DOMAIN items : items[j].field = items[k].field => j <= k}})
AsKept(det) == [b \in DOMAIN det |-> [i \in DOMAIN det[b] |-> LastItems(det[b][i])]]
RepeatsField == \E b \in DOMAIN rule.det : \E i \in DOMAIN rule.det[b] : Repeats(rule.det[b][i])

\* Events in which a value and a lone null or number of the rule are equal as
\* text but not as values, or as values but not as text.
TextTells(doc) ==
    \E b \in DOMAIN rule.det : \E i \in DOMAIN rule.det[b] : \E j \in DOMAIN rule.det[b][i] :
        LET item == rule.det[b][i][j]
        IN  /\ item.modifier = "plain" /\ ~Many(item.vals)
            /\ \E x \in item.vals : (Text(doc[item.field]) = x.s) # (doc[item.field] = x)

\* The compiled selection matches exactly the events the rule's condition
\* describes, whatever was flattened, merged or negated in place on the way. But
\* of a block that names a field twice only the last word on it is kept, and a
\* lone null or number, once it is negated or merged, is compared as text.
ExactFor(doc) == TextTells(doc) \/ MatchesSelection(doc, selection) = Means(doc, AsKept(rule.det))
CompiledExactly == stage = "compiled" => \A doc \in Docs : ExactFor(doc)

\* A rule exported to Sigma and imported again matches the same events, with the
\* same two exceptions.
RoundTripExact == stage = "reimported" => \A doc \in Docs : ExactFor(doc)

\* "condition: selection and not filter negates a single-field filter exactly"
\* (the docstring of sigma.py), also where the filter compares with null.
NegatesExactly ==
    stage = "compiled" /\ ~RepeatsField =>
        \A doc \in Docs : MatchesSelection(doc, selection) = Means(doc, rule.det)

\* The selection preserves the condition exactly (_sigma_detection_to_selection),
\* every item of its blocks included.
ItemsKept ==
    stage = "compiled" =>
        \A doc \in Docs : TextTells(doc) \/ MatchesSelection(doc, selection) = Means(doc, rule.det)
=============================================================================
