------------------------------ MODULE Filters ------------------------------
(***************************************************************************)
(* The process filter (core/filter): a list of rules, each a pattern and   *)
(* the field it is matched against.  A pattern is compiled by a recursive  *)
(* parser into a program of instructions, and matched by a backtracking    *)
(* engine that never expands the same program tail twice at the same place *)
(* of the text, where a tail is told by its region and its length.         *)
(*                                                                         *)
(* A pattern here is a tree; Written is the text a user types for it, and  *)
(* Language what the text means.  Characters, field names and values are   *)
(* the members of small sets; a text is a sequence of characters.          *)
(***************************************************************************)
EXTENDS Naturals, Sequences, FiniteSets, SequencesExt

CONSTANTS Lists,      \* the lists of rules a user may type
          Candidates, \* the processes asked about
          NoKey,      \* a rule without "key:"
          Nobody      \* nothing was asked yet

VARIABLES rules,   \* GlancesFilterList.filters, each with the tree it was typed from
          subject, \* the process last asked about
          isListed \* whether the process list shows it

filterVars == <<rules, subject, isListed>>

Chars == {"x", "y"}
None == <<>>       \* Option::None of the parser: no program it makes is empty

(***************************************************************************)
(* Patterns, as trees: what a user means.                                  *)
(***************************************************************************)
Lit(c) == [op |-> "lit", c |-> c]
AnyChar == [op |-> "any"]
AtStart == [op |-> "bol"]
AtEnd == [op |-> "eol"]
Many(op, body) == [op |-> op, body |-> body]       \* op: "star", "plus", "quest"
Either(a, b) == [op |-> "alt", left |-> a, right |-> b]
OneOf(negated, chars) == [op |-> "class", negated |-> negated, chars |-> chars]

\* The tokens of a tree, with the parentheses its shape needs.
RECURSIVE Written(_)
Written(prog) ==
    FlattenSeq([i \in DOMAIN prog |->
        LET n == prog[i]
            Group(p) == IF Len(p) = 1 /\ p[1].op \in {"lit", "any", "bol", "eol", "class", "alt"}
                        THEN Written(p) ELSE <<"(">> \o Written(p) \o <<")">>
        IN  CASE n.op = "lit" -> <<n.c>>
              [] n.op = "any" -> <<".">>
              [] n.op = "bol" -> <<"^">>
              [] n.op = "eol" -> <<"$">>
              [] n.op = "class" -> <<"[">> \o (IF n.negated THEN <<"^">> ELSE <<>>) \o SetToSeq(n.chars) \o <<"]">>
              [] n.op = "alt" -> <<"(">> \o Written(n.left) \o <<"|">> \o Written(n.right) \o <<")">>
              [] OTHER -> Group(n.body) \o <<CASE n.op = "star" -> "*" [] n.op = "plus" -> "+" [] OTHER -> "?">>])

\* Where a tree may take the matcher: pairs of positions, by composition.
RECURSIVE Spans(_, _)
Spans(prog, text) ==
    LET Places == 1..Len(text) + 1
        Same == {<<p, p>> : p \in Places}
        Then(R, S) == {<<r[1], s[2]>> : <<r, s>> \in {q \in R \X S : q[1][2] = q[2][1]}}
        Closed(R) == FoldLeft(LAMBDA acc, i : acc \cup Then(acc, R), Same, [i \in 1..Len(text) |-> i])
        Over(OK(_)) == {<<p, p + 1>> : p \in {q \in 1..Len(text) : OK(text[q])}}
        One(n) == CASE n.op = "lit" -> Over(LAMBDA c : c = n.c)
                    [] n.op = "any" -> Over(LAMBDA c : TRUE)
                    [] n.op = "class" -> Over(LAMBDA c : (c \in n.chars) # n.negated)
                    [] n.op = "bol" -> {<<1, 1>>}
                    [] n.op = "eol" -> {<<Len(text) + 1, Len(text) + 1>>}
                    [] n.op = "alt" -> Spans(n.left, text) \cup Spans(n.right, text)
                    [] n.op = "star" -> Closed(Spans(n.body, text))
                    [] n.op = "plus" -> Then(Spans(n.body, text), Closed(Spans(n.body, text)))
                    [] n.op = "quest" -> Same \cup Spans(n.body, text)
    IN  FoldLeft(LAMBDA acc, n : Then(acc, One(n)), Same, prog)

Language(prog, text) == <<1, Len(text) + 1>> \in Spans(prog, text)

(***************************************************************************)
(* The parser.  Each function answers with what it parsed, or None, and    *)
(* the place it stopped at.                                                *)
(***************************************************************************)
At(s, i, c) == i <= Len(s) /\ s[i] = c

ParseClass(s, i) ==
    LET negated == At(s, i + 1, "^")
        from == IF negated THEN i + 2 ELSE i + 1
        closes == {j \in from..Len(s) : s[j] = "]"}
        close == CHOOSE j \in closes : \A k \in closes : j <= k
    IN  IF closes = {} THEN <<None, i>>
        ELSE <<<<OneOf(negated, {s[j] : j \in from..close - 1})>>, close + 1>>

Repeat(s, base, j) ==
    CASE At(s, j, "*") -> <<<<Many("star", base)>>, j + 1>>
      [] At(s, j, "+") -> <<<<Many("plus", base)>>, j + 1>>
      [] At(s, j, "?") -> <<<<Many("quest", base)>>, j + 1>>
      [] OTHER -> <<base, j>>

RECURSIVE ParseAlt(_, _), ParseBranches(_, _, _), ParseCat(_, _, _), ParseAtom(_, _)

ParseAtom(s, i) ==
    LET base == CASE s[i] = "^" -> <<<<AtStart>>, i + 1>>
                  [] s[i] = "$" -> <<<<AtEnd>>, i + 1>>
                  [] s[i] = "." -> <<<<AnyChar>>, i + 1>>
                  [] s[i] = "[" -> ParseClass(s, i)
                  [] s[i] = "(" -> LET inner == ParseAlt(s, i + 1)
                                   IN  IF inner[1] = None \/ ~At(s, inner[2], ")") THEN <<None, inner[2]>>
                                       ELSE <<inner[1], inner[2] + 1>>
                  [] OTHER -> <<<<Lit(s[i])>>, i + 1>>
    IN  IF base[1] = None THEN base ELSE Repeat(s, base[1], base[2])

ParseCat(s, i, out) ==
    IF i <= Len(s) /\ s[i] \notin {"|", ")"}
    THEN LET atom == ParseAtom(s, i)
         IN  IF atom[1] = None THEN atom ELSE ParseCat(s, atom[2], out \o atom[1])
    ELSE IF out = <<>> THEN <<None, i>> ELSE <<out, i>>

ParseBranches(s, left, j) ==
    IF ~At(s, j, "|") THEN <<left, j>>
    ELSE LET right == ParseCat(s, j + 1, <<>>)
         IN  IF right[1] = None THEN right
             ELSE ParseBranches(s, <<Either(left, right[1])>>, right[2])

ParseAlt(s, i) ==
    LET left == ParseCat(s, i, <<>>)
    IN  IF left[1] = None THEN left ELSE ParseBranches(s, left[1], left[2])

\* Regex::compile: whatever follows the place the parser stopped at is dropped.
Compile(s) == ParseAlt(s, 1)[1]

(***************************************************************************)
(* The matcher.  Its state m is the memo and the next free region; Run     *)
(* answers with the places a program tail may end at, and the new state.   *)
(***************************************************************************)
NewRegion(m) == [m EXCEPT !.next = @ + 1]

RECURSIVE Run(_, _, _, _, _), RunEach(_, _, _, _, _, _)

\* The tail is run from every place of a set, one after another.
RunEach(prog, text, region, places, hits, m) ==
    IF places = {} THEN [hits |-> hits, m |-> m]
    ELSE LET p == CHOOSE q \in places : \A r \in places : q <= r
             run == Run(prog, text, region, p, m)
         IN  RunEach(prog, text, region, places \ {p}, hits \cup run.hits, run.m)

\* Faulty form: an atom is run in the region of the program around it.
OnceShared(atom, text, region, pos, m) == Run(atom, text, region, pos, m)
\* Matcher::once: an atom has a region of its own, so that its tails are told
\* from those of the program around it.
Once(atom, text, region, pos, m) == Run(atom, text, m.next, pos, NewRegion(m))

Run(prog, text, region, pos, m) ==
    IF prog = <<>> THEN [hits |-> {pos}, m |-> m]
    ELSE IF <<region, Len(prog), pos>> \in m.seen THEN [hits |-> {}, m |-> m]
    ELSE
    LET n == Head(prog)
        tail == Tail(prog)
        more == pos <= Len(text)
        m1 == [m EXCEPT !.seen = @ \cup {<<region, Len(prog), pos>>}]
        Step(ok, to) == IF ok THEN Run(tail, text, region, to, m1) ELSE [hits |-> {}, m |-> m1]
    IN  CASE n.op = "lit" -> Step(more /\ text[pos] = n.c, pos + 1)
          [] n.op = "any" -> Step(more, pos + 1)
          [] n.op = "class" -> Step(more /\ (text[pos] \in n.chars) # n.negated, pos + 1)
          [] n.op = "bol" -> Step(pos = 1, pos)
          [] n.op = "eol" -> Step(pos = Len(text) + 1, pos)
          [] n.op = "alt" ->
               LET l == Run(n.left \o tail, text, m1.next, pos, NewRegion(m1))
                   r == Run(n.right \o tail, text, l.m.next, pos, NewRegion(l.m))
               IN  [hits |-> l.hits \cup r.hits, m |-> r.m]
          [] n.op = "star" ->
               LET none == Run(tail, text, region, pos, m1)
                   once == Once(n.body, text, region, pos, none.m)
               IN  RunEach(prog, text, region, {p \in once.hits : p > pos}, none.hits, once.m)
          [] n.op = "plus" ->
               LET once == Once(n.body, text, region, pos, NewRegion(m1))
               IN  RunEach(<<Many("star", n.body)>> \o tail, text, m1.next, once.hits, {}, once.m)
          [] n.op = "quest" ->
               LET none == Run(tail, text, region, pos, m1)
                   once == Once(n.body, text, region, pos, none.m)
               IN  RunEach(tail, text, region, once.hits, none.hits, once.m)

FullMatch(prog, text) ==
    Len(text) + 1 \in Run(prog, text, 0, 1, [seen |-> {}, next |-> 1]).hits

(***************************************************************************)
(* Rules and lists of rules.                                               *)
(***************************************************************************)
\* GlancesFilter::set_filter: a pattern that does not compile disables its rule.
Installed(part) ==
    LET program == Compile(part.text)
    IN  [key |-> IF program = None THEN NoKey ELSE part.key, program |-> program, typed |-> part]

Active(rule) == rule.program # None

\* Without a key: the name or the first word of the command line, which is
\* matched as empty when there is none.
FirstWord(proc) == IF proc.cmdline = <<>> THEN <<>> ELSE proc.cmdline[1]
Texts(key, proc) ==
    IF key = NoKey THEN {proc.fields["name"], FirstWord(proc)}
    ELSE IF key \in DOMAIN proc.fields THEN {proc.fields[key]} ELSE {}

Selects(rule, proc) == Active(rule) /\ \E t \in Texts(rule.key, proc) : FullMatch(rule.program, t)

\* ProcessListPlugin::update: everything is listed when no rule is active.
ListedBy(rs, proc) ==
    \/ \A i \in DOMAIN rs : ~Active(rs[i])
    \/ \E i \in DOMAIN rs : Selects(rs[i], proc)

FilterInit == rules = <<>> /\ subject = Nobody /\ isListed = TRUE

\* GlancesFilterList::set_filter: the parts between the commas replace the list.
SetFilter(list) ==
    /\ rules' = [i \in DOMAIN list |-> Installed(list[i])]
    /\ subject' = Nobody /\ isListed' = TRUE

Clear ==
    /\ rules # <<>>
    /\ rules' = <<>>
    /\ subject' = Nobody /\ isListed' = TRUE

\* One process of one update.
Ask(proc) ==
    /\ subject = Nobody
    /\ subject' = proc
    /\ isListed' = ListedBy(rules, proc)
    /\ UNCHANGED rules

FilterNext ==
    \/ rules = <<>> /\ \E list \in Lists : SetFilter(list)
    \/ Clear
    \/ \E proc \in Candidates : Ask(proc)

FilterSpec == FilterInit /\ [][FilterNext]_filterVars

----------------------------------------------------------------------------
\* A process is listed when and only when some rule that can be read means it,
\* or no rule can be read: the parser gives a pattern the meaning it was
\* written with, and the memo of the matcher drops no match and makes none up.
ListedAsMeant ==
    subject # Nobody =>
        LET meant == {i \in DOMAIN rules : rules[i].typed.tree # None}
        IN  isListed <=> \/ meant = {}
                       \/ \E i \in meant : \E t \in Texts(rules[i].typed.key, subject) :
                             Language(rules[i].typed.tree, t)
============================================================================
