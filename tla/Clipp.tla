------------------------------- MODULE Clipp -------------------------------
(***************************************************************************)
(* The command line parser of both programs (commonApp/clipp.h), for       *)
(* interfaces built as in ClippInterface.                                  *)
(*                                                                         *)
(* An argument is a sequence of pieces: a flag is one piece, the rest of a *)
(* string any others, and no flag begins with another.  Where clipp        *)
(* compares lengths, pieces are compared.                                  *)
(***************************************************************************)
EXTENDS Integers, Sequences, SequencesExt

CONSTANTS
    Interface,  \* the group the arguments are matched with
    Numerals    \* the value of the pieces that are digits

Argument == Seq(STRING)

Digits == DOMAIN Numerals
Signs == {"+", "-"}
Point == "."

-----------------------------------------------------------------------------
(***************************************************************************)
(* depth_first_traverser.  A position is the path to a node of the tree,   *)
(* the numbers of the children on it; the empty one is the end.            *)
(***************************************************************************)

Position == Seq(Nat)

End == <<>>

Node(p) == FoldLeft(LAMBDA node, i : node.children[i], Interface, p)

Level(p) == Len(p)
IsGroup(p) == Node(p).children # <<>>
IsFlag(p) == Node(p).flags # {}
IsValue(p) == ~IsGroup(p) /\ ~IsFlag(p)
IsParam(p) == ~IsGroup(p)
IsBlocking(p) == Node(p).blocking

\* operator == : the end is never the same.
IsSame(p, q) == p # End /\ p = q

LastSibling(p) == Len(Node(Front(p)).children)

\* The levels on which something follows the path.
LevelsToGo(p) == {n \in DOMAIN p : p[n] < LastSibling(SubSeq(p, 1, n))}

NextSibling(p) ==
    IF LevelsToGo(p) = {} THEN End
    ELSE LET n == Max(LevelsToGo(p)) IN Append(SubSeq(p, 1, n - 1), p[n] + 1)

NextAfterSiblings(p) == NextSibling(Append(Front(p), LastSibling(p)))

DfsNext(p) == IF IsGroup(p) THEN Append(p, 1) ELSE NextSibling(p)

IsLastInPath(p) == LevelsToGo(p) = {} /\ ~IsGroup(p)

\* undo(): a memento restores a level that is there, or the first.
Undo(p, memento) ==
    IF memento # End /\ (Level(memento) <= Level(p) \/ (p = End /\ Level(memento) = 1))
    THEN memento ELSE p

\* child_t::required(), group::any_required()
IsRequired(p) ==
    LET required[q \in Position] ==
          \/ Node(q).required
          \/ \E i \in DOMAIN Node(q).children : required[Append(q, i)]
    IN  required[p]

-----------------------------------------------------------------------------
(***************************************************************************)
(* scoped_dfs_traverser.                                                   *)
(***************************************************************************)

Traverser ==
    [pos : Position,            \* pos_
     last : Position,           \* lastMatch_
     after : Position,          \* posAfterLastMatch_
     scopes : Seq(Position),    \* scopes_, the innermost last
     ignore : BOOLEAN]          \* ignoreBlocks_

Start == [pos |-> <<1>>, last |-> End, after |-> End, scopes |-> <<>>, ignore |-> FALSE]

Matched(t) == IsSame(t.pos, t.last)

\* t after the innermost n scopes are popped, each undone.
Popped(t, n) ==
    LET kept == Len(t.scopes) - n
    IN  [t EXCEPT !.pos = FoldRight(LAMBDA m, p : Undo(p, m), SubSeq(t.scopes, kept + 1, kept + n), @),
                  !.scopes = SubSeq(@, 1, kept)]

\* Pop until there is no scope, or a number of them that is one of stops.
PopUntil(t, stops) == Popped(t, Min(stops \cup {Len(t.scopes)}))

ReturnToLevel(t, level) ==
    PopUntil(t, {n \in 0 .. Len(t.scopes) : Level(Popped(t, n).pos) <= level})

ReturnToOutermostScope(t) ==
    LET u == [t EXCEPT !.after = End]
    IN  IF t.scopes = <<>> THEN [u EXCEPT !.pos = End] ELSE Popped(u, Len(t.scopes))

CheckIfLeftScope(t) ==
    LET above(v) == Level(v.pos) - Level(Last(v.scopes))
        leave(v, least) == PopUntil(v, {n \in 0 .. Len(v.scopes) - 1 : above(Popped(v, n)) >= least})
    IN  leave(IF t.after # End /\ Level(t.pos) < Level(t.after)
              THEN [leave(t, 1) EXCEPT !.after = End] ELSE t, 0)

IsLastInScope(t, p) ==
    IF t.scopes = <<>> THEN IsLastInPath(p) ELSE Level(DfsNext(p)) < Level(Last(t.scopes))

OrOutermostScope(t) == IF t.pos = End THEN ReturnToOutermostScope(t) ELSE t

\* operator++: a blocking parameter that did not match stands before its siblings.
Advance(t) ==
    IF t.pos = End THEN t
    ELSE IF IsLastInPath(t.pos) THEN ReturnToOutermostScope(t)
    ELSE CheckIfLeftScope(
           IF t.ignore \/ Matched(t) \/ ~IsBlocking(t.pos)
           THEN [t EXCEPT !.pos = DfsNext(@)]
           ELSE OrOutermostScope([t EXCEPT !.pos = NextAfterSiblings(@)]))

\* Where a match m leads from t, in or out of a scope; next is what follows m.
MoveTo(t, m, next) ==
    IF ~IsBlocking(m)
    THEN ReturnToLevel(t, Level(m))
    ELSE IF IsLastInScope(t, m)
    THEN [t EXCEPT !.pos = IF t.scopes = <<>> THEN m ELSE Undo(m, Last(t.scopes))]
    ELSE IF Level(next) > Level(t.pos)
    THEN [t EXCEPT !.scopes = Append(@, t.pos), !.pos = next]
    ELSE IF Level(next) < Level(t.pos)
    THEN ReturnToLevel(t, Level(next))
    ELSE [t EXCEPT !.pos = next]

AfterLastMatch(t) == [t EXCEPT !.after = t.pos]

\* next_after_match(), with the position m of the match.
NextAfterMatch(t, m) ==
    LET here == IF ~IsSame(m, t.pos) /\ IsBlocking(t.pos) THEN NextSibling(t.pos) ELSE t.pos
    IN  IF t.ignore THEN t
        ELSE AfterLastMatch(MoveTo([t EXCEPT !.last = m, !.pos = here], m, DfsNext(m)))

-----------------------------------------------------------------------------
(***************************************************************************)
(* Matching: full_match() and longest_prefix_match() go from a traverser's *)
(* position on.  The result is the traverser at the match, or at the end.  *)
(***************************************************************************)

\* predicate_adapter, of match::nonempty: all of arg, if there is any.
NonEmptyMatch(arg) == Len(arg)

\* parameter::match(): how much of arg p matches.
MatchLength(p, arg) ==
    IF IsValue(p) THEN NonEmptyMatch(arg)
    ELSE IF arg # <<>> /\ arg[1] \in Node(p).flags THEN 1
    ELSE 0

\* What a selector selects.
Kind(p) == IF IsFlag(p) THEN "flag" ELSE IF IsValue(p) THEN "value" ELSE "group"

Flags == {"flag"}
Values == {"value"}
Params == {"flag", "value"}

FindFrom(t, arg, kinds, lengths) ==
    LET accepts(p) == Kind(p) \in kinds /\ MatchLength(p, arg) \in lengths
        find[u \in Traverser] == IF u.pos = End \/ accepts(u.pos) THEN u ELSE find[Advance(u)]
    IN  find[t]

FullMatch(t, arg, kinds) == FindFrom(t, arg, kinds, {Len(arg)} \ {0})

OrElse(found, other) == IF found.pos # End THEN found ELSE other

PrefixMatch(t, arg, kinds) ==
    OrElse(FullMatch(t, arg, kinds), FindFrom(t, arg, kinds, 1 .. Len(arg)))

NoMatches == <<>>

\* The first of some attempts that finds matches.
FirstMatches(attempts) ==
    LET succeed == {i \in DOMAIN attempts : attempts[i] # NoMatches}
    IN  IF succeed = {} THEN NoMatches ELSE attempts[Min(succeed)]

\* match, and then each of the ways to match what it leaves.
Before(match, ways) == [i \in DOMAIN ways |-> <<match>> \o ways[i]]

\* The matches of arg with the parameters of one group from a position on,
\* each with what those before it left.
InSequence(t, arg) ==
    LET group == Front(t.pos)
        ways[rest \in Argument, u \in Traverser] ==
          LET n == MatchLength(u.pos, rest)
          IN  IF rest = <<>> THEN <<NoMatches>>
              ELSE IF u.pos = End \/ Front(u.pos) # group \/ ~IsBlocking(u.pos) \/ n = 0 THEN <<>>
              ELSE Before([str |-> SubSeq(rest, 1, n), pos |-> u.pos],
                          ways[SubSeq(rest, n + 1, Len(rest)), Advance(u)])
    IN  FirstMatches(ways[arg, [t EXCEPT !.ignore = TRUE]])

\* All of arg, with the parameter that was found.
AllOf(arg, found) == IF found.pos = End THEN NoMatches ELSE <<[str |-> arg, pos |-> found.pos]>>

SequenceFrom(found, arg) ==
    IF found.pos = End \/ MatchLength(found.pos, arg) = Len(arg)
    THEN AllOf(arg, found) ELSE InSequence(found, arg)

\* try_match_joined_sequence(): such as a flag and its value in one argument.
JoinedSequence(t, arg, kinds) == SequenceFrom(PrefixMatch(t, arg, kinds), arg)

\* try_match_full()
WholeMatch(t, arg, kinds) == AllOf(arg, FullMatch(t, arg, kinds))

\* try_match().  The attempts for groups that are joinable are left out.
TryMatch(t, arg) ==
    FirstMatches(<<WholeMatch(t, arg, Flags), JoinedSequence(t, arg, Flags),
                   WholeMatch(t, arg, Values), JoinedSequence(t, arg, Params)>>)

-----------------------------------------------------------------------------
(***************************************************************************)
(* parser.                                                                 *)
(***************************************************************************)

\* for_each_potential_miss(): what is missed if nothing is given from a
\* position on; an optional blocking parameter excuses its siblings.
PotentialMisses(from) ==
    LET misses[p \in Position] ==
          CASE Level(p) < Level(from) \/ p = End -> {}
            [] IsGroup(p) -> misses[IF IsRequired(p) THEN DfsNext(p) ELSE NextSibling(p)]
            [] IsParam(p) /\ Node(p).required -> {p} \cup misses[DfsNext(p)]
            [] OTHER -> misses[IF IsBlocking(p) THEN NextAfterSiblings(p) ELSE DfsNext(p)]
    IN  misses[from]

\* arg_mapping: an argument, or a part of it, and its parameter.
Mapping == [str : Argument, pos : Position, repeat : Nat, blocked : BOOLEAN]

Parser == [t : Traverser, args : Seq(Mapping), missing : SUBSET Position, blocked : BOOLEAN]

NewParser == [t |-> Start, args |-> <<>>, missing |-> PotentialMisses(Start.pos), blocked |-> FALSE]

\* Mutant: what is given again counts as the first.
CountsNone(args, p) == 0

\* occurrences_of()
Repeat(args, p) ==
    LET earlier == {i \in DOMAIN args : args[i].pos = p}
    IN  IF earlier = {} THEN 0
        ELSE args[Max(earlier)].repeat + 1

\* Mutant: the value of an optional flag may be left out.
ExcusesAll(p) == {}

\* What an optional blocking parameter that matched leaves to be missed.
MissesAfter(p) ==
    IF IsBlocking(p) /\ ~Node(p).required /\ Level(DfsNext(p)) >= Level(p)
    THEN PotentialMisses(DfsNext(p)) ELSE {}

\* add_match()
AddMatch(parser, match) ==
    [parser EXCEPT
       !.t = NextAfterMatch(@, match.pos),
       !.args = Append(@, [str |-> match.str, pos |-> match.pos,
                           repeat |-> Repeat(@, match.pos), blocked |-> FALSE]),
       !.missing = (@ \cup MissesAfter(match.pos)) \ {match.pos}]

AddMatches(parser, matches) == FoldLeft(AddMatch, parser, matches)

IgnoringBlocks(parser) == [parser EXCEPT !.t.ignore = TRUE]

\* What arg_mappings the matches make of parser.
NewMappings(parser, matches) ==
    SubSeq(AddMatches(parser, matches).args, Len(parser.args) + 1, Len(parser.args) + Len(matches))

Blocked(mappings) == [i \in DOMAIN mappings |-> [mappings[i] EXCEPT !.blocked = TRUE]]

\* try_match_blocked(): what arg matches when nothing blocks, ahead of the
\* parser's position or else from the beginning; the matches are recorded as
\* blocked, and the parser does not move.
BlockedMatches(parser, arg) ==
    LET ahead == IgnoringBlocks(parser)
        all   == IgnoringBlocks(NewParser)
    IN  Blocked(FirstMatches(<<NewMappings(ahead, TryMatch(ahead.t, arg)),
                               NewMappings(all, TryMatch(all.t, arg))>>))

\* Nothing matches arg: the parser may have come to what is missing.
Unmatched(parser, arg) ==
    [parser EXCEPT
       !.blocked = @ \/ (~Matched(parser.t) /\ Node(parser.t.pos).required /\ IsBlocking(parser.t.pos)),
       !.args = Append(@, [str |-> arg, pos |-> End, repeat |-> 0, blocked |-> FALSE])]

\* The parser after arg, with what it matches.
Taking(parser, arg, matches, blocked) ==
    IF parser.t.pos = End THEN parser
    ELSE IF ~parser.blocked /\ matches # NoMatches THEN AddMatches(parser, matches)
    ELSE IF blocked # <<>> THEN [parser EXCEPT !.args = @ \o blocked]
    ELSE Unmatched(parser, arg)

\* operator(): one argument.
ParseArg(parser, arg) ==
    Taking(parser, arg, TryMatch(parser.t, arg), BlockedMatches(parser, arg))

-----------------------------------------------------------------------------
(***************************************************************************)
(* parse().                                                                *)
(***************************************************************************)

\* sanitize_args(): an argument that starts with a point and digits takes
\* the digits at the end of the one before, and their sign.
TakenOff(arg) ==
    LET digits == IF arg # <<>> /\ Last(arg) \in Digits THEN 1 ELSE 0
        rest   == Len(arg) - digits
    IN  IF rest > 0 /\ arg[rest] \in Signs THEN digits + 1 ELSE digits

Sanitized(args) ==
    LET Add(done, arg) ==
          LET n == TakenOff(Last(done))
              k == Len(Last(done)) - n
          IN  IF done # <<>> /\ Len(arg) > 1 /\ arg[1] = Point /\ arg[2] \in Digits
              THEN Append(Front(done), SubSeq(Last(done), 1, k))
                     \o << SubSeq(Last(done), k + 1, k + n) \o arg >>
              ELSE Append(done, arg)
    IN  FoldLeft(Add, <<>>, args)

Parsed(args) == FoldLeft(ParseArg, NewParser, Sanitized(args))

\* arg_mapping::any_error()
ArgError(m) == m.pos = End \/ m.blocked \/ m.repeat > 0

\* parsing_result::any_error(): a parse that main goes on with has none.
AnyError(parser) == parser.missing # {} \/ \E i \in DOMAIN parser.args : ArgError(parser.args[i])

\* execute_actions(): those of the arguments without an error are.
Executed(parser) == {k \in DOMAIN parser.args : ~ArgError(parser.args[k])}

\* The string the action sets a variable to, or else its default.
Setting(parser, target, default) ==
    LET sets == {k \in Executed(parser) : Node(parser.args[k].pos).target = target}
    IN  IF sets = {} THEN default ELSE parser.args[Max(sets)].str

\* make<double>, strtod(): the number a string starts with, or 0.  A fraction,
\* which strtod() keeps, is cut off: times are whole units here, and what is
\* compared of a command line is the strings, not their numbers.
Number(arg) ==
    LET sign == IF arg # <<>> /\ arg[1] \in Signs THEN 1 ELSE 0
    IN  IF Len(arg) = sign THEN 0
        ELSE IF arg[sign + 1] \notin Digits THEN 0
        ELSE IF arg[1] = "-" THEN -Numerals[arg[2]] ELSE Numerals[arg[sign + 1]]

\* make<unsigned long>: never less than 0.
Unsigned(arg) == IF Number(arg) < 0 THEN 0 ELSE Number(arg)

-----------------------------------------------------------------------------
(***************************************************************************)
(* What a command line means, without a parser: it is a list of pairs of a *)
(* flag and a value that is not empty, in any order.  They are two         *)
(* arguments, and then the value does not begin with a flag, or one.       *)
(***************************************************************************)

\* The interface is a list of scoped groups of a flag and a value.
Options == DOMAIN Interface.children
FlagOf(i) == Interface.children[i].children[1]
TargetOf(i) == Interface.children[i].children[2].target

OptionOf(arg) == {i \in Options : arg # <<>> /\ arg[1] \in FlagOf(i).flags}

IsFraction(arg) == Len(arg) > 1 /\ arg[1] = Point /\ arg[2] \in Digits

IsInteger(arg) ==
    \/ Len(arg) = 1 /\ arg[1] \in Digits
    \/ Len(arg) = 2 /\ arg[1] \in Signs /\ arg[2] \in Digits

\* The pairs that may be read at argument i, with the number of arguments; a
\* number may be split before its point when it is joined to its flag.
PairsAt(args, i) ==
    LET pair(o, value, size) == [option |-> o, value |-> value, size |-> size]
        next == IF i < Len(args) THEN args[i + 1] ELSE <<>>
    IN  UNION {
          LET rest == Tail(args[i])
          IN  CASE rest = <<>> /\ next # <<>> /\ OptionOf(next) = {} -> {pair(o, next, 2)}
                [] rest # <<>> /\ ~IsFraction(next) -> {pair(o, rest, 1)}
                [] IsInteger(rest) /\ IsFraction(next) -> {pair(o, rest \o next, 2)}
                [] OTHER -> {}
          : o \in OptionOf(args[i])}

\* The ways to read the arguments from i on as pairs: none, or one.
Readings(args) ==
    LET from[i \in 1 .. Len(args) + 1] ==
          IF i > Len(args) THEN {<<>>}
          ELSE UNION {{<<p>> \o rest : rest \in from[i + p.size]} : p \in PairsAt(args, i)}
    IN  from[1]

\* No option is given twice, and none that is required is missing.
IsComplete(pairs) ==
    /\ IsInjective([k \in DOMAIN pairs |-> pairs[k].option])
    /\ \A i \in Options : FlagOf(i).required => \E k \in DOMAIN pairs : pairs[k].option = i

Means(parser, meanings) ==
    /\ parser \in Parser
    /\ AnyError(parser) = (meanings = {})
    /\ \A pairs \in meanings : \A k \in DOMAIN pairs :
         Setting(parser, TargetOf(pairs[k].option), <<>>) = pairs[k].value

\* The parser accepts args if they have a meaning, and then they are set to it.
IsParsedAsMeant(args) == Means(Parsed(args), {pairs \in Readings(args) : IsComplete(pairs)})
=============================================================================
