------------------------------ MODULE Policies ------------------------------
(***************************************************************************)
(* The policy language of policy.py: rules that give capabilities on the   *)
(* paths a pattern matches.                                                *)
(*                                                                         *)
(* A path is the sequence of its segments, none of them empty.  A pattern  *)
(* is a sequence of segments too, some of them wildcards; wildcards inside *)
(* a segment ("db*", "?", "[...]") are left out.  Matching is fnmatch on   *)
(* the whole string, where * stands for any characters, slashes included:  *)
(* between two slashes, for one or more segments.                          *)
(***************************************************************************)
EXTENDS Integers, SequencesExt, FiniteSetsExt

CONSTANTS
    Patterns,   \* the patterns and the paths there are
    Paths,
    Absent,     \* no policy has this name
    Star,       \* the segment *
    StarStar    \* the segment **

ASSUME WildcardsDiffer == Star # StarStar

Segments == UNION {Range(p) : p \in Patterns \cup Paths}

ASSUME SegmentsAssumption == Patterns \cup Paths \subseteq Seq(Segments)

Wildcards == {Star, StarStar}

ValidCapabilities == {"read", "write", "delete", "list", "sudo"}

Rule(pattern, capabilities) == [path |-> pattern, capabilities |-> capabilities]

-----------------------------------------------------------------------------
(* pattern.replace("/**", ""): a ** that comes first has no slash before it. *)
Shorten(base, s) == IF s = StarStar THEN base ELSE Append(base, s)

Base(pattern) == FoldLeft(Shorten, <<Head(pattern)>>, Tail(pattern))

(* path == base or path.startswith(base + "/") *)
AtOrBelow(base, path) == IsPrefix(base, path)

(* Where in the path one may stand behind the next segment of the pattern,
   having stood in one of the places of `at'. *)
Behind(at, segment, path) ==
    IF segment \in Wildcards
    THEN {j \in 1 .. Len(path) : \E i \in at : i < j}
    ELSE {j \in 1 .. Len(path) : j - 1 \in at /\ path[j] = segment}

(* Mutated form of Fnmatch: the match may start anywhere in the path. *)
FnmatchAnywhere(pattern, path) ==
    Len(path) \in FoldLeft(LAMBDA at, s : Behind(at, s, path), 0 .. Len(path), pattern)

Fnmatch(pattern, path) ==
    Len(path) \in FoldLeft(LAMBDA at, s : Behind(at, s, path), {0}, pattern)

(* Mutated form of PathMatches: a pattern with ** is only its base. *)
PathMatchesBaseOnly(pattern, path) ==
    IF StarStar \in Range(pattern)
    THEN AtOrBelow(Base(pattern), path)
    ELSE Fnmatch(pattern, path)

PathMatches(pattern, path) ==
    \/ pattern = <<Star>>
    \/ StarStar \in Range(pattern) /\ AtOrBelow(Base(pattern), path)
    \/ Fnmatch(pattern, path)

-----------------------------------------------------------------------------
(* validate_policy; a policy is the set of its rules. *)
ValidPolicy(rules) ==
    /\ rules # {}
    /\ \A r \in rules : r.path # << >> /\ r.capabilities \subseteq ValidCapabilities

Default == {Rule(<<"secret", Star>>, {"read", "list"}),
            Rule(<<"auth", "token", "lookup-self">>, {"read"})}

Root == {Rule(<<Star>>, ValidCapabilities)}

BuiltIn == {"default", "root"}

ASSUME AbsentAssumption == Absent \notin {Default, Root}

Matches == [pattern \in Patterns |-> [path \in Paths |-> PathMatches(pattern, path)]]

(* What check_access finds in the policy of one name. *)
Grants(rules, path, capability) ==
    /\ rules # Absent
    /\ \E r \in rules : Matches[r.path][path] /\ capability \in r.capabilities

-----------------------------------------------------------------------------
(* The documented meaning (policy.py:7-10 and 67-72): a literal segment is
   itself, * is one level, ** is any number of levels from one on; and a
   pattern that is * alone matches every path.  The segments of the pattern
   divide the path among them: ends[k] is where the share of the k-th ends. *)
Shares(pattern, path) ==
    {ends \in [0 .. Len(pattern) -> 0 .. Len(path)] :
        /\ ends[0] = 0
        /\ ends[Len(pattern)] = Len(path)
        /\ \A k \in 1 .. Len(pattern) : ends[k - 1] < ends[k]}

MeantToMatch(pattern, path) ==
    \/ pattern = <<Star>>
    \/ \E ends \in Shares(pattern, path) :
          \A k \in 1 .. Len(pattern) :
             \/ pattern[k] = StarStar
             \/ /\ ends[k] = ends[k - 1] + 1
                /\ pattern[k] \in {Star, path[ends[k]]}

Documented == [pattern \in Patterns |-> [path \in Paths |-> MeantToMatch(pattern, path)]]

(* The segments of the pattern before its first wildcard. *)
LiteralPrefix(pattern) ==
    LET wild == {k \in 1 .. Len(pattern) : pattern[k] \in Wildcards}
    IN  SubSeq(pattern, 1, IF wild = {} THEN Len(pattern) ELSE Min(wild) - 1)

(* The pattern's literal beginning is the beginning of every path it matches. *)
Confined ==
    [pattern \in Patterns |-> [path \in Paths |->
        Matches[pattern][path] => IsPrefix(LiteralPrefix(pattern), path)]]

=============================================================================
