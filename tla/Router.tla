------------------------------- MODULE Router -------------------------------
(***************************************************************************)
(* zhttp::Router and its RadixTree: registration of static, dynamic and    *)
(* regular-expression routes, the search for the route of a request, and   *)
(* the chain of middlewares around the handler.                            *)
(*                                                                         *)
(* A path is its segments and whether it ends in a slash.  A segment of a  *)
(* pattern is <<"s", text>>, <<"p", name>> (:name) or <<"c", name>>        *)
(* (star, name).  A regular expression is the set of paths it matches with *)
(* the segments of its static prefix.  A handler is the route registered.  *)
(***************************************************************************)
EXTENDS Naturals, Sequences, FiniteSets, SequencesExt

CONSTANTS
  PathRoutes,    \* routes for add_route: [method, path, slash]
  RegexRoutes,   \* routes for add_regex_route: [method, pattern, prefix, matches]
  Paths,         \* segments of the paths that are looked up
  Asked,         \* those of them a whole request is made for
  Methods,
  Groups,        \* prefixes with a middleware of use_group
  Homepage,      \* the path set_homepage has been given, or None
  None,
  MaxRoutes      \* bound: registrations

VARIABLES
  static_routes,  \* static_routes_: whole path and method -> route
  names,          \* the tree: node -> param_name_; a node is the keys on its way
  handlers,       \* node and method -> route
  regex_routes,   \* node -> its regex_routes_
  log,            \* the registrations, in their order
  request,        \* the request in route(): its path, or None
  chain,          \* its MiddlewareChain
  at,             \* where it stands
  executed_count, \* executed_count_
  ran             \* the before and after calls that have returned

tree == <<static_routes, names, handlers, regex_routes, log>>
call == <<request, chain, at, executed_count, ran>>
vars == <<tree, call>>

Root == <<>>

Init ==
  /\ static_routes = [k \in {} |-> None]
  /\ names = [n \in {Root} |-> None]
  /\ handlers = [k \in {} |-> None]
  /\ regex_routes = [n \in {} |-> None]
  /\ log = <<>>
  /\ request = None /\ chain = <<>> /\ at = "idle"
  /\ executed_count = 0 /\ ran = <<>>

Put(f, k, v) == [x \in DOMAIN f \cup {k} |-> IF x = k THEN v ELSE f[x]]
Get(f, k)    == IF k \in DOMAIN f THEN f[k] ELSE None

-----------------------------------------------------------------------------
(* Registration.                                                           *)

\* parse_segment: what a child is found by; PARAM and CATCH_ALL have one.
Key(seg) == IF seg[1] = "s" THEN seg ELSE <<seg[1]>>
Keys(path) == [i \in DOMAIN path |-> Key(path[i])]

is_dynamic_path(path) == \E i \in DOMAIN path : path[i][1] # "s"

\* RadixTree::insert: the nodes on the way; a node that is there keeps its
\* name.
WithNodes(path) ==
  LET way == {SubSeq(Keys(path), 1, i) : i \in 0..Len(path)}
      Name(n) == IF path[Len(n)][1] = "s" THEN None ELSE path[Len(n)][2]
  IN  [n \in DOMAIN names \cup way |-> IF n \in DOMAIN names THEN names[n] ELSE Name(n)]

\* The static nodes of a pattern's prefix.
find_or_create_prefix_node(prefix) == WithNodes(prefix)

AddRoute(r) ==
  /\ at = "idle" /\ Len(log) < MaxRoutes
  /\ IF is_dynamic_path(r.path)
     THEN /\ names' = WithNodes(r.path)
          /\ handlers' = Put(handlers, <<Keys(r.path), r.method>>, r)
          /\ UNCHANGED static_routes
     ELSE /\ static_routes' = Put(static_routes, <<r.path, r.slash, r.method>>, r)
          /\ UNCHANGED <<names, handlers>>
  /\ log' = Append(log, r)
  /\ UNCHANGED <<regex_routes, call>>

\* insert_regex: a pattern that is there gets one more method.
AddRegex(r) ==
  LET here  == IF r.prefix \in DOMAIN regex_routes THEN regex_routes[r.prefix] ELSE <<>>
      same  == {i \in DOMAIN here : here[i].pattern = r.pattern}
      fresh == [pattern |-> r.pattern, matches |-> r.matches,
                handlers |-> [m \in {r.method} |-> r]]
      more  == IF same = {} THEN Append(here, fresh)
               ELSE LET i == CHOOSE i \in same : TRUE
                    IN  [here EXCEPT ![i].handlers = Put(@, r.method, r)]
  IN  /\ at = "idle" /\ Len(log) < MaxRoutes
      /\ names' = find_or_create_prefix_node(r.prefix)
      /\ regex_routes' = Put(regex_routes, r.prefix, more)
      /\ log' = Append(log, r)
      /\ UNCHANGED <<static_routes, handlers, call>>

-----------------------------------------------------------------------------
(* The search.                                                             *)

NotFound == [route |-> None, params |-> <<>>]

\* Mutant: a static child that exists is the only way on.
RECURSIVE match_static_first(_, _, _, _)
match_static_first(node, segs, index, m) ==
  IF index > Len(segs)
  THEN [route |-> Get(handlers, <<node, m>>), params |-> <<>>]
  ELSE LET static == Append(node, <<"s", segs[index]>>)
           param  == Append(node, <<"p">>)
       IN  CASE static \in DOMAIN names -> match_static_first(static, segs, index + 1, m)
             [] static \notin DOMAIN names /\ param \in DOMAIN names
                  -> match_static_first(param, segs, index + 1, m)
             [] OTHER -> [route |-> Get(handlers, <<Append(node, <<"c">>), m>>), params |-> <<>>]
match_dynamic_greedy(segs, m) == match_static_first(Root, segs, 1, m)

RECURSIVE match_from(_, _, _, _)
match_from(node, segs, index, m) ==
  IF index > Len(segs)
  THEN [route |-> Get(handlers, <<node, m>>), params |-> <<>>]
  ELSE LET static   == Append(node, <<"s", segs[index]>>)
           param    == Append(node, <<"p">>)
           rest     == Append(node, <<"c">>)
           ByStatic == IF static \in DOMAIN names
                       THEN match_from(static, segs, index + 1, m) ELSE NotFound
           ByParam  == IF param \in DOMAIN names
                       THEN match_from(param, segs, index + 1, m) ELSE NotFound
       IN  IF ByStatic.route # None THEN ByStatic
           ELSE IF ByParam.route # None
           THEN [ByParam EXCEPT !.params = <<<<names[param], <<segs[index]>>>>>> \o @]
           ELSE [route  |-> Get(handlers, <<rest, m>>),
                 params |-> IF rest \in DOMAIN names
                            THEN <<<<names[rest], SubSeq(segs, index, Len(segs))>>>>
                            ELSE <<>>]
match_dynamic(segs, m) == match_from(Root, segs, 1, m)

\* collect_prefix_nodes and match_regex_on_path: the deepest node first, and
\* at a node the pattern that came first.
match_regex(segs, m) ==
  LET way(k)    == [i \in 1..k |-> <<"s", segs[i]>>]
      depths    == {k \in 0..Len(segs) : \A j \in 0..k : way(j) \in DOMAIN names}
      at_node(k) == IF way(k) \in DOMAIN regex_routes THEN regex_routes[way(k)] ELSE <<>>
      hits      == {<<k, i>> \in depths \X (1..MaxRoutes) :
                      /\ i \in DOMAIN at_node(k)
                      /\ segs \in at_node(k)[i].matches
                      /\ m \in DOMAIN at_node(k)[i].handlers}
      best      == CHOOSE h \in hits : \A g \in hits :
                     h[1] > g[1] \/ (h[1] = g[1] /\ h[2] <= g[2])
  IN  IF hits = {} THEN None ELSE at_node(best[1])[best[2]].handlers[m]

\* is_homepage_alias: "/" and "/home"
IsAlias(segs, slash) == (segs = <<>> /\ slash) \/ (segs = <<"home">> /\ ~slash)

should_redirect_to_homepage(segs, slash, m) ==
  /\ Homepage # None /\ m \in {"GET", "HEAD"}
  /\ IsAlias(segs, slash) /\ ~IsAlias(Homepage, FALSE)

StaticPath(segs) == [i \in DOMAIN segs |-> <<"s", segs[i]>>]

find_route(segs, slash, m) ==
  LET static  == Get(static_routes, <<StaticPath(segs), slash, m>>)
      dynamic == match_dynamic(segs, m).route
  IN  IF should_redirect_to_homepage(segs, slash, m) THEN "homepage"
      ELSE IF static # None THEN static
      ELSE IF dynamic # None THEN dynamic
      ELSE match_regex(segs, m)

-----------------------------------------------------------------------------
(* route()                                                                 *)

\* The prefixes of the path, the short ones first, the path itself not.
collect_group_middlewares(segs) ==
  SelectSeq([k \in 1..(Len(segs) - 1) |-> SubSeq(segs, 1, k)],
            LAMBDA p : p \in Groups)

\* The global one, those of the groups, the one of the path.
Route(segs) ==
  /\ at = "idle"
  /\ request' = segs
  /\ chain' = <<"global">>
                \o (IF find_route(segs, FALSE, "GET") = None THEN <<>>
                    ELSE collect_group_middlewares(segs))
                \o <<"exact">>
  /\ at' = "before" /\ executed_count' = 0 /\ ran' = <<>>
  /\ UNCHANGED tree

Before(outcome) ==
  /\ at = "before"
  /\ IF outcome = "throws"
     THEN at' = "after" /\ UNCHANGED <<executed_count, ran>>
     ELSE /\ executed_count' = executed_count + 1
          /\ ran' = Append(ran, <<"before", chain[executed_count']>>)
          /\ at' = IF outcome = "stop" THEN "after"
                   ELSE IF executed_count' = Len(chain) THEN "handler" ELSE "before"
  /\ UNCHANGED <<tree, request, chain>>

\* The handler or the one for 404; what it throws goes to the exception handler.
Handle ==
  /\ at = "handler"
  /\ at' = "after"
  /\ UNCHANGED <<tree, request, chain, executed_count, ran>>

ExecuteAfter ==
  /\ at = "after" /\ executed_count > 0
  /\ ran' = Append(ran, <<"after", chain[executed_count]>>)
  /\ executed_count' = executed_count - 1
  /\ UNCHANGED <<tree, request, chain, at>>

\* Every middleware has been called back, or one has thrown.
Answered(threw) ==
  /\ at = "after" /\ (threw \/ executed_count = 0)
  /\ threw => executed_count > 0
  /\ at' = IF threw THEN "threw" ELSE "answered"
  /\ UNCHANGED <<tree, request, chain, executed_count, ran>>

Done ==
  /\ at \in {"answered", "threw"}
  /\ request' = None /\ chain' = <<>> /\ at' = "idle"
  /\ executed_count' = 0 /\ ran' = <<>>
  /\ UNCHANGED tree

Next ==
  \/ \E r \in PathRoutes : AddRoute(r)
  \/ \E r \in RegexRoutes : AddRegex(r)
  \/ \E p \in Asked : Route(p)
  \/ \E o \in {"goes on", "stop", "throws"} : Before(o)
  \/ Handle \/ ExecuteAfter
  \/ \E t \in BOOLEAN : Answered(t)
  \/ Done

Spec == Init /\ [][Next]_vars

-----------------------------------------------------------------------------
(* What the registrations alone say.                                       *)

Registered == {log[i] : i \in DOMAIN log}
Dynamic    == {r \in Registered \cap PathRoutes : is_dynamic_path(r.path)}

\* A catch-all takes one segment or more and has nothing after it.
Matches(path, segs) ==
  LET fixed == {i \in DOMAIN path : path[i][1] # "c"}
  IN  /\ \A i \in fixed : i <= Len(segs) /\ (path[i][1] = "s" => path[i][2] = segs[i])
      /\ \/ fixed = DOMAIN path /\ Len(segs) = Len(path)
         \/ fixed = 1..(Len(path) - 1) /\ Len(segs) >= Len(path)

Rank(seg) == CASE seg[1] = "s" -> 1 [] seg[1] = "p" -> 2 [] seg[1] = "c" -> 3

\* At the first segment where they differ, p is the more exact one.
Beats(p, q) ==
  \E i \in DOMAIN p \cap DOMAIN q :
    /\ Rank(p[i]) < Rank(q[i])
    /\ \A j \in 1..(i - 1) : Rank(p[j]) = Rank(q[j])

Latest(r) == \E i \in DOMAIN log :
  /\ log[i] = r
  /\ \A j \in (i + 1)..Len(log) :
       ~(log[j] \in PathRoutes /\ Keys(log[j].path) = Keys(r.path) /\ log[j].method = r.method)

(* Whatever the order of registration, the dynamic route found is the most *)
(* exact one that matches and has the method, and the latest of its shape; *)
(* if there is one at all, one is found.  Backtracking loses none.         *)
RouteIsBest ==
  at = "idle" =>
    \A segs \in Paths, m \in Methods :
      LET fit   == {r \in Dynamic : r.method = m /\ Matches(r.path, segs) /\ Latest(r)}
          found == match_dynamic(segs, m).route
      IN  IF fit = {} THEN found = None
          ELSE found \in fit /\ \A r \in fit : r = found \/ Beats(found.path, r.path)

(* The after calls of a request mirror its before calls: the middlewares   *)
(* whose before has returned, the one that stopped the chain included, are *)
(* called back in the opposite order.                                      *)
AfterMirrorsBefore ==
  at = "answered" =>
    \E k \in 0..Len(chain) :
      ran = [i \in 1..k |-> <<"before", chain[i]>>]
              \o [i \in 1..k |-> <<"after", chain[k + 1 - i]>>]

(* The route and the middlewares of a request are the registered ones.     *)
RoutingSound == RouteIsBest /\ AfterMirrorsBefore
=============================================================================
