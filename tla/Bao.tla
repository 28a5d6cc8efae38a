--------------------------------- MODULE Bao ---------------------------------
(***************************************************************************)
(* baohttp/bao: the web framework.  The program registers groups, their    *)
(* middlewares and routes; then requests are served: the groups whose      *)
(* prefix the path has give the middlewares, the trie gives the route, and *)
(* BaoChain runs them.                                                     *)
(*                                                                         *)
(* A path or a pattern is a sequence of tokens, "/", ":" and "*" among     *)
(* them, and a part of it a sequence of tokens without "/".                *)
(***************************************************************************)
EXTENDS BaoChain
LOCAL INSTANCE SequencesExt
LOCAL INSTANCE FiniteSetsExt

CONSTANTS
  Methods,      \* "GET", "POST"
  GroupPrefixes,   \* the arguments of Group
  Comps,        \* the arguments of GET and POST
  Paths,        \* the paths of requests
  Kinds,        \* what handlers do: see CallsNext
  MaxRoutes, MaxGroups, MaxUses,   \* bounds on what is registered
  MaxServed     \* bound: programs with more routes are not run

VARIABLES
  groups,    \* engine.groups: [prefix, middlewares]
  routes,    \* the calls of addRoute: [method, pattern, group]
  roots,     \* router.roots: the root node for each method
  handlers,  \* router.handlers: the route last added for a method and pattern
  request    \* the request that is served: <<method, path>>, <<>> before

baoServing == <<request, chainVars>>
baoVars == <<groups, routes, roots, handlers, baoServing>>

NoPattern == <<>>
Node(part) == [part |-> part, pattern |-> NoPattern, children |-> <<>>]
NoNode == Node(<<"no node">>)

\* NewEngine: the root group, with Recovery in front.
BaoInit ==
  /\ groups = <<[prefix |-> <<>>, middlewares |-> <<"recovery">>]>>
  /\ routes = <<>> /\ handlers = <<>>
  /\ roots = [m \in {} |-> NoNode]
  /\ request = <<>> /\ ChainInit

-----------------------------------------------------------------------------
(***************************************************************************)
(* The trie.                                                               *)
(***************************************************************************)

\* strings.Split at "/", without the empty parts.
Parts[s \in Seq(STRING)] ==
  IF s = <<>> THEN <<>>
  ELSE LET cut == SelectInSeq(s, LAMBDA c : c = "/")
       IN  IF cut = 0 THEN <<s>>
           ELSE (IF cut = 1 THEN <<>> ELSE <<SubSeq(s, 1, cut - 1)>>)
                  \o Parts[SubSeq(s, cut + 1, Len(s))]

\* A part that begins with "*" is the last one.
parsePattern(s) ==
  LET parts == Parts[s]
      star == SelectInSeq(parts, LAMBDA part : part[1] = "*")
  IN  IF star = 0 THEN parts ELSE SubSeq(parts, 1, star)

isWild(part) == part[1] \in {":", "*"}
matches(child, part) == child.part = part \/ isWild(child.part)

\* The first child that matches, 0 for none.
matchChild(n, part) == SelectInSeq(n.children, LAMBDA child : matches(child, part))
matchChildren(n, part) == SelectSeq(n.children, LAMBDA child : matches(child, part))

RECURSIVE insert(_, _, _), search(_, _)

\* One level of insert.  The child of another part is taken if it is wild.
insertPart(n, pattern, parts) ==
  LET k == matchChild(n, Head(parts))
  IN  IF k = 0
      THEN [n EXCEPT !.children = Append(@, insert(Node(Head(parts)), pattern, Tail(parts)))]
      ELSE [n EXCEPT !.children[k] = insert(@, pattern, Tail(parts))]

insert(n, pattern, parts) ==
  IF parts = <<>> THEN [n EXCEPT !.pattern = pattern] ELSE insertPart(n, pattern, parts)

\* The first child under which the rest of the path is found.
search(n, parts) ==
  IF parts = <<>> THEN IF n.pattern = NoPattern THEN NoNode ELSE n
  ELSE LET children == matchChildren(n, Head(parts))
           found == SelectSeq([k \in DOMAIN children |-> search(children[k], Tail(parts))],
                              LAMBDA res : res # NoNode)
       IN  IF found = <<>> THEN NoNode ELSE found[1]

\* getRoute: the pattern, NoPattern for none, and what its parameters stand
\* for.  "*name" stands for the rest of the path.
getRoute(method, path) ==
  LET searchParts == parsePattern(path)
      n == IF method \in DOMAIN roots THEN search(roots[method], searchParts) ELSE NoNode
      parts == parsePattern(n.pattern)
      named == {k \in DOMAIN parts : parts[k][1] = ":" \/ (parts[k][1] = "*" /\ Len(parts[k]) > 1)}
      last(name) == Max({k \in named : Tail(parts[k]) = name})
  IN  [pattern |-> n.pattern,
       params |-> [name \in {Tail(parts[k]) : k \in named} |->
                     IF parts[last(name)][1] = ":" THEN <<searchParts[last(name)]>>
                     ELSE SubSeq(searchParts, last(name), Len(searchParts))]]

-----------------------------------------------------------------------------
(***************************************************************************)
(* The program sets the engine up.                                         *)
(***************************************************************************)

\* RouterGroup.Group
Group(g, prefix) ==
  /\ request = <<>> /\ Len(groups) < MaxGroups
  /\ groups' = Append(groups, [prefix |-> groups[g].prefix \o prefix, middlewares |-> <<>>])
  /\ UNCHANGED <<routes, roots, handlers, baoServing>>

\* RouterGroup.Use
Use(g, kind) ==
  /\ request = <<>>
  /\ FoldSeq(LAMBDA x, n : Len(x.middlewares) + n, 0, groups) <= MaxUses
  /\ groups' = [groups EXCEPT ![g].middlewares = Append(@, kind)]
  /\ UNCHANGED <<routes, roots, handlers, baoServing>>

\* RouterGroup.GET and POST, and router.addRoute.
addRoute(g, method, comp) ==
  LET pattern == groups[g].prefix \o comp
  IN  /\ request = <<>> /\ Len(routes) < MaxRoutes
      /\ routes' = Append(routes, [method |-> method, pattern |-> pattern, group |-> g])
      /\ roots' = [m \in DOMAIN roots \cup {method} |->
                     IF m # method THEN roots[m]
                     ELSE insert(IF m \in DOMAIN roots THEN roots[m] ELSE Node(<<>>),
                                 pattern, parsePattern(pattern))]
      /\ handlers' = [k \in DOMAIN handlers \cup {<<method, pattern>>} |->
                        IF k = <<method, pattern>> THEN Len(routes) + 1 ELSE handlers[k]]
      /\ UNCHANGED <<groups, baoServing>>

-----------------------------------------------------------------------------
(***************************************************************************)
(* A request.                                                              *)
(***************************************************************************)

\* The middlewares of every group whose prefix the path has, as a string.
Middlewares(path) ==
  FlattenSeq([g \in DOMAIN groups |->
    IF IsPrefix(groups[g].prefix, path) THEN groups[g].middlewares ELSE <<>>])

\* ServeHTTP and handle: the handler of the route, which may be anything, or
\* the one that answers 404, comes behind the middlewares; then c.Next().
ServeHTTP(method, path, kind) ==
  /\ request = <<>> /\ routes # <<>> /\ Len(routes) <= MaxServed
  /\ getRoute(method, path).pattern = NoPattern => kind = "plain"
  /\ request' = <<method, path>>
  /\ Starts(Append(Middlewares(path), kind))
  /\ UNCHANGED <<groups, routes, roots, handlers>>

\* The chain runs.
RunsChain == ChainRunsOn /\ UNCHANGED <<groups, routes, roots, handlers, request>>

BaoNext ==
  \/ \E g \in DOMAIN groups :
       \/ \E prefix \in GroupPrefixes : Group(g, prefix)
       \/ \E comp \in Comps, method \in Methods : addRoute(g, method, comp)
       \/ \E kind \in Kinds : Use(g, kind)
  \/ \E method \in Methods, path \in Paths, kind \in Kinds : ServeHTTP(method, path, kind)
  \/ RunsChain

BaoSpec == BaoInit /\ [][BaoNext]_baoVars

-----------------------------------------------------------------------------
(***************************************************************************)
(* Properties.                                                             *)
(***************************************************************************)

\* What a pattern promises.  search has no special case for "*", which stands
\* for one part, like ":".
Match(pattern, path) ==
  LET p == parsePattern(pattern)  s == parsePattern(path)
  IN  Len(p) = Len(s) /\ \A k \in DOMAIN p : isWild(p[k]) \/ p[k] = s[k]

Patterns(method) == {routes[k].pattern : k \in {j \in DOMAIN routes : routes[j].method = method}}

\* Two patterns, in parts, that differ first at a wildcard: insert, which takes
\* any wild child for the part it looks for, lets the one overwrite or extend
\* the other.
Clash(s, t) ==
  \E k \in DOMAIN s \cap DOMAIN t :
    /\ SubSeq(s, 1, k - 1) = SubSeq(t, 1, k - 1)
    /\ s[k] # t[k] /\ (isWild(s[k]) \/ isWild(t[k]))
ClashFree(parsed) == \A s, t \in parsed : ~Clash(s, t)

\* What the trie finds is a pattern that has a handler, and without clashes it
\* is one that the path matches.
RouterFinds ==
  request = <<>> => \A method \in Methods, path \in Paths :
    \A found \in {getRoute(method, path).pattern} \ {NoPattern} :
      /\ <<method, found>> \in DOMAIN handlers
      /\ ClashFree({parsePattern(p) : p \in Patterns(method)}) => Match(found, path)

\* Whatever clashes, no route that was added becomes unreachable: a path that
\* matches one gets some handler, not the 404.
RouterKeeps ==
  request = <<>> => \A method \in Methods, path \in Paths :
    (\E p \in Patterns(method) : Match(p, path)) => getRoute(method, path).pattern # NoPattern

\* The router does not see empty parts, the search for the groups of a request
\* compares strings: //a/b reaches a route of group /a without its middlewares,
\* and so does /a/b a route of group //a, nested as Group("/").Group("/a").
NoEmptyPart(s) ==
  s # <<>> => s[1] = "/" /\ \A k \in 2 .. Len(s) : s[k] = "/" => s[k - 1] # "/"
PlainPrefix(prefix) ==
  /\ NoEmptyPart(prefix) /\ (Len(prefix) > 1 => prefix[Len(prefix)] # "/")
  /\ SelectInSeq(parsePattern(prefix), isWild) = 0

\* Recovery comes first in every chain.  The middlewares of a group run for
\* every route of the group, if its prefix has neither parameters nor empty
\* parts, nor a slash at its end, and the path of the request no empty part.
GroupsCover ==
  request # <<>> =>
    /\ chain[1] = "recovery"
    /\ \A k \in DOMAIN routes :
         LET prefix == groups[routes[k].group].prefix
         IN  /\ routes[k].method = request[1] /\ Match(routes[k].pattern, request[2])
             /\ NoEmptyPart(request[2]) /\ PlainPrefix(prefix)
             => IsPrefix(prefix, request[2])

BaoServes == RouterFinds /\ RouterKeeps /\ ChainRuns /\ GroupsCover
=============================================================================
