------------------------------ MODULE RoleManager ------------------------------
(* packages/rbac: the roles of a RoleManager and how they inherit, the       *)
(* builder of hierarchies, the conditions of a ConditionalPermissionEngine,  *)
(* and what a PermissionGuard answers.  The order of a role's parents        *)
(* matters to none of them: parents are a set.                               *)
EXTENDS Naturals, FiniteSets, SequencesExt

CONSTANTS Names, Permissions,
          Hierarchies,  \* what builders are given: sequences of definitions
                        \* [name, permissions, inherits]
          Conditions,   \* conditions that can be attached ...
          Conditional,  \* ... to these permissions
          MaxGranted,   \* bound: permissions of all roles together
          MaxParents,   \* bound: parents of all roles together
          MaxAttached,  \* bound: conditions attached
          MaxSize       \* bound: all three together

Definitions == [name : Names, permissions : SUBSET Permissions, inherits : SUBSET Names]

(* What the constants are: the module that instantiates this one assumes it. *)
RoleAssumption ==
  /\ IsFiniteSet(Names) /\ IsFiniteSet(Permissions)
  /\ Hierarchies \subseteq Seq(Definitions)
  /\ Conditional \subseteq Permissions

VARIABLES roles,      \* name -> [permissions, inherits], of those that exist
          conditions  \* permission -> the conditions attached to it, in order

vars == <<roles, conditions>>

Role == [permissions : SUBSET Permissions, inherits : SUBSET Names]

TypeOK ==
  /\ DOMAIN roles \subseteq Names
  /\ \A n \in DOMAIN roles : roles[n] \in Role
  /\ conditions \in [Permissions -> Seq(Conditions)]

Init == roles = <<>> /\ conditions = [p \in Permissions |-> <<>>]

(* role?.inherits ?? []                                                      *)
ParentsIn(map, n) == IF n \in DOMAIN map THEN map[n].inherits ELSE {}
-----------------------------------------------------------------------------
(* Faulty variants of the operators below, used to check that the            *)
(* properties can fail.                                                      *)
OneLevel(map, n) ==
  LET near == {n} \cup ParentsIn(map, n)
  IN  [permissions |-> UNION {map[m].permissions : m \in near \cap DOMAIN map},
       fails |-> ~(near \subseteq DOMAIN map)]
ParentIsItself(map, n, parents) == n \in parents
ThrowIsYes(p, says) ==
  IF \E c \in ToSet(conditions[p]) : says[c] = "no" THEN "no" ELSE "yes"
-----------------------------------------------------------------------------
(* The walk that is made over the names in S: each in turn, its parents      *)
(* before the next, with one set of all names seen, which ends cycles.  A    *)
(* name that is no role has no parents.                                      *)
Walk(map) ==
  LET walk[w \in (SUBSET Names) \X (SUBSET Names)] ==
        LET S == w[1]
            seen == w[2]
            n == CHOOSE m \in S : TRUE
        IN  IF S = {} THEN seen
            ELSE walk[<<S \ {n}, IF n \in seen THEN seen
                                 ELSE walk[<<ParentsIn(map, n), seen \cup {n}>>]>>]
  IN  walk

Met(map, S) == Walk(map)[<<S, {}>>]

(* resolvePermissions(): throws where it meets a name that is no role.       *)
Resolve(map, n) ==
  LET met == Met(map, {n})
  IN  [permissions |-> UNION {map[m].permissions : m \in met \cap DOMAIN map},
       fails |-> ~(met \subseteq DOMAIN map)]

(* assertNoCycle(): throws where it meets n above its new parents.           *)
Cycle(map, n, parents) == n \in Met(map, parents)

(* getAncestorChain(), without its order.                                    *)
AncestorChain(map, n) == Met(map, ParentsIn(map, n))
-----------------------------------------------------------------------------
(* It asks neither whether the parents exist nor whether they inherit it.    *)
CreateRole(n, permissions, parents) ==
  /\ n \notin DOMAIN roles
  /\ roles' = [m \in DOMAIN roles \cup {n} |->
                IF m = n THEN [permissions |-> permissions, inherits |-> parents]
                ELSE roles[m]]
  /\ UNCHANGED conditions

(* Roles that inherit it go on naming it.                                    *)
DeleteRole(n) ==
  /\ n \in DOMAIN roles
  /\ roles' = [m \in DOMAIN roles \ {n} |-> roles[m]]
  /\ UNCHANGED conditions

AddPermission(n, p) ==
  /\ n \in DOMAIN roles
  /\ roles' = [roles EXCEPT ![n].permissions = @ \cup {p}]
  /\ UNCHANGED conditions

RemovePermission(n, p) ==
  /\ n \in DOMAIN roles
  /\ roles' = [roles EXCEPT ![n].permissions = @ \ {p}]
  /\ UNCHANGED conditions

SetInheritance(n, parents) ==
  /\ n \in DOMAIN roles
  /\ ~Cycle(roles, n, parents)
  /\ roles' = [roles EXCEPT ![n].inherits = parents]
  /\ UNCHANGED conditions

(* build(), first pass: the roles that do not exist, without parents; of two *)
(* definitions of a name the first ...                                       *)
Created(map, definitions) ==
  [n \in DOMAIN map \cup {definitions[i].name : i \in DOMAIN definitions} |->
     IF n \in DOMAIN map THEN map[n]
     ELSE LET i == SelectInSeq(definitions, LAMBDA d : d.name = n)
          IN  [permissions |-> definitions[i].permissions, inherits |-> {}]]

(* ... second pass: the parents, until one of them throws, which undoes      *)
(* nothing.                                                                  *)
WiredBy(b, d) ==
  IF b.throws \/ d.inherits = {} THEN b
  ELSE IF Cycle(b.map, d.name, d.inherits) THEN [b EXCEPT !.throws = TRUE]
  ELSE [b EXCEPT !.map[d.name].inherits = d.inherits]

Wired(map, definitions) ==
  LET wired[i \in 0 .. Len(definitions)] ==
        IF i = 0 THEN [map |-> map, throws |-> FALSE]
        ELSE WiredBy(wired[i - 1], definitions[i])
  IN  wired[Len(definitions)]

Build(definitions) ==
  /\ roles' = Wired(Created(roles, definitions), definitions).map
  /\ UNCHANGED conditions

AddCondition(p, c) ==
  /\ conditions' = [conditions EXCEPT ![p] = Append(@, c)]
  /\ UNCHANGED roles

Clear(p) ==
  /\ conditions' = [conditions EXCEPT ![p] = <<>>]
  /\ UNCHANGED roles

Small(map, rules) ==
  LET granted == MapThenSumSet(LAMBDA n : Cardinality(map[n].permissions), DOMAIN map)
      parents == MapThenSumSet(LAMBDA n : Cardinality(map[n].inherits), DOMAIN map)
      attached == MapThenSumSet(LAMBDA p : Len(rules[p]), Permissions)
  IN  /\ granted <= MaxGranted /\ parents <= MaxParents /\ attached <= MaxAttached
      /\ granted + parents + attached <= MaxSize

Step ==
  \/ \E n \in Names :
       \/ DeleteRole(n)
       \/ \E p \in Permissions : AddPermission(n, p) \/ RemovePermission(n, p)
       \/ \E parents \in SUBSET Names :
            \/ SetInheritance(n, parents)
            \/ \E permissions \in SUBSET Permissions : CreateRole(n, permissions, parents)
  \/ \E definitions \in Hierarchies : Build(definitions)
  \/ \E p \in Conditional : Clear(p) \/ \E c \in Conditions : AddCondition(p, c)

Next == Step /\ Small(roles', conditions')

Spec == Init /\ [][Next]_vars
-----------------------------------------------------------------------------
(* The guard, given what resolvePermissions answers for each name.  some and *)
(* every ask in order, and stop at the first answer that decides, or throws. *)
SomeOf(answers) ==
  LET i == SelectInSeq(answers, LAMBDA a : a # "no") IN IF i = 0 THEN "no" ELSE answers[i]

EveryOf(answers) ==
  LET i == SelectInSeq(answers, LAMBDA a : a # "yes") IN IF i = 0 THEN "yes" ELSE answers[i]

HasPermission(resolved, n, p) ==
  IF resolved[n].fails THEN "throws"
  ELSE IF p \in resolved[n].permissions THEN "yes" ELSE "no"

(* evaluate(): what the conditions of p, in the order they were attached,    *)
(* say of the request's context; one may throw over what the context lacks,  *)
(* and nothing catches it.                                                   *)
Evaluate(p, says) == EveryOf([i \in DOMAIN conditions[p] |-> says[conditions[p][i]]])

Permitted(resolved, held, p, says) ==
  LET has == SomeOf([i \in DOMAIN held |-> HasPermission(resolved, held[i], p)])
  IN  IF has = "yes" THEN Evaluate(p, says) ELSE has

Require(resolved, held, wanted, says) ==
  IF held = <<>> THEN "no"
  ELSE EveryOf([i \in DOMAIN wanted |-> Permitted(resolved, held, wanted[i], says)])

RequireAny(resolved, held, wanted, says) ==
  SomeOf([i \in DOMAIN wanted |-> Permitted(resolved, held, wanted[i], says)])
-----------------------------------------------------------------------------
(* The names above n, apart from any walk: what is in every set that has its *)
(* parents and the parents of its members.                                   *)
Above(map, n) ==
  LET Closed(S) == \A m \in S \cup {n} : ParentsIn(map, m) \subseteq S
  IN  {m \in Names : \A S \in SUBSET Names : Closed(S) => m \in S}

Attached == UNION {ToSet(conditions[p]) : p \in Permissions}

(* However roles are created, wired, deleted and created again: a role has   *)
(* its own permissions and those of all names above it, diamonds and cycles  *)
(* included, or resolving it throws, exactly when one of these is no role.   *)
(* The guards let a request with some roles through only if these have the   *)
(* permissions it takes and their conditions hold, refuse it only if not,    *)
(* and throw only over a missing role or a condition that throws of a        *)
(* permission the roles have: as the README's own approve:expense does over  *)
(* the empty context a guard without buildContext passes (README: user must  *)
(* have all listed permissions; inheritance is cycle-safe).                  *)
AccessAsInherited ==
  LET resolved == [n \in Names |-> Resolve(roles, n)]
      family == [n \in Names |-> {n} \cup Above(roles, n)]
      has == [n \in Names |->
                UNION {roles[m].permissions : m \in family[n] \cap DOMAIN roles}]
      Lacks(n) == ~(family[n] \subseteq DOMAIN roles)
      Has(held, p) == \E i \in DOMAIN held : p \in has[held[i]]
      Due(held, p, says) == Has(held, p) /\ \A c \in ToSet(conditions[p]) : says[c] = "yes"
      Breaks(held, p, says) ==
        Has(held, p) /\ \E c \in ToSet(conditions[p]) : says[c] = "throws"
      Right(answer, held, wanted, says, due) ==
        CASE answer = "yes" -> due
          [] answer = "no" -> ~due
          [] OTHER -> \/ \E i \in DOMAIN held : Lacks(held[i])
                      \/ \E i \in DOMAIN wanted : Breaks(held, wanted[i], says)
  IN  /\ TypeOK
      /\ \A n \in Names :
           /\ AncestorChain(roles, n) = Above(roles, n)
           /\ IF Lacks(n) THEN resolved[n].fails
              ELSE ~resolved[n].fails /\ resolved[n].permissions = has[n]
      /\ \A held \in SetToAllKPermutations(Names), wanted \in SetToAllKPermutations(Permissions),
            says \in [Attached -> {"yes", "no", "throws"}] :
           /\ Right(Require(resolved, held, wanted, says), held, wanted, says,
                    held # <<>> /\ \A i \in DOMAIN wanted : Due(held, wanted[i], says))
           /\ Right(RequireAny(resolved, held, wanted, says), held, wanted, says,
                    \E i \in DOMAIN wanted : Due(held, wanted[i], says))

(* README: setInheritance throws on cycles.  Neither it nor a builder, which *)
(* goes through it, puts a role above itself: only createRole can, by naming *)
(* parents that already inherit the new role.                                *)
NoCycleBySetting ==
  [][\A n \in Names :
       n \notin Above(roles, n) /\ n \in Above(roles', n) =>
         \E m \in Names, parents \in SUBSET Names, permissions \in SUBSET Permissions :
           CreateRole(m, permissions, parents)]_vars
=============================================================================
