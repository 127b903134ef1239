---------------------------- MODULE SchemaHistory ----------------------------
(***************************************************************************)
(* What db-migrator promises (cmd/db-migrator/migrator.go): the schema of  *)
(* each database is a history of migration files, in which a version takes *)
(* effect once, whole, and after the files that its release puts before    *)
(* it; and a task that ends with 0 finds all the files of its release in   *)
(* all the databases.  No checks, no transactions, no tasks at work.       *)
(***************************************************************************)
EXTENDS Naturals, Sequences

CONSTANTS
    Tasks,      \* runs of the migrator
    Databases,  \* the databases, numbered in the order of migrationTargets
    Releases,   \* releases of the image
    Files,      \* by release and database, its files in their order
    FirstSchema,  \* the schemas that there may be at first
    None        \* no release

VARIABLES
    schema,     \* by database, the files that have taken effect, in their order
    installed   \* by task, the release that it has installed

hvars == <<schema, installed>>

IsIn(f, d) == \E i \in DOMAIN schema[d] : schema[d][i] = f

IsNew(f, d) == \A i \in DOMAIN schema[d] : schema[d][i].version # f.version

\* The files of r that come before the n-th file of d.
EarlierAreIn(r, d, n) ==
    /\ \A e \in Databases : e < d => \A i \in DOMAIN Files[r][e] : IsIn(Files[r][e][i], e)
    /\ \A i \in DOMAIN Files[r][d] : i < n => IsIn(Files[r][d][i], d)

AllAreIn(r) == \A d \in Databases : \A i \in DOMAIN Files[r][d] : IsIn(Files[r][d][i], d)

Init ==
    /\ schema \in FirstSchema
    /\ installed = [t \in Tasks |-> None]

\* The next file of a release takes effect.
Apply(r, d, n) ==
    /\ IsNew(Files[r][d][n], d)
    /\ EarlierAreIn(r, d, n)
    /\ schema' = [schema EXCEPT ![d] = Append(@, Files[r][d][n])]
    /\ UNCHANGED installed

\* A task ends with 0.
Succeed(t, r) ==
    /\ AllAreIn(r)
    /\ installed' = [installed EXCEPT ![t] = r]
    /\ UNCHANGED schema

Next ==
    \/ \E r \in Releases, d \in Databases :
          \E n \in DOMAIN Files[r][d] : Apply(r, d, n)
    \/ \E t \in Tasks, r \in Releases : Succeed(t, r)

Spec == Init /\ [][Next]_hvars
=============================================================================
