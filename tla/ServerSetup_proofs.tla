------------------------- MODULE ServerSetup_proofs -------------------------
(***************************************************************************)
(* What ServerSetup promises of the table of parsers, for any types,       *)
(* parsers, hosts and any number of restarts; and of the limits a request  *)
(* gets from nested sections, for words, units and sizes of any kind.      *)
(***************************************************************************)
EXTENDS ServerSetup, TLAPS

Tables == [Types -> Parsers \cup {NoParser}]
Pools  == [of : {"none", "config", "perl"}, number : Nat]

\* The table is there exactly when its pool is, the pool is alive, and the
\* table says what has been promised.  Perl's table is locked from the start
\* and so has the library's parsers only.
RegistryInv ==
    /\ registry \in [pool : Pools, lock : BOOLEAN, table : Tables \cup {NoTable}]
    /\ generation \in Nat /\ boots \in Nat
    /\ promised \in Tables
    /\ refused \in BOOLEAN
    /\ registry.pool = NoPool => registry = Fresh /\ promised = BuiltIn
    /\ registry.pool # NoPool => /\ Alive(registry.pool)
                                 /\ registry.table = promised
    /\ registry.pool.of = "perl" => /\ registry.lock /\ boots > 0
                                    /\ registry.table = BuiltIn
    /\ phase = "config" /\ registry.pool # NoPool => registry.pool.of = "perl"
    /\ phase = "middle" => /\ registry.pool # NoPool
                           /\ registry.lock => boots > 0
    /\ phase = "serving" => registry.pool # NoPool /\ registry.lock
    /\ refused => boots > 0

\* A table is not NULL: there is a media type.
LEMMA TableIsNotNull ==
    /\ NoTable \notin Tables
    /\ BuiltIn \in Tables
<1>1. ASSUME NoTable \in Tables PROVE FALSE
  <2>1. DOMAIN NoTable = {}
    BY DEF NoTable
  <2>2. DOMAIN NoTable = Types
    BY <1>1 DEF Tables
  <2> QED
    BY <2>1, <2>2, SetupAssumption
<1>2. BuiltIn \in Tables
  BY SetupAssumption DEF Tables
<1> QED
  BY <1>1, <1>2

LEMMA RegistryInit == Init => RegistryInv
<1> SUFFICES ASSUME Init PROVE RegistryInv
  OBVIOUS
<1> QED
  BY TableIsNotNull
  DEF Init, RegistryInv, Fresh, NoPool, Pools

\* A step of another module's registration.
LEMMA RegisterKeeps == RegistryInv /\ Register => RegistryInv'
<1> SUFFICES ASSUME RegistryInv, Register PROVE RegistryInv'
  OBVIOUS
<1>1. PICK t \in Types, p \in Parsers \cup {NoParser} :
        LET answer == RegisterParser(registry, t, p)
        IN  /\ registry' = answer.registry
            /\ promised' = IF answer.status = "SUCCESS"
                           THEN [promised EXCEPT ![t] = p] ELSE promised
            /\ refused' = (refused \/ ( /\ phase = "middle"
                                        /\ answer.status # "SUCCESS"))
  BY DEF Register
<1>2. UNCHANGED <<generation, phase, boots>>
  BY DEF Register
<1>3. CASE registry.table = NoTable
  <2>1. registry.pool = NoPool
    BY <1>3, TableIsNotNull DEF RegistryInv
  <2>2. phase # "middle"
    BY <2>1 DEF RegistryInv
  <2>3. UNCHANGED <<registry, promised, refused>>
    BY <1>1, <1>3, <2>2 DEF RegisterParser, Answer, RegistryInv
  <2> QED
    BY <1>2, <2>3 DEF RegistryInv, Alive, ConfigPool
<1>4. CASE registry.table # NoTable /\ registry.lock
  <2>1. UNCHANGED <<registry, promised>>
    BY <1>1, <1>4 DEF RegisterParser, Answer
  <2>2. (refused' => boots > 0) /\ refused' \in BOOLEAN
    BY <1>1, <1>4 DEF RegistryInv
  <2> QED
    BY <1>2, <2>1, <2>2 DEF RegistryInv, Alive, ConfigPool
<1>5. CASE registry.table # NoTable /\ ~registry.lock
  <2>1. /\ registry' = [registry EXCEPT !.table = [registry.table EXCEPT ![t] = p]]
        /\ promised' = [promised EXCEPT ![t] = p]
        /\ refused' = refused
    BY <1>1, <1>5 DEF RegisterParser, Answer, RegistryInv
  <2>2. registry.pool # NoPool /\ registry.pool.of # "perl"
    BY <1>5 DEF RegistryInv, Fresh
  <2>3. registry.table \in Tables /\ [registry.table EXCEPT ![t] = p] \in Tables
    BY <2>2, <1>1 DEF RegistryInv, Tables
  <2>4. /\ registry'.pool = registry.pool
        /\ registry'.lock = registry.lock
        /\ registry'.table = promised'
        /\ promised' \in Tables
        /\ registry' \in [pool : Pools, lock : BOOLEAN, table : Tables \cup {NoTable}]
    BY <2>1, <2>2, <2>3 DEF RegistryInv
  <2> QED
    BY <1>2, <2>1, <2>2, <2>4 DEF RegistryInv, Alive, ConfigPool
<1> QED
  BY <1>3, <1>4, <1>5

LEMMA AnswerRegistry ==
    ASSUME NEW s, NEW g
    PROVE  Answer(s, g).registry = g
  BY DEF Answer

\* apreq_initialize leaves a locked table behind, whichever pool it is given.
LEMMA InitializeLocks ==
    ASSUME RegistryInv, NEW home \in Pools
    PROVE  /\ registry.pool # NoPool =>
                Initialize(registry, home).registry
                  = [registry EXCEPT !.lock = TRUE]
           /\ registry.pool = NoPool /\ home # NoPool =>
                LET new == Initialize(registry, home).registry
                IN  /\ new.pool = home /\ new.lock = TRUE
                    /\ new.table = BuiltIn
                    /\ new \in [pool : Pools, lock : BOOLEAN,
                               table : Tables \cup {NoTable}]
<1>1. CASE registry.pool # NoPool
  <2>1. PreInitialize(registry, home) = Answer("SUCCESS", registry)
    BY <1>1 DEF PreInitialize
  <2>2. PostInitialize(registry)
          = Answer("SUCCESS", [registry EXCEPT !.lock = TRUE])
    BY <1>1 DEF PostInitialize
  <2>3. Initialize(registry, home) = PostInitialize(registry)
    BY <2>1 DEF Initialize, Answer
  <2> QED
    BY <1>1, <2>2, <2>3 DEF Answer
<1>2. CASE registry.pool = NoPool /\ home # NoPool
  <2> DEFINE made == [pool |-> home, lock |-> FALSE, table |-> BuiltIn]
  <2>1. PreInitialize(registry, home) = Answer("SUCCESS", made)
    <3>1. registry.lock = FALSE
      BY <1>2 DEF RegistryInv, Fresh
    <3> QED
      BY <1>2, <3>1 DEF PreInitialize
  <2>2. PostInitialize(made) = Answer("SUCCESS", [made EXCEPT !.lock = TRUE])
    BY <1>2 DEF PostInitialize
  <2>3. Initialize(registry, home) = PostInitialize(made)
    BY <2>1 DEF Initialize, Answer
  <2>4. Initialize(registry, home).registry = [made EXCEPT !.lock = TRUE]
    BY <2>2, <2>3, AnswerRegistry
  <2>5. /\ [made EXCEPT !.lock = TRUE].pool = home
        /\ [made EXCEPT !.lock = TRUE].lock = TRUE
        /\ [made EXCEPT !.lock = TRUE].table = BuiltIn
    OBVIOUS
  <2>6. [made EXCEPT !.lock = TRUE]
          \in [pool : Pools, lock : BOOLEAN, table : Tables \cup {NoTable}]
    BY TableIsNotNull
  <2> QED
    BY <1>2, <2>4, <2>5, <2>6
<1> QED
  BY <1>1, <1>2

LEMMA BootKeeps == RegistryInv /\ Boot => RegistryInv'
<1> SUFFICES ASSUME RegistryInv, Boot PROVE RegistryInv'
  OBVIOUS
<1>1. /\ boots' = boots + 1
      /\ UNCHANGED <<generation, promised, refused>>
      /\ phase' \in {phase, "serving"}
  BY DEF Boot
<1>2. PerlPool(boots + 1) \in Pools /\ PerlPool(boots + 1) # NoPool
  BY DEF RegistryInv, PerlPool, Pools, NoPool
<1>3. registry' = Initialize(registry, PerlPool(boots + 1)).registry
  BY DEF Boot
<1>4. CASE registry.pool # NoPool
  <2>1. registry' = [registry EXCEPT !.lock = TRUE]
    BY <1>2, <1>3, <1>4, InitializeLocks
  <2> QED
    <3>1. /\ registry'.pool = registry.pool
          /\ registry'.lock
          /\ registry'.table = registry.table
          /\ registry' \in [pool : Pools, lock : BOOLEAN,
                           table : Tables \cup {NoTable}]
      BY <2>1 DEF RegistryInv
    <3>2. boots' \in Nat /\ boots' > 0
      BY <1>1 DEF RegistryInv
    <3> QED
      BY <1>1, <1>4, <3>1, <3>2 DEF RegistryInv, Alive, ConfigPool
<1>5. CASE registry.pool = NoPool
  <2>1. /\ registry'.pool = PerlPool(boots + 1)
        /\ registry'.lock /\ registry'.table = BuiltIn
        /\ registry' \in [pool : Pools, lock : BOOLEAN,
                         table : Tables \cup {NoTable}]
    BY <1>2, <1>3, <1>5, InitializeLocks
  <2> QED
    <3>1. registry'.pool # NoPool /\ registry'.pool.of = "perl"
      BY <1>2, <2>1 DEF PerlPool
    <3>2. promised' = BuiltIn
      BY <1>1, <1>5 DEF RegistryInv
    <3>3. boots' \in Nat /\ boots' > 0
      BY <1>1 DEF RegistryInv
    <3>4. Alive(registry.pool)'
      BY <3>1 DEF Alive
    <3> QED
      BY <1>1, <2>1, <3>1, <3>2, <3>3, <3>4, TableIsNotNull DEF RegistryInv
<1> QED
  BY <1>4, <1>5

LEMMA HooksKeep ==
    RegistryInv /\ (PreInit \/ PreInitFails \/ PostInit) => RegistryInv'
<1> USE DEF ConfigPool, Alive
<1>1. ASSUME RegistryInv, PreInit PROVE RegistryInv'
  <2>1. CASE registry.pool # NoPool
    <3>1. registry' = registry /\ phase' = "middle"
      BY <1>1, <2>1 DEF PreInit, PreInitialize, Answer
    <3> QED
      BY <1>1, <2>1, <3>1 DEF PreInit, RegistryInv, Counts
  <2>2. CASE registry.pool = NoPool
    <3>1. registry.lock = FALSE /\ promised = BuiltIn
      BY <1>1, <2>2 DEF RegistryInv, Fresh
    <3>2. /\ registry' = [pool |-> ConfigPool(generation),
                          lock |-> FALSE, table |-> BuiltIn]
          /\ phase' = "middle"
      BY <1>1, <2>2, <3>1 DEF PreInit, PreInitialize, Answer
    <3>3. ConfigPool(generation) \in Pools \ {NoPool}
      BY <1>1 DEF Pools, NoPool, RegistryInv
    <3>4. /\ registry'.pool = ConfigPool(generation)
          /\ registry'.lock = FALSE /\ registry'.table = BuiltIn
          /\ registry' \in [pool : Pools, lock : BOOLEAN,
                           table : Tables \cup {NoTable}]
      BY <3>2, <3>3, TableIsNotNull
    <3> QED
      BY <1>1, <3>1, <3>2, <3>3, <3>4 DEF PreInit, RegistryInv, Counts
  <2> QED
    BY <2>1, <2>2
<1>2. ASSUME RegistryInv, PreInitFails PROVE RegistryInv'
  BY <1>2 DEF PreInitFails, RegistryInv, Counts
<1>3. ASSUME RegistryInv, PostInit PROVE RegistryInv'
  <2>1. registry.pool # NoPool
    BY <1>3 DEF PostInit, RegistryInv
  <2>2. registry' = [registry EXCEPT !.lock = TRUE] /\ phase' = "serving"
    BY <1>3, <2>1 DEF PostInit, PostInitialize, Answer
  <2>3. /\ registry'.pool = registry.pool /\ registry'.lock
        /\ registry'.table = registry.table
        /\ registry' \in [pool : Pools, lock : BOOLEAN,
                         table : Tables \cup {NoTable}]
    BY <1>3, <2>2 DEF RegistryInv
  <2> QED
    BY <1>3, <2>1, <2>2, <2>3 DEF PostInit, RegistryInv, Counts
<1> QED
  BY <1>1, <1>2, <1>3

LEMMA Apache1InitKeeps == RegistryInv /\ Apache1Init => RegistryInv'
<1> SUFFICES ASSUME RegistryInv, Apache1Init PROVE RegistryInv'
  OBVIOUS
<1> USE DEF ConfigPool, Alive
<1>1. registry' = Initialize(registry, ConfigPool(generation)).registry
  BY DEF Apache1Init
<1>2. ConfigPool(generation) \in Pools \ {NoPool}
  BY DEF Pools, NoPool, RegistryInv
<1>3. UNCHANGED <<generation, boots, promised, refused>> /\ phase' = "serving"
  BY DEF Apache1Init, Counts
<1>4. CASE registry.pool # NoPool
  <2>1. registry' = [registry EXCEPT !.lock = TRUE]
    BY <1>1, <1>2, <1>4, InitializeLocks
  <2>2. /\ registry'.pool = registry.pool /\ registry'.lock
        /\ registry'.table = registry.table
        /\ registry' \in [pool : Pools, lock : BOOLEAN,
                         table : Tables \cup {NoTable}]
    BY <2>1 DEF RegistryInv
  <2> QED
    BY <1>3, <1>4, <2>2 DEF RegistryInv
<1>5. CASE registry.pool = NoPool
  <2>1. /\ registry'.pool = ConfigPool(generation)
        /\ registry'.lock /\ registry'.table = BuiltIn
        /\ registry' \in [pool : Pools, lock : BOOLEAN,
                         table : Tables \cup {NoTable}]
    BY <1>1, <1>2, <1>5, InitializeLocks
  <2>2. promised' = BuiltIn
    BY <1>3, <1>5 DEF RegistryInv
  <2> QED
    BY <1>2, <1>3, <2>1, <2>2, TableIsNotNull DEF RegistryInv
<1> QED
  BY <1>4, <1>5

LEMMA RestartKeeps == RegistryInv /\ Restart => RegistryInv'
<1> SUFFICES ASSUME RegistryInv, Restart PROVE RegistryInv'
  OBVIOUS
<1> USE DEF ConfigPool, Alive
<1>1. /\ generation' = generation + 1 /\ generation' \in Nat
      /\ boots' = boots /\ phase' = "config"
      /\ promised' = BuiltIn /\ refused' = FALSE
  BY DEF Restart, RegistryInv
<1>2. CASE registry.pool = ConfigPool(generation)
  <2>1. registry' = Fresh
    BY <1>2 DEF Restart, Cleanup, Fresh, RegistryInv
  <2>2. /\ registry'.pool = NoPool
        /\ NoPool \in Pools /\ NoPool.of = "none"
        /\ registry' \in [pool : Pools, lock : BOOLEAN,
                         table : Tables \cup {NoTable}]
    BY <2>1 DEF Fresh, NoPool, Pools
  <2> QED
    BY <1>1, <2>1, <2>2, TableIsNotNull DEF RegistryInv
<1>3. CASE registry.pool # ConfigPool(generation)
  <2>1. registry' = registry
    BY <1>3 DEF Restart
  <2>2. registry.pool # NoPool
    BY DEF Restart, RegistryInv
  <2>3. registry.pool.of = "perl"
    BY <1>3, <2>2 DEF RegistryInv
  <2> QED
    BY <1>1, <2>1, <2>2, <2>3, TableIsNotNull DEF RegistryInv
<1> QED
  BY <1>2, <1>3

\* The table of parsers is what RegistryInv says in every state.
THEOREM TableSound == Spec => []RegistryInv
<1>1. ASSUME RegistryInv, [Next]_vars PROVE RegistryInv'
  <2>1. CASE Directive \/ DirectiveInLimit
    BY <1>1, <2>1 DEF Directive, DirectiveInLimit, Counts, Settings,
                      RegistryInv, Alive, ConfigPool
  <2>2. CASE PreInit \/ PreInitFails \/ PostInit
    BY <1>1, <2>2, HooksKeep
  <2>3. CASE Register
    BY <1>1, <2>3, RegisterKeeps
  <2>4. CASE Apache1Init
    BY <1>1, <2>4, Apache1InitKeeps
  <2>5. CASE Boot
    BY <1>1, <2>5, BootKeeps
  <2>6. CASE Restart
    BY <1>1, <2>6, RestartKeeps
  <2>7. CASE UNCHANGED vars
    BY <1>1, <2>7 DEF vars, RegistryInv, Alive, ConfigPool
  <2> QED
    BY <1>1, <2>1, <2>2, <2>3, <2>4, <2>5, <2>6, <2>7 DEF Next
<1> QED
  BY <1>1, RegistryInit, PTL DEF Spec

\* Lookups give what registrations have asked for while requests are served,
\* for any types and any number of restarts and loads of the Perl module.
THEOREM ServedAsRegisteredHolds == Spec => []ServedAsRegistered
<1>1. RegistryInv => ServedAsRegistered
  BY DEF RegistryInv, ServedAsRegistered, Parser
<1> QED
  BY <1>1, TableSound, PTL

\* The hooks that start the server have no other way to fail than memory.
THEOREM StartupSucceedsHolds == Spec => []StartupSucceeds
<1>1. RegistryInv => StartupSucceeds
  BY DEF RegistryInv, StartupSucceeds, PreInitialize, PostInitialize, Answer,
         Fresh
<1> QED
  BY <1>1, TableSound, PTL

\* Nested sections can only lower the limit on what is read, and in which
\* order three of them are merged makes no difference.
THEOREM MergingLowers ==
    ASSUME NEW a \in [temp_dir : Dirs \cup {NoDir},
                      read_limit : 0 .. Unset, brigade_limit : 0 .. Unset],
           NEW b \in [temp_dir : Dirs \cup {NoDir},
                      read_limit : 0 .. Unset, brigade_limit : 0 .. Unset],
           NEW c \in [temp_dir : Dirs \cup {NoDir},
                      read_limit : 0 .. Unset, brigade_limit : 0 .. Unset]
    PROVE  /\ MergeDirConfig(a, b).read_limit <= a.read_limit
           /\ MergeDirConfig(a, b).read_limit <= b.read_limit
           /\ MergeDirConfig(MergeDirConfig(a, b), c)
                = MergeDirConfig(a, MergeDirConfig(b, c))
<1>0. Unset \in Int
  <2>1. WORD \in Nat
    BY SetupAssumption, Zenon
  <2> QED
    BY <2>1 DEF Unset
<1>1. /\ MergeDirConfig(a, b).read_limit <= a.read_limit
      /\ MergeDirConfig(a, b).read_limit <= b.read_limit
  BY <1>0 DEF MergeDirConfig
<1>2. MergeDirConfig(MergeDirConfig(a, b), c)
        = MergeDirConfig(a, MergeDirConfig(b, c))
  BY <1>0 DEF MergeDirConfig
<1> QED
  BY <1>1, <1>2

----------------------------------------------------------------------------
(* The limits. *)

ConfType == [temp_dir : Dirs \cup {NoDir}, read_limit : 0 .. Unset,
             brigade_limit : 0 .. Unset]

AskedType == SectionSet \X {"temp_dir"} \X Dirs
             \cup SectionSet \X {"read_limit", "brigade_limit"} \X Sizes

\* A section's configuration is what its directives have said: a size as the
\* word it is read as, and as unset when nothing was said.
ConfInv ==
    /\ conf \in [SectionSet -> ConfType]
    /\ asked \subseteq AskedType
    /\ \A s \in SectionSet :
        /\ \A v : <<s, "temp_dir", v>> \in asked
                     <=> v = conf[s].temp_dir /\ v # NoDir
        /\ \A v : <<s, "read_limit", v>> \in asked => conf[s].read_limit = Atoi64f(v)
        /\ \A v : <<s, "brigade_limit", v>> \in asked => conf[s].brigade_limit = Atoi64f(v)
        /\ conf[s].read_limit # Unset => \E v : <<s, "read_limit", v>> \in asked
        /\ host = "apache2" /\ conf[s].brigade_limit # Unset
              => \E v : <<s, "brigade_limit", v>> \in asked

LEMMA WordFacts ==
    /\ WORD \in Nat /\ Unset \in Nat /\ KILO \in Nat
    /\ DefaultReadLimit \in Nat /\ DefaultReadLimit < Unset
    /\ DefaultBrigadeLimit \in Nat /\ DefaultBrigadeLimit < Unset
    /\ NoDir \notin Dirs
<1>1. /\ WORD \in Nat /\ KILO \in Nat /\ DefaultReadLimit \in Nat
      /\ DefaultBrigadeLimit \in Nat
      /\ WORD > DefaultReadLimit + 1 /\ DefaultBrigadeLimit < WORD - 1
      /\ NoDir \notin Dirs
  BY SetupAssumption
<1> QED
  BY <1>1 DEF Unset

\* A number that is read is never above one that is not negative, and keeps
\* its sign.
LEMMA NumberRead ==
    ASSUME NEW n \in Int
    PROVE  /\ Int64(n) \in Int
           /\ n >= 0 => 0 <= Int64(n) /\ Int64(n) <= n
<1>1. WORD \in Nat /\ WORD >= 2
  BY WordFacts DEF Unset
<1> DEFINE half == WORD \div 2
<1>2. half \in Nat /\ half >= 1
  BY <1>1
<1>3. Int64(n) = IF n < -half THEN -half ELSE IF n > half - 1 THEN half - 1 ELSE n
  BY DEF Int64
<1> HIDE DEF half
<1> QED
  BY <1>2, <1>3

\* A size is read modulo the word, and its number first as a signed one: it is
\* never more than what is meant, and it is what is meant when both fit.
LEMMA SizeRead ==
    ASSUME NEW size \in Sizes
    PROVE  /\ Meant(size) \in Int
           /\ Atoi64f(size) \in 0 .. Unset
           /\ Meant(size) >= 0 => Atoi64f(size) <= Meant(size)
           /\ Fits(size) => Atoi64f(size) = Meant(size) /\ Meant(size) \in 0 .. Unset - 1
<1> DEFINE n == size[1]
           u == Unit(size[2])
           i == Int64(n)
           m == i * u
<1>1. n \in Int
  BY SetupAssumption
<1>2. KILO * KILO * KILO \in Nat /\ KILO * KILO \in Nat
      /\ KILO * KILO * KILO > 0 /\ KILO * KILO > 0 /\ KILO > 0
  <2>1. ASSUME NEW a \in Nat, NEW b \in Nat, a > 0, b > 0
        PROVE  a * b \in Nat /\ a * b > 0
    BY <2>1
  <2>2. KILO \in Nat /\ KILO > 0
    <3>1. KILO \in Nat /\ KILO > 1
      BY SetupAssumption
    <3> QED
      BY <3>1
  <2>3. KILO * KILO \in Nat /\ KILO * KILO > 0
    BY <2>1, <2>2
  <2> QED
    BY <2>1, <2>2, <2>3
<1>3. u \in Nat /\ u > 0
  BY <1>2, WordFacts DEF Unit
<1>4. i \in Int /\ (n >= 0 => 0 <= i /\ i <= n)
  BY <1>1, NumberRead
<1>5. Meant(size) = n * u /\ Atoi64f(size) = m % WORD
  BY DEF Meant, Atoi64f
<1>6. WORD \in Nat /\ WORD > 0 /\ Unset = WORD - 1 /\ Unset \in Nat
  BY WordFacts DEF Unset
<1>7. Fits(size) => m = n * u /\ n * u \in 0 .. Unset - 1
  BY <1>5 DEF Fits
<1> HIDE DEF n, u, i
<1>8. m \in Int /\ n * u \in Int
  BY <1>1, <1>3, <1>4
<1>9. n * u >= 0 => 0 <= m /\ m <= n * u
  <2>1. n * u >= 0 => n >= 0
    BY <1>1, <1>3
  <2>2. n >= 0 => i * u <= n * u /\ 0 <= i * u
    BY <1>1, <1>3, <1>4
  <2> QED
    BY <2>1, <2>2
<1> HIDE DEF m
<1>10. m % WORD \in 0 .. WORD - 1
  BY <1>6, <1>8
<1>11. m >= 0 => m % WORD <= m
  BY <1>6, <1>8
<1>12. m >= 0 /\ m < WORD => m % WORD = m
  BY <1>6, <1>8
<1> DEFINE p == n * u
<1>13. p \in Int /\ (p >= 0 => 0 <= m /\ m <= p) /\ Meant(size) = p
       /\ (Fits(size) => m = p /\ p \in 0 .. Unset - 1)
  BY <1>5, <1>7, <1>8, <1>9
<1> HIDE DEF p
<1> QED
  BY <1>5, <1>6, <1>8, <1>10, <1>11, <1>12, <1>13

LEMMA NoDirectives ==
    ASSUME conf' = [s \in SectionSet |-> CreateDirConfig], asked' = {}, host' = host
    PROVE  ConfInv'
<1>1. CreateDirConfig \in ConfType
  BY WordFacts DEF CreateDirConfig, ConfType
<1>2. \A s \in SectionSet : /\ conf'[s].temp_dir = NoDir
                            /\ conf'[s].read_limit = Unset
                            /\ host = "apache2" => conf'[s].brigade_limit = Unset
  BY DEF CreateDirConfig
<1> QED
  BY <1>1, <1>2 DEF ConfInv

LEMMA ConfInit == Init => ConfInv
<1> SUFFICES ASSUME Init PROVE ConfInv
  OBVIOUS
<1>1. conf = [s \in SectionSet |-> CreateDirConfig] /\ asked = {}
  BY DEF Init
<1>2. CreateDirConfig \in ConfType
  BY WordFacts DEF CreateDirConfig, ConfType
<1>3. \A s \in SectionSet : /\ conf[s].temp_dir = NoDir
                            /\ conf[s].read_limit = Unset
                            /\ host = "apache2" => conf[s].brigade_limit = Unset
  BY <1>1 DEF CreateDirConfig
<1> QED
  BY <1>1, <1>2, <1>3 DEF ConfInv

LEMMA DirectiveKeeps == ConfInv /\ Directive => ConfInv'
<1> SUFFICES ASSUME ConfInv, Directive PROVE ConfInv'
  OBVIOUS
<1>1. PICK s \in SectionSet :
         \/ \E d \in Dirs : SetTempDir(s, d)
         \/ \E size \in Sizes : SetReadLimit(s, size) \/ SetBrigadeLimit(s, size)
  BY DEF Directive
<1>2. host' = host
  BY DEF Directive, Counts
<1>3. conf \in [SectionSet -> ConfType] /\ asked \subseteq AskedType
  BY DEF ConfInv
<1>4. ASSUME NEW d \in Dirs, SetTempDir(s, d) PROVE ConfInv'
  <2>1. /\ conf' = [conf EXCEPT ![s] = [conf[s] EXCEPT !.temp_dir = d]]
        /\ asked' = Asking(s, "temp_dir", d)
    BY <1>3, <1>4 DEF SetTempDir
  <2>2. \A t, w, v : <<t, w, v>> \in asked'
             <=> \/ <<t, w, v>> \in asked /\ ~(t = s /\ w = "temp_dir")
                 \/ t = s /\ w = "temp_dir" /\ v = d
    BY <2>1 DEF Asking
  <2>3. asked' \subseteq AskedType
    <3>1. <<s, "temp_dir", d>> \in AskedType
      BY DEF AskedType
    <3> QED
      BY <1>3, <2>1, <3>1 DEF Asking
  <2>4. /\ conf' \in [SectionSet -> ConfType]
        /\ \A t \in SectionSet : /\ conf'[t].read_limit = conf[t].read_limit
                                 /\ conf'[t].brigade_limit = conf[t].brigade_limit
                                 /\ conf'[t].temp_dir = IF t = s THEN d ELSE conf[t].temp_dir
    BY <1>3, <2>1 DEF ConfType
  <2>5. d # NoDir
    BY WordFacts
  <2> QED
    <3>1. ASSUME NEW t \in SectionSet
          PROVE  /\ \A v : <<t, "temp_dir", v>> \in asked'
                              <=> v = conf'[t].temp_dir /\ v # NoDir
                 /\ \A v : <<t, "read_limit", v>> \in asked'
                              => conf'[t].read_limit = Atoi64f(v)
                 /\ \A v : <<t, "brigade_limit", v>> \in asked'
                              => conf'[t].brigade_limit = Atoi64f(v)
      BY <2>2, <2>4, <2>5 DEF ConfInv
    <3>2. ASSUME NEW t \in SectionSet
          PROVE  /\ conf'[t].read_limit # Unset => \E v : <<t, "read_limit", v>> \in asked'
                 /\ host' = "apache2" /\ conf'[t].brigade_limit # Unset
                      => \E v : <<t, "brigade_limit", v>> \in asked'
      BY <1>2, <2>2, <2>4 DEF ConfInv
    <3> QED
      BY <2>3, <2>4, <3>1, <3>2 DEF ConfInv
<1>5. ASSUME NEW size \in Sizes, SetReadLimit(s, size) PROVE ConfInv'
  <2>1. /\ conf' = [conf EXCEPT ![s] = [conf[s] EXCEPT !.read_limit = Atoi64f(size)]]
        /\ asked' = Asking(s, "read_limit", size)
    BY <1>3, <1>5 DEF SetReadLimit
  <2>2. \A t, w, v : <<t, w, v>> \in asked'
             <=> \/ <<t, w, v>> \in asked /\ ~(t = s /\ w = "read_limit")
                 \/ t = s /\ w = "read_limit" /\ v = size
    BY <2>1 DEF Asking
  <2>3. asked' \subseteq AskedType
    <3>1. <<s, "read_limit", size>> \in AskedType
      BY DEF AskedType
    <3> QED
      BY <1>3, <2>1, <3>1 DEF Asking
  <2>4. /\ conf' \in [SectionSet -> ConfType]
        /\ \A t \in SectionSet : /\ conf'[t].temp_dir = conf[t].temp_dir
                                 /\ conf'[t].brigade_limit = conf[t].brigade_limit
                                 /\ conf'[t].read_limit = IF t = s THEN Atoi64f(size)
                                                          ELSE conf[t].read_limit
    BY <1>3, <2>1, SizeRead DEF ConfType
  <2> QED
    <3>1. ASSUME NEW t \in SectionSet
          PROVE  /\ \A v : <<t, "temp_dir", v>> \in asked'
                              <=> v = conf'[t].temp_dir /\ v # NoDir
                 /\ \A v : <<t, "read_limit", v>> \in asked'
                              => conf'[t].read_limit = Atoi64f(v)
                 /\ \A v : <<t, "brigade_limit", v>> \in asked'
                              => conf'[t].brigade_limit = Atoi64f(v)
      BY <2>2, <2>4 DEF ConfInv
    <3>2. ASSUME NEW t \in SectionSet
          PROVE  /\ conf'[t].read_limit # Unset => \E v : <<t, "read_limit", v>> \in asked'
                 /\ host' = "apache2" /\ conf'[t].brigade_limit # Unset
                      => \E v : <<t, "brigade_limit", v>> \in asked'
      BY <1>2, <2>2, <2>4 DEF ConfInv
    <3> QED
      BY <2>3, <2>4, <3>1, <3>2 DEF ConfInv
<1>6. ASSUME NEW size \in Sizes, SetBrigadeLimit(s, size) PROVE ConfInv'
  <2>1. /\ conf' = [conf EXCEPT ![s] = [conf[s] EXCEPT !.brigade_limit = Atoi64f(size)]]
        /\ asked' = Asking(s, "brigade_limit", size)
    BY <1>3, <1>6 DEF SetBrigadeLimit
  <2>2. \A t, w, v : <<t, w, v>> \in asked'
             <=> \/ <<t, w, v>> \in asked /\ ~(t = s /\ w = "brigade_limit")
                 \/ t = s /\ w = "brigade_limit" /\ v = size
    BY <2>1 DEF Asking
  <2>3. asked' \subseteq AskedType
    <3>1. <<s, "brigade_limit", size>> \in AskedType
      BY DEF AskedType
    <3> QED
      BY <1>3, <2>1, <3>1 DEF Asking
  <2>4. /\ conf' \in [SectionSet -> ConfType]
        /\ \A t \in SectionSet : /\ conf'[t].temp_dir = conf[t].temp_dir
                                 /\ conf'[t].read_limit = conf[t].read_limit
                                 /\ conf'[t].brigade_limit = IF t = s THEN Atoi64f(size)
                                                             ELSE conf[t].brigade_limit
    BY <1>3, <2>1, SizeRead DEF ConfType
  <2> QED
    <3>1. ASSUME NEW t \in SectionSet
          PROVE  /\ \A v : <<t, "temp_dir", v>> \in asked'
                              <=> v = conf'[t].temp_dir /\ v # NoDir
                 /\ \A v : <<t, "read_limit", v>> \in asked'
                              => conf'[t].read_limit = Atoi64f(v)
                 /\ \A v : <<t, "brigade_limit", v>> \in asked'
                              => conf'[t].brigade_limit = Atoi64f(v)
      BY <2>2, <2>4 DEF ConfInv
    <3>2. ASSUME NEW t \in SectionSet
          PROVE  /\ conf'[t].read_limit # Unset => \E v : <<t, "read_limit", v>> \in asked'
                 /\ host' = "apache2" /\ conf'[t].brigade_limit # Unset
                      => \E v : <<t, "brigade_limit", v>> \in asked'
      BY <1>2, <2>2, <2>4 DEF ConfInv
    <3> QED
      BY <2>3, <2>4, <3>1, <3>2 DEF ConfInv
<1> QED
  BY <1>1, <1>4, <1>5, <1>6

LEMMA ConfStep == ConfInv /\ [Next]_vars => ConfInv'
<1> SUFFICES ASSUME ConfInv, [Next]_vars PROVE ConfInv'
  OBVIOUS
<1>1. CASE Directive
  BY <1>1, DirectiveKeeps
<1>2. CASE Restart
  BY <1>2, NoDirectives DEF Restart
<1>3. CASE UNCHANGED <<conf, asked, host>>
  BY <1>3 DEF ConfInv
<1> QED
  BY <1>1, <1>2, <1>3 DEF Next, DirectiveInLimit, PreInit, PreInitFails, Register, PostInit,
     Apache1Init, Boot, vars, Counts, Settings

\* What is merged for the sections of S, one after the other.
Outer(S, d, s) == IF s \in S THEN MergeDirConfig(d, conf[s]) ELSE d

LEMMA MergedIs ==
    ASSUME NEW S
    PROVE  Merged(S) = Outer(S, Outer(S, Outer(S, CreateDirConfig, "server"), "directory"), "file")
<1> DEFINE g0 == CreateDirConfig
           g1 == Outer(S, g0, "server")
           g2 == Outer(S, g1, "directory")
           g3 == Outer(S, g2, "file")
           step(m, i) == IF i = 0 THEN CreateDirConfig
                         ELSE IF Sections[i] \in S
                         THEN MergeDirConfig(m[i - 1], conf[Sections[i]])
                         ELSE m[i - 1]
           is(m) == m = [i \in 0 .. Len(Sections) |-> step(m, i)]
           w == [i \in 0 .. 3 |-> IF i = 0 THEN g0 ELSE IF i = 1 THEN g1 ELSE IF i = 2 THEN g2 ELSE g3]
           merge == CHOOSE m : is(m)
<1>1. /\ Len(Sections) = 3 /\ Sections[1] = "server" /\ Sections[2] = "directory"
      /\ Sections[3] = "file"
  BY DEF Sections
<1>2. w[0] = g0 /\ w[1] = g1 /\ w[2] = g2 /\ w[3] = g3
  OBVIOUS
<1>3. is(w)
  <2>1. ASSUME NEW i \in 0 .. 3 PROVE w[i] = step(w, i)
    <3>1. i = 0 \/ i = 1 \/ i = 2 \/ i = 3
      OBVIOUS
    <3> QED
      BY <1>1, <1>2, <3>1 DEF Outer
  <2> QED
    BY <1>1, <2>1
<1>4. is(merge)
  BY <1>3
<1>5. Merged(S) = merge[3]
  BY <1>1 DEF Merged
<1>6. \A i \in 0 .. 3 : merge[i] = step(merge, i)
  <2> HIDE DEF merge
  <2> QED
    BY <1>1, <1>4
<1> HIDE DEF merge
<1>7. merge[0] = g0
  BY <1>6
<1>8. merge[1] = g1
  BY <1>1, <1>6, <1>7 DEF Outer
<1>9. merge[2] = g2
  BY <1>1, <1>6, <1>8 DEF Outer
<1>10. merge[3] = g3
  BY <1>1, <1>6, <1>9 DEF Outer
<1> QED
  BY <1>5, <1>10

\* What one section makes of what the sections around it have left.
LEMMA OuterFacts ==
    ASSUME ConfInv, NEW S, NEW d \in ConfType, NEW s \in SectionSet
    PROVE  LET e == Outer(S, d, s) IN
           /\ e \in ConfType
           /\ e.read_limit <= d.read_limit
           /\ s \in S => e.read_limit <= conf[s].read_limit
           /\ e.read_limit = d.read_limit \/ (s \in S /\ e.read_limit = conf[s].read_limit)
           /\ e.temp_dir = IF s \in S /\ conf[s].temp_dir # NoDir
                           THEN conf[s].temp_dir ELSE d.temp_dir
           /\ e.brigade_limit = IF s \in S /\ conf[s].brigade_limit # Unset
                                THEN conf[s].brigade_limit ELSE d.brigade_limit
<1>1. conf[s] \in ConfType
  BY DEF ConfInv
<1>2. Unset \in Nat
  BY WordFacts
<1>3. CASE s \in S
  BY <1>1, <1>2, <1>3 DEF Outer, MergeDirConfig, ConfType
<1>4. CASE s \notin S
  BY <1>2, <1>4 DEF Outer, ConfType
<1> QED
  BY <1>3, <1>4

\* Section t is nested in section s.
Deeper(s, t) == \/ s = "server" /\ t \in {"directory", "file"}
                \/ s = "directory" /\ t = "file"

\* The configuration merged for a request: the least of the limits on reading,
\* and of the rest what the innermost section has that sets it.
LEMMA MergedFacts ==
    ASSUME ConfInv, NEW S \in SUBSET SectionSet
    PROVE  LET m == Merged(S) IN
           /\ m \in ConfType
           /\ \A s \in S : m.read_limit <= conf[s].read_limit
           /\ m.read_limit = Unset \/ \E s \in S : m.read_limit = conf[s].read_limit
           /\ \/ m.temp_dir = NoDir /\ \A s \in S : conf[s].temp_dir = NoDir
              \/ \E s \in S : /\ m.temp_dir = conf[s].temp_dir /\ m.temp_dir # NoDir
                              /\ \A t \in S : Deeper(s, t) => conf[t].temp_dir = NoDir
           /\ host = "apache2" =>
              \/ m.brigade_limit = Unset /\ \A s \in S : conf[s].brigade_limit = Unset
              \/ \E s \in S : /\ m.brigade_limit = conf[s].brigade_limit
                              /\ m.brigade_limit # Unset
                              /\ \A t \in S : Deeper(s, t) => conf[t].brigade_limit = Unset
<1> DEFINE g0 == CreateDirConfig
           g1 == Outer(S, g0, "server")
           g2 == Outer(S, g1, "directory")
           g3 == Outer(S, g2, "file")
<1>1. SectionSet = {"server", "directory", "file"}
  <2>1. DOMAIN Sections = {1, 2, 3}
    BY DEF Sections
  <2> QED
    BY <2>1 DEF SectionSet, Sections
<1>2. Unset \in Nat /\ \A s \in SectionSet : conf[s] \in ConfType
  BY WordFacts DEF ConfInv
<1>3. /\ g0 \in ConfType /\ g0.read_limit = Unset /\ g0.temp_dir = NoDir
      /\ host = "apache2" => g0.brigade_limit = Unset
  BY WordFacts DEF CreateDirConfig, ConfType
<1> HIDE DEF g0
<1>4. /\ g1 \in ConfType
      /\ g1.read_limit <= g0.read_limit
      /\ "server" \in S => g1.read_limit <= conf["server"].read_limit
      /\ \/ g1.read_limit = g0.read_limit
         \/ "server" \in S /\ g1.read_limit = conf["server"].read_limit
      /\ g1.temp_dir = IF "server" \in S /\ conf["server"].temp_dir # NoDir
                       THEN conf["server"].temp_dir ELSE g0.temp_dir
      /\ g1.brigade_limit = IF "server" \in S /\ conf["server"].brigade_limit # Unset
                            THEN conf["server"].brigade_limit ELSE g0.brigade_limit
  BY <1>1, <1>3, OuterFacts
<1> HIDE DEF g1
<1>5. /\ g2 \in ConfType
      /\ g2.read_limit <= g1.read_limit
      /\ "directory" \in S => g2.read_limit <= conf["directory"].read_limit
      /\ \/ g2.read_limit = g1.read_limit
         \/ "directory" \in S /\ g2.read_limit = conf["directory"].read_limit
      /\ g2.temp_dir = IF "directory" \in S /\ conf["directory"].temp_dir # NoDir
                       THEN conf["directory"].temp_dir ELSE g1.temp_dir
      /\ g2.brigade_limit = IF "directory" \in S /\ conf["directory"].brigade_limit # Unset
                            THEN conf["directory"].brigade_limit ELSE g1.brigade_limit
  BY <1>1, <1>4, OuterFacts
<1> HIDE DEF g2
<1>6. /\ g3 \in ConfType
      /\ g3.read_limit <= g2.read_limit
      /\ "file" \in S => g3.read_limit <= conf["file"].read_limit
      /\ \/ g3.read_limit = g2.read_limit
         \/ "file" \in S /\ g3.read_limit = conf["file"].read_limit
      /\ g3.temp_dir = IF "file" \in S /\ conf["file"].temp_dir # NoDir
                       THEN conf["file"].temp_dir ELSE g2.temp_dir
      /\ g3.brigade_limit = IF "file" \in S /\ conf["file"].brigade_limit # Unset
                            THEN conf["file"].brigade_limit ELSE g2.brigade_limit
  BY <1>1, <1>5, OuterFacts
<1> HIDE DEF g3
<1>7. Merged(S) = g3
  BY MergedIs DEF g0, g1, g2, g3
<1>8. /\ g0.read_limit \in Nat /\ g1.read_limit \in Nat /\ g2.read_limit \in Nat
      /\ g3.read_limit \in Nat
      /\ \A s \in SectionSet : conf[s].read_limit \in Nat
  BY <1>2, <1>3, <1>4, <1>5, <1>6 DEF ConfType
<1>9. \A s \in S : g3.read_limit <= conf[s].read_limit
  BY <1>1, <1>4, <1>5, <1>6, <1>8
<1>10. g3.read_limit = Unset \/ \E s \in S : g3.read_limit = conf[s].read_limit
  BY <1>3, <1>4, <1>5, <1>6
<1>11. \/ g3.temp_dir = NoDir /\ \A s \in S : conf[s].temp_dir = NoDir
       \/ \E s \in S : /\ g3.temp_dir = conf[s].temp_dir /\ g3.temp_dir # NoDir
                       /\ \A t \in S : Deeper(s, t) => conf[t].temp_dir = NoDir
  BY <1>1, <1>3, <1>4, <1>5, <1>6 DEF Deeper
<1>12. host = "apache2" =>
       \/ g3.brigade_limit = Unset /\ \A s \in S : conf[s].brigade_limit = Unset
       \/ \E s \in S : /\ g3.brigade_limit = conf[s].brigade_limit
                       /\ g3.brigade_limit # Unset
                       /\ \A t \in S : Deeper(s, t) => conf[t].brigade_limit = Unset
  BY <1>1, <1>3, <1>4, <1>5, <1>6 DEF Deeper
<1> QED
  BY <1>6, <1>7, <1>9, <1>10, <1>11, <1>12

\* How deep a section is nested.
Depth(s) == CHOOSE i \in DOMAIN Sections : Sections[i] = s

LEMMA DepthFacts ==
    ASSUME NEW s \in SectionSet, NEW t \in SectionSet
    PROVE  ~Deeper(s, t) => Depth(s) >= Depth(t)
<1>1. DOMAIN Sections = {1, 2, 3} /\ Sections[1] = "server" /\ Sections[2] = "directory"
      /\ Sections[3] = "file"
  BY DEF Sections
<1>2. Depth("server") = 1 /\ Depth("directory") = 2 /\ Depth("file") = 3
  BY <1>1 DEF Depth
<1>3. s \in {"server", "directory", "file"} /\ t \in {"server", "directory", "file"}
  BY <1>1 DEF SectionSet
<1> QED
  BY <1>2, <1>3 DEF Deeper

\* The limit on what is read for a request is never above what one of its
\* sections says, in full, and it is the least of them when all fit, the number
\* as a signed word and its product with the unit as an unsigned one;
\* the temporary directory and the brigade limit are the innermost section's:
\* for words and units of any size, any sizes in the directives, and however
\* often the configuration is read.
THEOREM LimitsAreAsAsked == Spec => []LimitsAsAsked
<1>1. ConfInv => LimitsAsAsked
  <2> SUFFICES ASSUME ConfInv, NEW S \in SUBSET SectionSet
               PROVE
        LET d == RequestConfig(Merged(S))
            said(w) == {x \in asked : x[1] \in S /\ x[2] = w}
            wanted == {x[3] : x \in said("read_limit")}
            reads == {Meant(size) : size \in wanted}
            innermost(all) == {x \in all : \A y \in all : Depth(x[1]) >= Depth(y[1])}
            dirs  == innermost(said("temp_dir"))
            sizes == innermost({x \in said("brigade_limit") : Atoi64f(x[3]) # Unset})
        IN  /\ \A n \in reads : n >= 0 => d.read_limit <= n
            /\ (\A size \in wanted : Fits(size)) =>
                 d.read_limit \in
                   IF reads = {} THEN {RequestConfig(CreateDirConfig).read_limit}
                   ELSE reads
            /\ d.temp_dir \in
                 IF dirs = {} THEN {NoDir} ELSE {x[3] : x \in dirs}
            /\ host = "apache2" =>
                 d.brigade_limit \in
                   IF sizes = {} THEN {DefaultBrigadeLimit}
                   ELSE {Atoi64f(x[3]) : x \in sizes}
    BY DEF LimitsAsAsked, Depth
  <2> DEFINE m == Merged(S)
             d == RequestConfig(m)
             said(w) == {x \in asked : x[1] \in S /\ x[2] = w}
             wanted == {x[3] : x \in said("read_limit")}
             reads == {Meant(size) : size \in wanted}
             innermost(all) == {x \in all : \A y \in all : Depth(x[1]) >= Depth(y[1])}
             dirs == innermost(said("temp_dir"))
             named == {x \in said("brigade_limit") : Atoi64f(x[3]) # Unset}
             sizes == innermost(named)
  <2>1. /\ m \in ConfType
        /\ \A s \in S : m.read_limit <= conf[s].read_limit
        /\ m.read_limit = Unset \/ \E s \in S : m.read_limit = conf[s].read_limit
    BY MergedFacts
  <2>2. \/ m.temp_dir = NoDir /\ \A s \in S : conf[s].temp_dir = NoDir
        \/ \E s \in S : /\ m.temp_dir = conf[s].temp_dir /\ m.temp_dir # NoDir
                        /\ \A t \in S : Deeper(s, t) => conf[t].temp_dir = NoDir
    BY MergedFacts
  <2>3. host = "apache2" =>
        \/ m.brigade_limit = Unset /\ \A s \in S : conf[s].brigade_limit = Unset
        \/ \E s \in S : /\ m.brigade_limit = conf[s].brigade_limit /\ m.brigade_limit # Unset
                        /\ \A t \in S : Deeper(s, t) => conf[t].brigade_limit = Unset
    BY MergedFacts
  <2> HIDE DEF m
  <2>4. \A x \in asked : /\ x = <<x[1], x[2], x[3]>>
                         /\ x[1] \in SectionSet
                         /\ x[2] # "temp_dir" => x[3] \in Sizes
    BY DEF ConfInv, AskedType
  <2>5. /\ d.temp_dir = m.temp_dir
        /\ d.read_limit = IF host # "apache1" /\ m.read_limit = Unset
                          THEN DefaultReadLimit ELSE m.read_limit
        /\ host = "apache2" => d.brigade_limit = IF m.brigade_limit = Unset
                                    THEN DefaultBrigadeLimit ELSE m.brigade_limit
    BY <2>1 DEF RequestConfig, ConfType
  <2>6. d.read_limit <= m.read_limit /\ d.read_limit \in Nat /\ m.read_limit \in Nat
    BY <2>1, <2>5, WordFacts DEF ConfType
  <2>7. \A x \in said("read_limit") : /\ Meant(x[3]) \in Int
                                      /\ conf[x[1]].read_limit = Atoi64f(x[3])
                                      /\ conf[x[1]].read_limit \in Nat
                                      /\ x[3] \in Sizes /\ x[1] \in S
    BY <2>4, SizeRead DEF ConfInv, ConfType
  <2> HIDE DEF d
  <2>8. \A n \in reads : n >= 0 => d.read_limit <= n
    <3>1. ASSUME NEW x \in said("read_limit"), Meant(x[3]) >= 0
          PROVE  d.read_limit <= Meant(x[3])
      <4>1. Atoi64f(x[3]) <= Meant(x[3])
        BY <2>7, <3>1, SizeRead
      <4>2. m.read_limit <= Atoi64f(x[3])
        BY <2>1, <2>7, <3>1
      <4> QED
        BY <2>6, <2>7, <3>1, <4>1, <4>2
    <3> QED
      BY <3>1
  <2>9. (\A size \in wanted : Fits(size)) =>
           d.read_limit \in IF reads = {} THEN {RequestConfig(CreateDirConfig).read_limit}
                            ELSE reads
    <3> SUFFICES ASSUME \A size \in wanted : Fits(size)
                 PROVE  d.read_limit \in IF reads = {}
                                         THEN {RequestConfig(CreateDirConfig).read_limit}
                                         ELSE reads
      OBVIOUS
    <3>1. \A x \in said("read_limit") : Atoi64f(x[3]) = Meant(x[3]) /\ Meant(x[3]) \in reads
                                        /\ Meant(x[3]) \in 0 .. Unset - 1
      BY <2>7, SizeRead
    <3>2. CASE m.read_limit = Unset
      <4>1. \A x \in said("read_limit") : m.read_limit <= Meant(x[3]) /\ Meant(x[3]) < Unset
        <5>1. ASSUME NEW x \in said("read_limit") PROVE m.read_limit <= Meant(x[3]) /\ Meant(x[3]) < Unset
          <6>1. Meant(x[3]) \in 0 .. Unset - 1
            BY <3>1
          <6>2. m.read_limit <= conf[x[1]].read_limit
            BY <2>1, <2>7
          <6> QED
            BY <2>7, <3>1, <6>1, <6>2, WordFacts
        <5> QED
          BY <5>1
      <4>2. reads = {}
        BY <2>6, <2>7, <3>2, <4>1
      <4>3. d.read_limit = RequestConfig(CreateDirConfig).read_limit
        BY <2>5, <3>2 DEF RequestConfig, CreateDirConfig
      <4> QED
        BY <4>2, <4>3
    <3>3. CASE m.read_limit # Unset
      <4>1. PICK s \in S : m.read_limit = conf[s].read_limit
        BY <2>1, <3>3
      <4>2. PICK v : <<s, "read_limit", v>> \in asked
        BY <3>3, <4>1 DEF ConfInv
      <4>3. <<s, "read_limit", v>> \in said("read_limit")
        BY <4>2
      <4>4. conf[s].read_limit = Atoi64f(v) /\ Atoi64f(v) \in reads
        <5>1. <<s, "read_limit", v>>[1] = s /\ <<s, "read_limit", v>>[3] = v
          OBVIOUS
        <5>2. Atoi64f(v) = Meant(v) /\ Meant(v) \in reads
          BY <3>1, <4>3, <5>1
        <5> QED
          BY <2>7, <4>3, <5>1, <5>2
      <4>5. d.read_limit = m.read_limit
        BY <2>5, <3>3
      <4> QED
        BY <4>1, <4>4, <4>5
    <3> QED
      BY <3>2, <3>3
  <2>10. d.temp_dir \in IF dirs = {} THEN {NoDir} ELSE {x[3] : x \in dirs}
    <3>1. \A x \in said("temp_dir") : /\ x[1] \in S /\ x[1] \in SectionSet
                                      /\ conf[x[1]].temp_dir = x[3] /\ x[3] # NoDir
      BY <2>4 DEF ConfInv
    <3>2. CASE m.temp_dir = NoDir /\ \A s \in S : conf[s].temp_dir = NoDir
      <4>1. said("temp_dir") = {}
        BY <3>1, <3>2
      <4> QED
        BY <2>5, <3>2, <4>1
    <3>3. ASSUME NEW s \in S, m.temp_dir = conf[s].temp_dir, m.temp_dir # NoDir,
                 \A t \in S : Deeper(s, t) => conf[t].temp_dir = NoDir
          PROVE  d.temp_dir \in IF dirs = {} THEN {NoDir} ELSE {x[3] : x \in dirs}
      <4> DEFINE x == <<s, "temp_dir", m.temp_dir>>
      <4>1. x[1] = s /\ x[2] = "temp_dir" /\ x[3] = m.temp_dir
        OBVIOUS
      <4>2. x \in said("temp_dir")
        BY <3>3 DEF ConfInv
      <4>3. \A y \in said("temp_dir") : Depth(s) >= Depth(y[1])
        BY <3>1, <3>3, DepthFacts
      <4> HIDE DEF x
      <4>4. x \in dirs
        BY <4>1, <4>2, <4>3
      <4> QED
        BY <2>5, <4>1, <4>4
    <3> QED
      BY <2>2, <3>2, <3>3
  <2>11. host = "apache2" => d.brigade_limit \in IF sizes = {} THEN {DefaultBrigadeLimit}
                                                 ELSE {Atoi64f(x[3]) : x \in sizes}
    <3> SUFFICES ASSUME host = "apache2"
                 PROVE  d.brigade_limit \in IF sizes = {} THEN {DefaultBrigadeLimit}
                                            ELSE {Atoi64f(x[3]) : x \in sizes}
      OBVIOUS
    <3>1. \A x \in named : /\ x[1] \in S /\ x[1] \in SectionSet
                           /\ conf[x[1]].brigade_limit = Atoi64f(x[3])
                           /\ Atoi64f(x[3]) # Unset
      BY <2>4 DEF ConfInv
    <3>2. CASE m.brigade_limit = Unset /\ \A s \in S : conf[s].brigade_limit = Unset
      <4>1. named = {}
        BY <3>1, <3>2
      <4> QED
        BY <2>5, <3>2, <4>1
    <3>3. ASSUME NEW s \in S, m.brigade_limit = conf[s].brigade_limit, m.brigade_limit # Unset,
                 \A t \in S : Deeper(s, t) => conf[t].brigade_limit = Unset
          PROVE  d.brigade_limit \in IF sizes = {} THEN {DefaultBrigadeLimit}
                                     ELSE {Atoi64f(x[3]) : x \in sizes}
      <4>1. PICK v : <<s, "brigade_limit", v>> \in asked
        BY <3>3 DEF ConfInv
      <4> DEFINE x == <<s, "brigade_limit", v>>
      <4>2. x[1] = s /\ x[2] = "brigade_limit" /\ x[3] = v
        OBVIOUS
      <4>3. Atoi64f(v) = m.brigade_limit
        BY <3>3, <4>1 DEF ConfInv
      <4>4. x \in named
        BY <3>3, <4>1, <4>3
      <4>5. \A y \in named : Depth(s) >= Depth(y[1])
        BY <3>1, <3>3, DepthFacts
      <4> HIDE DEF x, named
      <4>6. x \in sizes
        BY <4>2, <4>4, <4>5
      <4> QED
        BY <2>5, <3>3, <4>2, <4>3, <4>6
    <3> QED
      BY <2>3, <3>2, <3>3
  <2> QED
    BY <2>8, <2>9, <2>10, <2>11 DEF d, m
<1>2. ConfInv /\ [Next]_vars => ConfInv'
  BY ConfStep
<1> QED
  BY <1>1, <1>2, ConfInit, PTL DEF Spec
=============================================================================
