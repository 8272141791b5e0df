--------------------------- MODULE NameOwnership ---------------------------
(***************************************************************************)
(* The owners of the names of worlds (adapters/name-ownership): a cache of  *)
(* a minute over the owners of DCL names, in the marketplace's subgraph or  *)
(* on chain, and those of ENS names, on chain, where a name of two levels   *)
(* may be held by the NameWrapper, which is then asked in its turn.         *)
(*                                                                          *)
(* Names are asked in batches, answers are matched by their place, and the  *)
(* owners change between one batch and the next.                            *)
(***************************************************************************)
EXTENDS Naturals, SequencesExt

CONSTANTS
    Dcl, TwoLevel, Deeper, \* names: of DCL, of ENS with two levels, and with more
    Wallets, Nobody,       \* Nobody: undefined
    FirstOwners,           \* who owns the names at first
    NameWrapper,           \* the address of the contract
    BATCH_SIZE_LIMIT, MaxRetries,
    Lookups,               \* the sequences of names that are looked up
    MaxTransfers, MaxFaults \* bounds: changes of owners, and faults of the provider

Names == Dcl \cup TwoLevel \cup Deeper
Owners == Wallets \cup {Nobody}

ASSUME NameOwnershipAssumption ==
    /\ BATCH_SIZE_LIMIT \in Nat \ {0} /\ MaxRetries \in Nat \ {0}
    /\ Lookups \subseteq Seq(Names) /\ FirstOwners \in [Names -> Owners]
    /\ Nobody \notin Wallets \cup {NameWrapper} /\ NameWrapper \notin Wallets

VARIABLES
    strategy,  \* NAME_VALIDATOR: the DCL names are those of the subgraph, or on chain
    owner,     \* of each name, in truth
    wrapped,   \* the names that the NameWrapper holds
    cache,     \* the owner cached for a name, or Nobody
    at,        \* where findOwners is: idle, asking, answered or failed
    result,    \* the owners found so far, by name
    batch,     \* what is asked: of the DCL names and of the ENS names
    transfers, faults,
    lately,    \* history: what could truly be answered for a name since it was looked up
    shifted    \* history: a chunk before the last was answered with one object

nature == <<strategy, owner, wrapped, transfers>>
vars == <<nature, cache, at, result, batch, faults, lately, shifted>>

Kinds == {"dcl", "ens"}
Batch(contract, names, rest) ==
    [contract |-> contract, names |-> names, rest |-> rest, sent |-> 0, answers |-> <<>>, tries |-> 0]
NoBatch == Batch("none", <<>>, <<>>)

-----------------------------------------------------------------------------
\* filter: the names that are in S, in their order.
Those(names, S) ==
    LET taken == {i \in DOMAIN names : names[i] \in S}
        Place(i) == Cardinality({j \in taken : j <= i})
    IN  [k \in 1 .. Cardinality(taken) |-> names[CHOOSE i \in taken : Place(i) = k]]

\* Several names in one request: all of them to the subgraph, a chunk of them to a contract.
Chunk(b) ==
    IF b.contract = "subgraph" THEN b.names
    ELSE SubSeq(b.names, b.sent + 1, IF b.sent + BATCH_SIZE_LIMIT < Len(b.names) THEN b.sent + BATCH_SIZE_LIMIT ELSE Len(b.names))

\* What a contract says of a name; Nobody for the zero address.
Says(contract, n) ==
    CASE contract = "registrar" /\ n \in wrapped -> NameWrapper
      [] contract = "nameWrapper" /\ n \notin wrapped \cup Deeper -> Nobody
      [] OTHER -> owner[n]

\* An answer is matched to its name by its place.
Fetched(b, i) == IF i \in DOMAIN b.answers THEN b.answers[i] ELSE Nobody

Complete(b) == b.sent = Len(b.names)
Fault == faults < MaxFaults /\ faults' = faults + 1
Found(found, names, b) == [n \in DOMAIN found \cup ToSet(names) |->
    IF n \in ToSet(names) THEN Fetched(b, CHOOSE i \in DOMAIN b.names : b.names[i] = n) ELSE found[n]]

-----------------------------------------------------------------------------
(* findOwners                                                               *)

Begin(names) ==
    /\ at # "asking"
    /\ LET cached == {n \in ToSet(names) : cache[n] # Nobody}
           asked  == ToSet(names) \ cached
       IN  /\ result' = [n \in cached |-> cache[n]]
           /\ batch' = [dcl |-> Batch(strategy, Those(names, asked \cap Dcl), <<>>),
                        ens |-> Batch("registrar", Those(names, asked \cap TwoLevel), Those(names, asked \cap Deeper))]
           /\ lately' = [n \in Names |-> IF n \in asked THEN {owner[n]} ELSE lately[n]]
    /\ at' = "asking"
    /\ UNCHANGED <<nature, cache, faults, shifted>>

\* A chunk is answered: for each of its names, for all of them but one, or by one object in all.
Answer(k) ==
    LET b == batch[k]
        names == Chunk(b)
        each == [i \in DOMAIN names |-> Says(b.contract, names[i])]
        Answered(answers) == batch' = [batch EXCEPT ![k].sent = @ + Len(names), ![k].tries = 0, ![k].answers = @ \o answers]
        Lost(S) == lately' = [n \in Names |-> IF n \in S THEN lately[n] \cup {Nobody} ELSE lately[n]]
    IN  /\ at = "asking" /\ ~Complete(b)
        /\ \/ Answered(each) /\ UNCHANGED <<faults, lately, shifted>>
           \/ /\ Fault /\ b.contract # "subgraph"
              /\ \E i \in DOMAIN names : Answered([each EXCEPT ![i] = Nobody]) /\ Lost({names[i]})
              /\ UNCHANGED shifted
           \/ /\ Fault /\ b.contract # "subgraph"
              /\ Answered(<<Nobody>>) /\ Lost(ToSet(names))
              /\ shifted' = (shifted \/ (Len(names) > 1 /\ b.sent + Len(names) < Len(b.names)))
        /\ UNCHANGED <<nature, cache, at, result>>

\* A request fails: it is sent again if that may help and the retries last, and the lookup fails otherwise.
FailChunk(k) ==
    /\ at = "asking" /\ ~Complete(batch[k]) /\ Fault
    /\ \/ /\ batch[k].contract # "subgraph" /\ batch[k].tries < MaxRetries - 1
          /\ batch' = [batch EXCEPT ![k].tries = @ + 1]
          /\ UNCHANGED <<at, result>>
       \/ at' = "failed" /\ batch' = [l \in Kinds |-> NoBatch] /\ result' = <<>>
    /\ UNCHANGED <<nature, cache, lately, shifted>>

\* Mutant: the NameWrapper is asked about every name.
WrappedNamesAll(b) == b.rest \o b.names

\* The names that the NameWrapper is asked about.
WrappedNames(b) == b.rest \o Those(b.names, {b.names[i] : i \in {j \in DOMAIN b.names : Fetched(b, j) = NameWrapper}})

\* The registrar has told which names the NameWrapper holds, and who owns the others.
AskNameWrapper ==
    LET b == batch.ens
        others == WrappedNames(b)
    IN  /\ at = "asking" /\ b.contract = "registrar" /\ Complete(b)
        /\ result' = Found(result, Those(b.names, Names \ ToSet(others)), b)
        /\ batch' = [batch EXCEPT !.ens = Batch("nameWrapper", others, <<>>)]
        /\ UNCHANGED <<nature, cache, at, faults, lately, shifted>>

\* Both lookups are over: what was found is cached, and a name without owner is not.
Return ==
    /\ at = "asking" /\ Complete(batch.dcl) /\ batch.ens.contract = "nameWrapper" /\ Complete(batch.ens)
    /\ LET found == Found(Found(result, batch.dcl.names, batch.dcl), batch.ens.names, batch.ens)
       IN  /\ result' = found
           /\ cache' = [n \in Names |-> IF n \in DOMAIN found THEN found[n] ELSE cache[n]]
    /\ at' = "answered" /\ batch' = [l \in Kinds |-> NoBatch]
    /\ UNCHANGED <<nature, faults, lately, shifted>>

\* checkPermission, of a wallet on a name that was looked up.
checkPermission(x, n) == at = "answered" /\ n \in DOMAIN result /\ result[n] = x

-----------------------------------------------------------------------------
(* The rest of the world                                                    *)

Transfer(n, x) ==
    /\ transfers < MaxTransfers /\ transfers' = transfers + 1
    /\ owner[n] # x /\ owner' = [owner EXCEPT ![n] = x]
    /\ lately' = [lately EXCEPT ![n] = @ \cup {x}]
    /\ UNCHANGED <<strategy, wrapped, cache, at, result, batch, faults, shifted>>

Wrap(n) ==
    /\ transfers < MaxTransfers /\ transfers' = transfers + 1
    /\ wrapped' = SymDiff(wrapped, {n})
    /\ lately' = [lately EXCEPT ![n] = IF n \in wrapped THEN @ \cup {Nobody} ELSE @]
    /\ UNCHANGED <<strategy, owner, cache, at, result, batch, faults, shifted>>

\* A minute has gone by since the name was cached.
Expire(n) ==
    /\ cache[n] # Nobody /\ cache' = [cache EXCEPT ![n] = Nobody]
    /\ UNCHANGED <<nature, at, result, batch, faults, lately, shifted>>

-----------------------------------------------------------------------------
Init ==
    /\ strategy \in {"subgraph", "dclRegistrar"}
    /\ owner = FirstOwners /\ wrapped \in SUBSET TwoLevel
    /\ cache = [n \in Names |-> Nobody]
    /\ at = "idle" /\ result = <<>> /\ batch = [k \in Kinds |-> NoBatch]
    /\ transfers = 0 /\ faults = 0
    /\ lately = [n \in Names |-> {owner[n]}] /\ shifted = FALSE

Next ==
    \/ \E names \in Lookups : Begin(names)
    \/ \E k \in Kinds : Answer(k) \/ FailChunk(k)
    \/ AskNameWrapper \/ Return
    \/ \E n \in Names : Expire(n) \/ (\E x \in Owners : Transfer(n, x))
    \/ \E n \in TwoLevel : Wrap(n)

Spec == Init /\ [][Next]_vars

-----------------------------------------------------------------------------
(* Who is answered as the owner of a name, or cached as such, owned it at   *)
(* some moment since it was looked up, and no name is left without owner    *)
(* that had one all along, whatever the batches, the retries and the names  *)
(* that were wrapped meanwhile: unless one object answered for a chunk that *)
(* is not the last, when every later answer is given to another name.       *)
OwnersWereOwners ==
    ~shifted =>
        /\ \A n \in Names : cache[n] \in lately[n] \cup {Nobody}
        /\ at = "answered" => \A n \in DOMAIN result :
              /\ result[n] = Nobody => Nobody \in lately[n]
              /\ \A x \in Wallets \cup {NameWrapper} : checkPermission(x, n) => x \in lately[n]
=============================================================================
