---------------------------- MODULE StrelaMemory ----------------------------
(***************************************************************************)
(* STRELA memory as its two users see it.  The CPU maps it through a       *)
(* write-back data cache; the CGRA reads and writes memory directly and    *)
(* does not snoop (allocator.c:120-123).  The cache and libstrela's two    *)
(* maintenance calls are outside the repository: they are modelled from    *)
(* how buffer.c:178-208 uses them.                                         *)
(*                                                                         *)
(* A word is what libstrela counts in; a line is the unit the cache        *)
(* fetches, writes back and drops.                                         *)
(***************************************************************************)
CONSTANTS
  Words,    \* the words of STRELA memory
  Lines,    \* the cache lines it is divided into
  LineOf,   \* LineOf[w]: the line that holds word w
  Values    \* what a word can hold

ASSUME LayoutAssumption ==
  /\ LineOf \in [Words -> Lines]
  /\ Values # {}

VARIABLES
  mem,      \* mem[w]: the word in memory, what the CGRA reads
  cached,   \* cached[w]: the CPU's copy while its line is held
  tag       \* tag[l]: the state of line l in the CPU's cache

memVars == <<mem, cached, tag>>

Tags == {"invalid", "clean", "dirty"}

MemTypeOK ==
  /\ mem \in [Words -> Values]
  /\ cached \in [Words -> Values]
  /\ tag \in [Lines -> Tags]

(* What "cached" says of a word whose line is not held: one value, so that *)
(* states do not differ in what nobody can read.                           *)
NoCopy == CHOOSE v \in Values : TRUE

(* The copies once the lines of L have been given up.                      *)
Without(L) == [w \in Words |-> IF LineOf[w] \in L THEN NoCopy ELSE cached[w]]

(* The program starts with nothing cached; what memory holds is arbitrary. *)
MemInit ==
  /\ mem \in [Words -> Values]
  /\ cached = [w \in Words |-> NoCopy]
  /\ tag = [l \in Lines |-> "invalid"]

Tag(w) == tag[LineOf[w]]

(* What a load by the CPU returns.                                         *)
CpuView(w) == IF Tag(w) = "invalid" THEN mem[w] ELSE cached[w]

(* The lines a maintenance call on the words of S reaches: whole lines, so *)
(* also neighbours of S (buffer.c:157-173, see StrelaColumn for the byte   *)
(* arithmetic).                                                            *)
Touch(S) == {LineOf[w] : w \in S}

(* A line may be fetched or given up at any moment: prefetch, a load of a  *)
(* neighbour, pressure from other memory.                                  *)
Fetch(l) ==
  /\ tag[l] = "invalid"
  /\ cached' = [w \in Words |-> IF LineOf[w] = l THEN mem[w] ELSE cached[w]]
  /\ tag' = [tag EXCEPT ![l] = "clean"]
  /\ UNCHANGED mem

(* strela_buffer_flush: dirty lines are written back and stay held.        *)
Clean(L) ==
  /\ mem' = [w \in Words |->
       IF LineOf[w] \in L /\ Tag(w) = "dirty" THEN cached[w] ELSE mem[w]]
  /\ tag' = [l \in Lines |->
       IF l \in L /\ tag[l] = "dirty" THEN "clean" ELSE tag[l]]
  /\ UNCHANGED cached

(* strela_buffer_inval: the lines are dropped, with whatever they hold.    *)
Discard(L) ==
  /\ tag' = [l \in Lines |-> IF l \in L THEN "invalid" ELSE tag[l]]
  /\ cached' = Without(L)
  /\ UNCHANGED mem

Evict(l) ==
  /\ tag[l] # "invalid"
  /\ mem' = [w \in Words |->
       IF LineOf[w] = l /\ tag[l] = "dirty" THEN cached[w] ELSE mem[w]]
  /\ tag' = [tag EXCEPT ![l] = "invalid"]
  /\ cached' = Without({l})

(* The CPU stores f[w] to every word w of S: the lines it touches are held *)
(* afterwards, their other words as the CPU last saw them.                 *)
CpuStore(S, f) ==
  /\ cached' = [w \in Words |->
       IF w \in S THEN f[w]
       ELSE IF LineOf[w] \in Touch(S) THEN CpuView(w)
       ELSE cached[w]]
  /\ tag' = [l \in Lines |-> IF l \in Touch(S) THEN "dirty" ELSE tag[l]]
  /\ UNCHANGED mem

(* The CPU stores and the lines are written back in the same call.         *)
CpuStoreThrough(S, f) ==
  /\ cached' = [w \in Words |->
       IF w \in S THEN f[w]
       ELSE IF LineOf[w] \in Touch(S) THEN CpuView(w)
       ELSE cached[w]]
  /\ mem' = [w \in Words |->
       IF w \in S THEN f[w]
       ELSE IF LineOf[w] \in Touch(S) THEN CpuView(w)
       ELSE mem[w]]
  /\ tag' = [l \in Lines |-> IF l \in Touch(S) THEN "clean" ELSE tag[l]]

(* The CGRA writes one word, past the CPU's cache.                         *)
DeviceStore(w, v) ==
  /\ mem' = [mem EXCEPT ![w] = v]
  /\ UNCHANGED <<cached, tag>>

=============================================================================
