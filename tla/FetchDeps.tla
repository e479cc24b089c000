------------------------------- MODULE FetchDeps -------------------------------
(***************************************************************************)
(* fetch_and_validate: the recursion by which `nscn run` and `nscn fetch`  *)
(* collect an image and the images its manifest asks for.  Each call looks *)
(* one image up, downloads it if the cache has none, validates it, appends *)
(* it to the list it was given and calls itself, with a copy of that list, *)
(* for every dependency; what a call returns is appended to the list of    *)
(* its caller.                                                             *)
(*                                                                         *)
(* An image is a name with labels that render to an ACI name.  The network *)
(* has, under that name, the image, something that is no ACI, an ACI with  *)
(* a manifest that does not validate, or nothing.                          *)
(***************************************************************************)
EXTENDS Naturals, Sequences

CONSTANTS
  Images,    \* what can be asked for
  Root,      \* the image named on the command line
  Catalogs,  \* what the manifests may ask for, see CatalogsAssumption
  MaxDepth,  \* calls that fit the process's stack
  MaxHeld,   \* images that fit its memory, in the lists of all calls together
  Faults     \* "net": a transfer may fail; "stall": it may never end; "mkdir": making
             \* the cache directory may fail

\* A dependency names an image; its labels may leave out one of version, os
\* and arch.
Dependency == [image : Images, labels : {"complete", "partial"}]

Kinds == {"image", "no ACI", "bad manifest", "nothing"}

ASSUME RootAssumption == Root \in Images
ASSUME CatalogsAssumption == Catalogs \subseteq [Images -> Seq(Dependency)]
ASSUME DepthAssumption == MaxDepth \in Nat \ {0}
ASSUME MemoryAssumption == MaxHeld \in Nat

VARIABLES
  requires,  \* requires[i]: the dependencies in the manifest of i
  kind,      \* kind[i]: what is found under the name of i
  cached,    \* the names that have a file in the local cache
  withDeps,  \* run, or fetch without -nodeps
  calls,     \* the calls of fetch_and_validate under way, the innermost last
  made,      \* how many have been made
  outcome,   \* "calling", "fetched" or "failed"; "crashed": the stack overflows;
             \* "exhausted": no memory is left; "stalled": waits for ever in a transfer
  images     \* what the outermost call has returned

vars == <<requires, kind, cached, withDeps, calls, made, outcome, images>>
world == <<requires, kind, withDeps>>

\* A call: its arguments, the step it is at and its list.
Call == [image : Images, labels : {"complete", "partial"}, images : Seq(Images), at : Nat \ {0},
         step : {"fetch", "validate_structure", "get_validated_image", "dependencies"}]

NewCall(dependency, list) ==
  [image |-> dependency.image, labels |-> dependency.labels, images |-> list,
   at |-> 1, step |-> "fetch"]

TypeOK ==
  /\ requires \in Catalogs
  /\ kind \in [Images -> Kinds]
  /\ cached \subseteq Images
  /\ withDeps \in BOOLEAN
  /\ calls \in Seq(Call) /\ Len(calls) <= MaxDepth
  /\ made \in Nat \ {0}
  /\ outcome \in {"calling", "fetched", "failed", "crashed", "exhausted", "stalled"}
  /\ images \in Seq(Images)

\* The labels of the command line are added to the defaults, which render.
Init ==
  /\ requires \in Catalogs
  /\ kind \in [Images -> Kinds]
  /\ cached \in SUBSET Images
  /\ withDeps \in BOOLEAN
  /\ calls = <<NewCall([image |-> Root, labels |-> "complete"], <<>>)>>
  /\ made = 1
  /\ outcome = "calling"
  /\ images = <<>>

-----------------------------------------------------------------------------
Top == calls[Len(calls)]
At(step) == outcome = "calling" /\ Top.step = step
Becomes(call) == calls' = [calls EXCEPT ![Len(calls)] = call]
Goto(step) == Becomes([Top EXCEPT !.step = step])

\* No call goes any further.
Ends(how) ==
  /\ outcome' = how
  /\ calls' = <<>>
  /\ UNCHANGED <<world, cached, made, images>>

\* A failure is handed up by every caller.
Fails == Ends("failed")

\* The local strategy, or the simple one, which stores what it gets.
Fetch ==
  /\ At("fetch")
  /\ Top.labels = "complete"
  /\ Top.image \in cached \/ kind[Top.image] # "nothing"
  /\ cached' = cached \cup {Top.image}
  /\ Goto("validate_structure")
  /\ UNCHANGED <<world, made, outcome, images>>

\* Mutant: what is not found is looked up again.
FetchFailsAgain ==
  /\ At("fetch")
  /\ Top.labels = "partial" \/ Top.image \notin cached
  /\ UNCHANGED vars

\* render_aci_name refuses the labels: a dependency's labels, if it has any,
\* replace the defaults and do not refine them.  Or the directory cannot be
\* made, or there is no transfer; the part of a file that one may leave behind
\* is ImageCache's matter.
FetchFails ==
  /\ At("fetch")
  /\ \/ "mkdir" \in Faults
     \/ Top.labels = "partial"
     \/ Top.image \notin cached /\ (kind[Top.image] = "nothing" \/ "net" \in Faults)
  /\ Fails

\* https.h sets no timeout: a server that stops sending keeps the process.
Stalls ==
  /\ "stall" \in Faults
  /\ At("fetch")
  /\ Top.labels = "complete"
  /\ Top.image \notin cached /\ kind[Top.image] # "nothing"
  /\ Ends("stalled")

ValidateStructure ==
  /\ At("validate_structure")
  /\ IF kind[Top.image] = "no ACI"
       THEN Fails
       ELSE /\ Goto("get_validated_image")
            /\ UNCHANGED <<world, cached, made, outcome, images>>

\* The images in the lists of all calls under way, and how many the next step
\* copies: an image is appended, or the list of the innermost call becomes the
\* argument of another call or the result of this one.
Held ==
  LET upTo[n \in 0 .. Len(calls)] == IF n = 0 THEN 0 ELSE upTo[n - 1] + Len(calls[n].images)
  IN  upTo[Len(calls)]
Copied == IF At("dependencies") THEN Len(Top.images) ELSE 1
Fits == Held + Copied <= MaxHeld

\* std::bad_alloc, which nobody catches.
Exhausts ==
  /\ \/ At("get_validated_image") /\ kind[Top.image] # "bad manifest"
     \/ At("dependencies")
  /\ ~Fits
  /\ Ends("exhausted")

\* Mutant: the manifest is parsed but its validation is not looked at.
GetValidatedImageUnchecked ==
  /\ At("get_validated_image")
  /\ Fits
  /\ Becomes([Top EXCEPT !.step = "dependencies", !.images = Append(@, Top.image)])
  /\ UNCHANGED <<world, cached, made, outcome, images>>

GetValidatedImage ==
  /\ At("get_validated_image")
  /\ IF kind[Top.image] = "bad manifest"
       THEN Fails
       ELSE /\ Fits
            /\ Becomes([Top EXCEPT !.step = "dependencies", !.images = Append(@, Top.image)])
            /\ UNCHANGED <<world, cached, made, outcome, images>>

\* The dependencies the call has still to fetch, with_dependencies permitting.
Required == IF withDeps THEN requires[Top.image] ELSE <<>>

\* Mutant: the name of the command line is asked for again.
RequireRoot ==
  /\ At("dependencies")
  /\ Top.at <= Len(Required)
  /\ Fits /\ Len(calls) < MaxDepth
  /\ calls' = Append(calls, NewCall([image |-> Root, labels |-> "complete"], Top.images))
  /\ made' = made + 1
  /\ UNCHANGED <<world, cached, outcome, images>>

\* Mutant: a dependency starts with a list of its own.
RequireAnew ==
  /\ At("dependencies")
  /\ Top.at <= Len(Required)
  /\ Fits /\ Len(calls) < MaxDepth
  /\ calls' = Append(calls, NewCall(Required[Top.at], <<>>))
  /\ made' = made + 1
  /\ UNCHANGED <<world, cached, outcome, images>>

Require ==
  /\ At("dependencies")
  /\ Top.at <= Len(Required)
  /\ Fits /\ Len(calls) < MaxDepth
  /\ calls' = Append(calls, NewCall(Required[Top.at], Top.images))
  /\ made' = made + 1
  /\ UNCHANGED <<world, cached, outcome, images>>

\* Nothing bounds the depth of the recursion but the stack.
Overflow ==
  /\ At("dependencies")
  /\ Top.at <= Len(Required)
  /\ Fits /\ Len(calls) = MaxDepth
  /\ Ends("crashed")

\* The innermost call has returned and its caller is now `caller`.
Resume(caller) ==
  LET n == Len(calls) - 1 IN
  /\ n > 0
  /\ Fits
  /\ calls' = [SubSeq(calls, 1, n) EXCEPT ![n] = caller]
  /\ UNCHANGED <<made, outcome, images>>

Caller == calls[Len(calls) - 1]

\* Mutant: the caller goes on with the list it had.
ReturnForgets ==
  /\ At("dependencies")
  /\ Top.at > Len(Required)
  /\ Resume([Caller EXCEPT !.at = @ + 1])
  /\ UNCHANGED <<world, cached>>

\* Mutant: what the call returned is put before what its caller had.
ReturnInserts ==
  /\ At("dependencies")
  /\ Top.at > Len(Required)
  /\ Resume([Caller EXCEPT !.at = @ + 1, !.images = Top.images \o @])
  /\ UNCHANGED <<world, cached>>

\* Mutant: the list that comes back is appended once for the call and once
\* more for the list it was given.
ReturnTwice ==
  /\ At("dependencies")
  /\ Top.at > Len(Required)
  /\ Resume([Caller EXCEPT !.at = @ + 1, !.images = @ \o Top.images \o Top.images])
  /\ UNCHANGED <<world, cached>>

\* The list a call returns begins with the one it was given, so its caller
\* has all of that twice from now on.
Return ==
  /\ At("dependencies")
  /\ Top.at > Len(Required)
  /\ Resume([Caller EXCEPT !.at = @ + 1, !.images = @ \o Top.images])
  /\ UNCHANGED <<world, cached>>

ReturnLast ==
  /\ At("dependencies")
  /\ Top.at > Len(Required)
  /\ Len(calls) = 1
  /\ Fits
  /\ outcome' = "fetched"
  /\ images' = Top.images
  /\ calls' = <<>>
  /\ UNCHANGED <<world, cached, made>>

Step == Fetch \/ FetchFails \/ Stalls \/ ValidateStructure \/ GetValidatedImage
        \/ Require \/ Overflow \/ Exhausts \/ Return \/ ReturnLast

Over == outcome # "calling" /\ UNCHANGED vars

Next == Step \/ Over

\* One process, which runs; a transfer ends, fails or is one that stalls.
Spec == Init /\ [][Next]_vars /\ WF_vars(Step)

-----------------------------------------------------------------------------
(***************************************************************************)
(* Properties.                                                             *)
(***************************************************************************)

Elements(s) == {s[n] : n \in 1 .. Len(s)}
RequiredBy(i) == {d.image : d \in Elements(requires[i])}

\* The least set with i in it that has the dependencies of its members.
Closure(i) ==
  {j \in Images : \A S \in SUBSET Images :
     i \in S /\ (\A k \in S : RequiredBy(k) \subseteq S) => j \in S}

Wanted == IF withDeps THEN Closure(Root) ELSE {Root}

InCycle(i) == \E j \in RequiredBy(i) : i \in Closure(j)

\* The images run lays over each other are the one asked for, first (run
\* takes the app from it), and all that it needs directly or not, and no
\* others (run.cpp:121-123, fetch.cpp:69-115).
FetchedIsWanted ==
  outcome = "fetched" => images # <<>> /\ images[1] = Root /\ Elements(images) = Wanted

\* What is in the cache and is found valid.
Valid == {i \in cached : kind[i] \notin {"no ACI", "bad manifest"}}

\* When the recursion succeeds nothing it went through was amiss, however
\* deep: every image is in the cache and valid, every dependency had a name
\* and there is no cycle (fetch.cpp:74-112).
FetchedIsSound ==
  outcome = "fetched" =>
    /\ Wanted \subseteq Valid
    /\ withDeps => \A i \in Wanted :
         ~InCycle(i) /\ \A d \in Elements(requires[i]) : d.labels = "complete"

\* In a list: after every place of i there is one of j.
Follows(i, j, list) ==
  \A p \in 1 .. Len(list) : list[p] = i => \E q \in p + 1 .. Len(list) : list[q] = j

\* However often an image is in the list, each of its dependencies has a place
\* after all of them: create_rootfs, which extracts the images in the
\* order of the list, leaves a dependency's file over that of the image that
\* needs it, consistently (linux.cpp:125-131, README "Overlay images' rootfs
\* onto app container root file system").
DependencyOnTop ==
  outcome = "fetched" /\ withDeps =>
    \A i \in Wanted : \A j \in RequiredBy(i) : Follows(i, j, images)

\* The stack only overflows if the images need each other in a circle.
CrashedInCycle == outcome = "crashed" => \E i \in Wanted : InCycle(i)

\* The memory runs out without any circle, as every call may double what is
\* held; but never more than that, so that it lasts for as many calls as it
\* has room for doublings (fetch.cpp:89-111).
ExhaustedByDoubling ==
  /\ Held < 2 ^ made
  /\ outcome = "exhausted" => MaxHeld < 2 ^ (made + 1)

\* A list of images from a set, Root before the others.
Sound(list, from) ==
  /\ Len(list) > 0 => list[1] = Root
  /\ \A m \in 1 .. Len(list) : list[m] \in from

\* Every call's list is sound, and only the outermost call, which is one for
\* Root, ever has none: what a caller appends on return cannot bring in an
\* image that was not looked at (fetch.cpp:103-111).
CallInv(n) ==
  /\ Sound(calls[n].images, Valid)
  /\ Len(calls[n].images) = 0 =>
       n = 1 /\ calls[n].image = Root /\ calls[n].step # "dependencies"
  /\ n < Len(calls) => calls[n].step = "dependencies"
  /\ calls[n].step # "fetch" => calls[n].image \in cached
  /\ calls[n].step = "get_validated_image" => kind[calls[n].image] # "no ACI"

CallsInv ==
  /\ outcome = "calling" => Len(calls) > 0
  /\ \A n \in 1 .. Len(calls) : CallInv(n)
  /\ Sound(images, Valid)
  /\ outcome = "fetched" => Len(images) > 0

\* Every call but the outermost is for the dependency its caller is at, and so
\* in the closure of a dependency of each call around it; a call begins with
\* the list of its caller, and only what is wanted is asked for.
ChainInv(n) ==
  /\ calls[n].image \in Wanted /\ Elements(calls[n].images) \subseteq Wanted
  /\ n = 1 => calls[n].image = Root
  /\ n > 1 => LET caller == calls[n - 1]
                  d == requires[caller.image][caller.at]
              IN  /\ withDeps /\ caller.at <= Len(requires[caller.image])
                  /\ calls[n].image = d.image /\ calls[n].labels = d.labels
                  /\ Elements(caller.images) \subseteq Elements(calls[n].images)
  /\ calls[n].step # "fetch" => calls[n].labels = "complete"
  /\ calls[n].step # "dependencies" => calls[n].at = 1
  /\ \A m \in 1 .. n - 1 : \E j \in RequiredBy(calls[m].image) : calls[n].image \in Closure(j)

\* What a list has of an image when the call for it has returned.
Settled(i, list) ==
  /\ Closure(i) \subseteq Elements(list)
  /\ \A j \in Closure(i) :
       ~InCycle(j) /\ \A d \in Elements(requires[j]) : d.labels = "complete"

\* An image in the list of a call is settled, or one whose dependencies that
\* call or one around it is fetching; of those the ones it is past are settled.
SettledInv(n) ==
  LET list == calls[n].images
      Past == {requires[calls[n].image][k] :
                 k \in {k \in 1 .. Len(requires[calls[n].image]) : k < calls[n].at}}
  IN  /\ \A i \in Elements(list) :
           \/ Settled(i, list)
           \/ \E m \in 1 .. n : calls[m].image = i /\ calls[m].step = "dependencies"
      /\ \A d \in Past : d.labels = "complete" /\ Settled(d.image, list)
      /\ calls[n].step = "dependencies" => calls[n].image \in Elements(list)

\* As far as the calls up to the n-th go, the image of dependency k of i has
\* been appended since i last was.
Fetched(i, k, n) ==
  \A m \in 1 .. n : calls[m].image = i /\ calls[m].step = "dependencies" =>
    k < calls[m].at \/ (k = calls[m].at /\ m < n /\ calls[m + 1].step = "dependencies")

FollowsInv(n) ==
  \A i \in Images : \A k \in 1 .. Len(requires[i]) :
    Fetched(i, k, n) => Follows(i, requires[i][k].image, calls[n].images)

WantedInv ==
  /\ \A n \in 1 .. Len(calls) :
       ChainInv(n) /\ (withDeps => SettledInv(n) /\ FollowsInv(n))
  /\ FetchedIsWanted /\ FetchedIsSound /\ DependencyOnTop

ListInv == TypeOK /\ CallsInv /\ WantedInv

\* The recursion itself always comes to an end, if only by running out of stack
\* or memory; what may keep the command for ever is a transfer that stalls, and
\* nothing else.
FetchEnds == <>(outcome \in {"fetched", "failed", "crashed", "exhausted"} \/ outcome = "stalled")
=============================================================================
