----------------------------- MODULE CommandLine -----------------------------
(***************************************************************************)
(* What nscn makes of its arguments: flags and ordered arguments, the      *)
(* command, and the image that fetch and run are asked for.  An argument   *)
(* is a string; what its text holds is given by the constants.             *)
(***************************************************************************)
EXTENDS Integers, Sequences

CONSTANTS
  DashText,       \* from each argument that begins with "-" to the rest of it
  LabelOf,        \* from each argument with a ":" before its end to [name, value]
  DefaultLabels   \* config.default_labels, with os, version and arch

Commands == {"enter", "fetch", "gc", "list", "run", "status", "validate"}

\* Mutant: flags may stand anywhere.
SeparateFlagsAnywhere(args) ==
  LET sep[n \in 0 .. Len(args)] ==
        IF n = 0 THEN [flags |-> {}, ordered |-> <<>>, finished |-> FALSE]
        ELSE LET so == sep[n - 1]
             IN  IF ~so.finished /\ args[n] = "--" THEN [so EXCEPT !.finished = TRUE]
                 ELSE IF ~so.finished /\ args[n] \in DOMAIN DashText
                 THEN [so EXCEPT !.flags = @ \cup {DashText[args[n]]}]
                 ELSE [so EXCEPT !.ordered = Append(@, args[n])]
  IN  sep[Len(args)]

\* The flags up to the first argument that is none, or up to "--", which is dropped.
SeparateFlags(args) ==
  LET sep[n \in 0 .. Len(args)] ==
        IF n = 0 THEN [flags |-> {}, ordered |-> <<>>, finished |-> FALSE]
        ELSE LET so == sep[n - 1]
             IN  IF ~so.finished /\ args[n] = "--" THEN [so EXCEPT !.finished = TRUE]
                 ELSE IF ~so.finished /\ args[n] \in DOMAIN DashText
                 THEN [so EXCEPT !.flags = @ \cup {DashText[args[n]]}]
                 ELSE [so EXCEPT !.finished = TRUE, !.ordered = Append(@, args[n])]
  IN  sep[Len(args)]

Does(what) == [does |-> what, flags |-> {}, ordered |-> <<>>]

\* How main ends, or the command it dispatches with its own flags and arguments.
Main(argv) ==
  LET main == SeparateFlags(argv)
      command == main.ordered[1]
      options == SeparateFlags(Tail(main.ordered))
  IN  CASE "help" \in main.flags -> Does("success")
        [] "help" \notin main.flags /\ main.ordered = <<>> -> Does("failure")
        [] OTHER ->
             IF command = "help"
             THEN IF Len(main.ordered) = 2 /\ main.ordered[2] \notin Commands
                  THEN Does("failure") ELSE Does("success")
             ELSE IF command \in Commands
             THEN [does |-> command, flags |-> options.flags, ordered |-> options.ordered]
             ELSE Does("failure")

\* The image that fetch and run are asked for, <<>> if they refuse: a name, and
\* labels that replace the defaults and each other from left to right.
RequestOf(ordered) ==
  IF ordered = <<>> \/ \E i \in 2 .. Len(ordered) : ordered[i] \notin DOMAIN LabelOf THEN <<>>
  ELSE LET labels[n \in 1 .. Len(ordered)] ==
             IF n = 1 THEN DefaultLabels
             ELSE LET before == labels[n - 1]
                      label == LabelOf[ordered[n]]
                  IN  [m \in DOMAIN before \cup {label.name} |->
                         IF m = label.name THEN label.value ELSE before[m]]
       IN  <<[name |-> ordered[1], labels |-> labels[Len(ordered)]]>>
=============================================================================
