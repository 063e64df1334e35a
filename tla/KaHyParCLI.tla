----------------------------- MODULE KaHyParCLI -----------------------------
(***************************************************************************)
(* The start-up of the KaHyPar binary (application/KaHyPar.cc): main()     *)
(* answers --help, calls setDefaults, then                                 *)
(* configurePartitionerFromCommandLineInput, derives the coarsening and    *)
(* balance parameters from the final options and the hypergraph's total    *)
(* weight, partitions, and returns 0.  The command line is the boost       *)
(* variables_map, a record whose fields are Absent or an option value.     *)
(* Strings are model values or short tags; doubles are fractions          *)
(* [num, den]; unsigned HyperedgeID values are kept modulo 2^IdWidth.      *)
(***************************************************************************)
EXTENDS Integers

CONSTANTS
  Absent,         \* an option that is not on the command line
  CommandLines,   \* the variables_maps considered
  TotalWeight,    \* hypergraph.totalWeight() of the input file
  IdWidth,        \* bit width of HyperedgeID
  IntMax,         \* std::numeric_limits<int>::max()
  DoubleMax       \* std::numeric_limits<double>::max()

ASSUME CLIAssumption ==
  /\ TotalWeight \in Nat \ {0}
  /\ IdWidth \in Nat \ {0}
  /\ 2^IdWidth \in Nat \ {0}  \* follows from the line above by induction
  /\ IntMax \in Nat
  /\ DoubleMax \notin Int

\* What boost::program_options can hand over: a given --k, --seed, --t,
\* --FMreps or --cmaxnet is an integer (po::value<int>, <PartitionID>,
\* <HypernodeID>, <HyperedgeID>), a given --e or --s a double, here a
\* fraction of integers, and --help is present or not.
ASSUME CLITypes ==
  \A c \in CommandLines :
    /\ c.help \in BOOLEAN
    /\ \A o \in {"k", "seed", "t", "FMreps", "cmaxnet"} : c[o] \in Int \cup {Absent}
    /\ \A o \in {"e", "s"} : c[o] \in [num : Int, den : Int \ {0}] \cup {Absent}

VARIABLES
  vm,             \* the parsed command line
  config,         \* the Configuration
  phase,          \* "start", "defaults", "configured", "derived", "exited"
  status,         \* the process exit status, once phase = "exited"
  exitReason      \* history: "help", "param_error" or "done"

vars == <<vm, config, phase, status, exitReason>>

IdMax == 2^IdWidth - 1                  \* std::numeric_limits<HyperedgeID>::max()

\* Mutant: the conversion to the unsigned HyperedgeID keeps the sign.
AsHyperedgeIDSigned(x) == x

AsHyperedgeID(x) == x % 2^IdWidth       \* an int converted to HyperedgeID

Frac(n, d) == [num |-> n, den |-> d]

\* ceil(a / b) for positive integers.
CeilDiv(a, b) == (a + b - 1) \div b

Given(o) == vm[o] # Absent

Defaults ==
  [k |-> 2, epsilon |-> Frac(1, 20), seed |-> -1,
   ipart |-> "hMetis", ipartPath |-> Absent,
   cmaxnet |-> AsHyperedgeID(-1), ctype |-> "heavy_full", rtype |-> "kway_fm",
   t |-> 160, s |-> Frac(7, 2),
   contractionLimit |-> 160 * 2, weightFraction |-> Frac(7, 2 * 160 * 2),
   fmStop |-> "simple", herStop |-> "simple", fmReps |-> -1, herReps |-> 1,
   alpha |-> 8,
   maxPartWeight |-> Frac(0, 1), maxNodeWeight |-> Frac(0, 1)]

\* The values of the options that have a fixed set of legal values.
LegalCtype  == {"heavy_full", "heavy_partial", "heavy_lazy", "hyperedge"}
LegalStopFM == {"simple", "adaptive1", "adaptive2"}
LegalRtype  == {"twoway_fm", "kway_fm", "kway_fm_maxgain", "hyperedge", "label_propagation"}

\* The conditions under which configurePartitionerFromCommandLineInput
\* prints an error and calls exit(0).
ParameterError ==
  \/ ~(Given("hgr") /\ Given("e") /\ Given("k"))
  \/ Given("ctype") /\ vm.ctype \notin LegalCtype
  \/ Given("stopFM") /\ vm.stopFM \notin LegalStopFM
  \/ Given("rtype") /\ vm.rtype \notin LegalRtype

\* The Configuration configurePartitionerFromCommandLineInput leaves when
\* it does not exit.
Configured(c) ==
  LET ipart  == IF Given("part") /\ vm.part \in {"hMetis", "PaToH"} THEN vm.part ELSE c.ipart
      cmax   == AsHyperedgeID(vm.cmaxnet)
      reps   == IF vm.FMreps = -1 THEN IntMax ELSE vm.FMreps
  IN  [c EXCEPT
        !.k = vm.k,
        !.epsilon = vm.e,
        !.seed = IF Given("seed") THEN vm.seed ELSE @,
        !.ipart = ipart,
        !.ipartPath = IF Given("partpath") THEN vm.partpath
                      ELSE IF ipart = "hMetis" THEN "hmetis_default"
                      ELSE "patoh_default",
        !.cmaxnet = IF ~Given("cmaxnet") THEN @
                    ELSE IF cmax = AsHyperedgeID(-1) THEN IdMax ELSE cmax,
        !.ctype = IF Given("ctype") THEN vm.ctype ELSE @,
        !.s = IF Given("s") THEN vm.s ELSE @,
        !.t = IF Given("t") THEN vm.t ELSE @,
        !.fmStop = IF Given("stopFM") THEN vm.stopFM ELSE @,
        !.herStop = IF Given("stopFM") THEN vm.stopFM ELSE @,
        !.fmReps = IF Given("FMreps") THEN reps ELSE @,
        !.herReps = IF Given("FMreps") THEN reps ELSE @,
        !.alpha = IF ~Given("alpha") THEN @
                  ELSE IF vm.alpha = -1 THEN DoubleMax ELSE vm.alpha,
        !.rtype = IF Given("rtype") THEN vm.rtype ELSE @]

\* Mutant: contraction_limit and hypernode_weight_fraction are left as
\* setDefaults computed them.
DerivedKeepingDefaults(c) ==
  [c EXCEPT
     !.maxPartWeight = Frac((c.epsilon.den + c.epsilon.num) * CeilDiv(TotalWeight, c.k),
                            c.epsilon.den),
     !.maxNodeWeight = Frac(c.weightFraction.num * TotalWeight, c.weightFraction.den)]

\* The parameters main derives after the options are read.
Derived(c) ==
  LET limit == c.t * c.k
      frac  == Frac(c.s.num, c.s.den * limit)
  IN  [c EXCEPT
        !.contractionLimit = limit,
        !.weightFraction = frac,
        !.maxPartWeight = Frac((c.epsilon.den + c.epsilon.num) * CeilDiv(TotalWeight, c.k),
                               c.epsilon.den),
        !.maxNodeWeight = Frac(frac.num * TotalWeight, frac.den)]

-----------------------------------------------------------------------------

Init ==
  /\ vm \in CommandLines
  /\ config = [f \in DOMAIN Defaults |-> Absent]
  /\ phase = "start"
  /\ status = 0
  /\ exitReason = Absent

\* if (vm.count("help")) { print; return 0; }
Help ==
  /\ phase = "start"
  /\ vm.help
  /\ phase' = "exited"
  /\ status' = 0
  /\ exitReason' = "help"
  /\ UNCHANGED <<vm, config>>

\* Configuration config; setDefaults(config);
SetDefaults ==
  /\ phase = "start"
  /\ ~vm.help
  /\ config' = Defaults
  /\ phase' = "defaults"
  /\ UNCHANGED <<vm, status, exitReason>>

\* configurePartitionerFromCommandLineInput: an error path ...
ConfigureError ==
  /\ phase = "defaults"
  /\ ParameterError
  /\ phase' = "exited"
  /\ status' = 0
  /\ exitReason' = "param_error"
  /\ UNCHANGED <<vm, config>>

\* Mutant: the defaults are applied after the options (the calls swapped).
ConfigureThenDefaults ==
  /\ phase = "defaults"
  /\ ~ParameterError
  /\ config' = Defaults
  /\ phase' = "configured"
  /\ UNCHANGED <<vm, status, exitReason>>

\* ... or the updated Configuration.
Configure ==
  /\ phase = "defaults"
  /\ ~ParameterError
  /\ config' = Configured(config)
  /\ phase' = "configured"
  /\ UNCHANGED <<vm, status, exitReason>>

\* Reading the hypergraph and deriving the dependent parameters.
Derive ==
  /\ phase = "configured"
  /\ config' = Derived(config)
  /\ phase' = "derived"
  /\ UNCHANGED <<vm, status, exitReason>>

\* performDirectKwayPartitioning, output, return 0.
Finish ==
  /\ phase = "derived"
  /\ phase' = "exited"
  /\ status' = 0
  /\ exitReason' = "done"
  /\ UNCHANGED <<vm, config>>

Next == Help \/ SetDefaults \/ ConfigureError \/ Configure \/ Derive \/ Finish

Spec == Init /\ [][Next]_vars

-----------------------------------------------------------------------------
(* Properties.                                                             *)

TypeOK ==
  /\ vm \in CommandLines
  /\ phase \in {"start", "defaults", "configured", "derived", "exited"}
  /\ status \in Int
  /\ exitReason \in {Absent, "help", "param_error", "done"}
  /\ DOMAIN config = DOMAIN Defaults
  /\ phase \in {"defaults", "configured", "derived"} =>
       /\ config.k \in Int
       /\ config.cmaxnet \in 0 .. IdMax
       /\ config.fmReps \in Int /\ config.herReps \in Int

\* The parameters the partitioner works with are derived from the options
\* in force at the end, not from the defaults: setDefaults computes
\* contraction_limit and hypernode_weight_fraction with k = 2 and t = 160,
\* and main must recompute them (and max_part_weight and
\* max_allowed_node_weight) once --k, --t and --s are read.
DerivedFromFinalOptions ==
  phase = "derived" =>
    /\ config.contractionLimit = config.t * config.k
    /\ config.weightFraction.num * config.t * config.k * config.s.den
         = config.s.num * config.weightFraction.den
    /\ config.maxNodeWeight.num * config.t * config.k * config.s.den
         = config.s.num * TotalWeight * config.maxNodeWeight.den
    /\ config.maxPartWeight.num * config.epsilon.den
         = (config.epsilon.den + config.epsilon.num) * CeilDiv(TotalWeight, config.k)
           * config.maxPartWeight.den

\* Every option given with a legal value is in force when partitioning
\* starts: no later default or derivation overwrites it.
OptionsTakeEffect ==
  phase = "derived" =>
    /\ config.k = vm.k
    /\ Given("ctype") => config.ctype = vm.ctype
    /\ Given("rtype") => config.rtype = vm.rtype
    /\ Given("stopFM") => config.fmStop = vm.stopFM /\ config.herStop = vm.stopFM
    /\ Given("t") => config.t = vm.t
    /\ Given("seed") => config.seed = vm.seed

\* The spec (section 6, "--k <int> number of blocks, >= 2"): no run
\* partitions into fewer than two blocks; configurePartitionerFromCommandLineInput
\* copies --k into the configuration without a check.
KAtLeastTwo ==
  phase = "derived" => config.k >= 2

\* The spec (section 6, 7): the process exits with status 0 exactly when it
\* has partitioned (or printed the help); a missing or invalid parameter is
\* reported and ends the run with a nonzero status.
ParameterErrorsExitNonzero ==
  phase = "exited" => (status = 0 <=> exitReason \in {"help", "done"})

\* The spec (section 7): an invalid value of an option is a user-input
\* error; no run partitions with an option value it did not accept.
InvalidOptionsRejected ==
  phase = "derived" => (Given("part") => vm.part \in {"hMetis", "PaToH"})

=============================================================================
