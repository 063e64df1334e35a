------------------------- MODULE KaHyParCLIProofs -------------------------
(***************************************************************************)
(* Proofs about the start-up of the binary, for every command line boost   *)
(* can produce, every hypergraph weight and every width of HyperedgeID:    *)
(* the configuration is well typed, the derived parameters are computed    *)
(* from the options in force, and every legal option given takes effect.   *)
(***************************************************************************)
EXTENDS KaHyParCLI, TLAPS

\* The configuration in each phase of main(): none before setDefaults, the
\* defaults, the defaults updated by the command line, then derived.
ConfigInPhase ==
  /\ phase = "start" => config = [f \in DOMAIN Defaults |-> Absent]
  /\ phase = "defaults" => config = Defaults
  /\ phase = "configured" => config = Configured(Defaults) /\ ~ParameterError
  /\ phase = "derived" => config = Derived(Configured(Defaults)) /\ ~ParameterError

IInv ==
  /\ vm \in CommandLines
  /\ phase \in {"start", "defaults", "configured", "derived", "exited"}
  /\ status \in Int
  /\ exitReason \in {Absent, "help", "param_error", "done"}
  /\ DOMAIN config = DOMAIN Defaults
  /\ ConfigInPhase

-----------------------------------------------------------------------------
\* setDefaults: the fields the properties read, and their types.
LEMMA DefaultsFacts ==
  /\ Defaults.k = 2 /\ Defaults.t = 160 /\ Defaults.s = Frac(7, 2)
  /\ Defaults.cmaxnet \in 0 .. IdMax
  /\ Defaults.fmReps \in Int /\ Defaults.herReps \in Int
BY CLIAssumption DEF Defaults, AsHyperedgeID, IdMax, Frac

\* configurePartitionerFromCommandLineInput on the defaults, when it does
\* not exit: k and epsilon are the options, t and s integers and a
\* fraction, and every option with a legal value given is copied.
LEMMA ConfiguredFacts ==
  ASSUME vm \in CommandLines, ~ParameterError
  PROVE  LET c == Configured(Defaults) IN
         /\ DOMAIN c = DOMAIN Defaults
         /\ c.k = vm.k /\ c.k \in Int
         /\ c.t \in Int /\ c.s \in [num : Int, den : Int]
         /\ c.cmaxnet \in 0 .. IdMax
         /\ c.fmReps \in Int /\ c.herReps \in Int
         /\ Given("ctype") => c.ctype = vm.ctype
         /\ Given("rtype") => c.rtype = vm.rtype
         /\ Given("stopFM") => c.fmStop = vm.stopFM /\ c.herStop = vm.stopFM
         /\ Given("t") => c.t = vm.t
         /\ Given("seed") => c.seed = vm.seed
<1> DEFINE c == Configured(Defaults)
<1>1. /\ vm.k \in Int /\ vm.k # Absent
      /\ vm.t \in Int \cup {Absent} /\ vm.s \in [num : Int, den : Int \ {0}] \cup {Absent}
      /\ vm.cmaxnet \in Int \cup {Absent} /\ vm.FMreps \in Int \cup {Absent}
  BY CLITypes DEF ParameterError, Given
<1>2. DOMAIN c = DOMAIN Defaults
  BY DEF c, Configured
<1>3. c.k = vm.k /\ c.k \in Int
  BY <1>1 DEF c, Configured, Defaults
<1>4. c.t \in Int /\ c.s \in [num : Int, den : Int]
  BY <1>1 DEF c, Configured, Defaults, Given, Frac
<1>5. c.cmaxnet \in 0 .. IdMax
  BY <1>1, DefaultsFacts, CLIAssumption DEF c, Configured, Given, AsHyperedgeID, IdMax
<1>6. c.fmReps \in Int /\ c.herReps \in Int
  BY <1>1, DefaultsFacts, CLIAssumption DEF c, Configured, Given
<1>7. /\ Given("ctype") => c.ctype = vm.ctype
      /\ Given("rtype") => c.rtype = vm.rtype
      /\ Given("stopFM") => c.fmStop = vm.stopFM /\ c.herStop = vm.stopFM
      /\ Given("t") => c.t = vm.t
      /\ Given("seed") => c.seed = vm.seed
  BY DEF c, Configured, Defaults
<1>8. QED
  BY <1>2, <1>3, <1>4, <1>5, <1>6, <1>7 DEF c

\* The derivation in main changes only the four derived parameters, and
\* computes them from k, t, s and epsilon.
LEMMA DerivedFacts ==
  ASSUME NEW c, DOMAIN c = DOMAIN Defaults,
         c.t \in Int, c.k \in Int, c.s \in [num : Int, den : Int]
  PROVE  LET d == Derived(c) IN
         /\ DOMAIN d = DOMAIN Defaults
         /\ \A f \in DOMAIN Defaults \ {"contractionLimit", "weightFraction",
                                        "maxPartWeight", "maxNodeWeight"} : d[f] = c[f]
         /\ d.contractionLimit = d.t * d.k
         /\ d.weightFraction.num * d.t * d.k * d.s.den = d.s.num * d.weightFraction.den
         /\ d.maxNodeWeight.num * d.t * d.k * d.s.den
              = d.s.num * TotalWeight * d.maxNodeWeight.den
         /\ d.maxPartWeight.num * d.epsilon.den
              = (d.epsilon.den + d.epsilon.num) * CeilDiv(TotalWeight, d.k)
                * d.maxPartWeight.den
<1> DEFINE d == Derived(c)
<1>1. DOMAIN d = DOMAIN Defaults
  BY DEF d, Derived
<1>2. \A f \in DOMAIN Defaults \ {"contractionLimit", "weightFraction",
                                 "maxPartWeight", "maxNodeWeight"} : d[f] = c[f]
  BY DEF d, Derived
<1>3. /\ d.t = c.t /\ d.k = c.k /\ d.s = c.s /\ d.epsilon = c.epsilon
      /\ d.contractionLimit = c.t * c.k
      /\ d.weightFraction = Frac(c.s.num, c.s.den * (c.t * c.k))
      /\ d.maxNodeWeight = Frac(c.s.num * TotalWeight, c.s.den * (c.t * c.k))
      /\ d.maxPartWeight = Frac((c.epsilon.den + c.epsilon.num) * CeilDiv(TotalWeight, c.k),
                                c.epsilon.den)
  BY <1>2 DEF d, Derived, Defaults, Frac
<1>4. TotalWeight \in Int
  BY CLIAssumption
<1>5. QED
  BY <1>1, <1>2, <1>3, <1>4 DEF d, Frac

-----------------------------------------------------------------------------
(* IInv is inductive.                                                      *)

LEMMA InitIInv == Init => IInv
BY DEF Init, IInv, ConfigInPhase

LEMMA NextIInv == IInv /\ [Next]_vars => IInv'
<1> SUFFICES ASSUME IInv, [Next]_vars PROVE IInv'
  OBVIOUS
<1>0. /\ vm' = vm
      /\ ParameterError' = ParameterError
      /\ Configured(Defaults)' = Configured(Defaults)
      /\ Derived(Configured(Defaults))' = Derived(Configured(Defaults))
  <2>1. vm' = vm
    BY DEF Next, vars, Help, SetDefaults, ConfigureError, Configure, Derive, Finish
  <2>2. QED
    BY <2>1 DEF ParameterError, Given, Configured, Derived
<1>1. CASE Help \/ ConfigureError \/ Finish
  BY <1>0, <1>1 DEF Help, ConfigureError, Finish, IInv, ConfigInPhase
<1>2. CASE SetDefaults
  BY <1>0, <1>2 DEF SetDefaults, IInv, ConfigInPhase
<1>3. CASE Configure
  <2>1. config = Defaults /\ ~ParameterError
    BY <1>3 DEF Configure, IInv, ConfigInPhase
  <2>2. vm \in CommandLines
    BY DEF IInv
  <2>3. DOMAIN Configured(Defaults) = DOMAIN Defaults
    BY <2>1, <2>2, ConfiguredFacts, Zenon
  <2>4. QED
    BY <1>0, <1>3, <2>1, <2>3 DEF Configure, IInv, ConfigInPhase
<1>4. CASE Derive
  <2>1. config = Configured(Defaults) /\ ~ParameterError
    BY <1>4 DEF Derive, IInv, ConfigInPhase
  <2>2. vm \in CommandLines
    BY DEF IInv
  <2>3. LET c == Configured(Defaults) IN
          DOMAIN c = DOMAIN Defaults /\ c.t \in Int /\ c.k \in Int
          /\ c.s \in [num : Int, den : Int]
    BY <2>1, <2>2, ConfiguredFacts, Zenon
  <2>4. DOMAIN Derived(Configured(Defaults)) = DOMAIN Defaults
    BY <2>3, DerivedFacts, Zenon
  <2>5. QED
    BY <1>0, <1>4, <2>1, <2>4 DEF Derive, IInv, ConfigInPhase
<1>5. CASE UNCHANGED vars
  BY <1>0, <1>5 DEF vars, IInv, ConfigInPhase
<1>6. QED
  BY <1>1, <1>2, <1>3, <1>4, <1>5 DEF Next
-----------------------------------------------------------------------------
(* What IInv gives once the configuration is derived.                      *)

\* In the derived phase the configuration is Derived(Configured(Defaults)),
\* whose copied fields are those of Configured(Defaults).
LEMMA DerivedConfig ==
  ASSUME IInv, phase = "derived"
  PROVE  LET c == Configured(Defaults)
             d == Derived(c)
         IN  /\ config = d
             /\ DOMAIN c = DOMAIN Defaults /\ c.t \in Int /\ c.k \in Int
             /\ c.s \in [num : Int, den : Int]
             /\ \A f \in {"k", "t", "s", "epsilon", "seed", "cmaxnet", "ctype", "rtype",
                          "fmStop", "herStop", "fmReps", "herReps"} : d[f] = c[f]
<1> DEFINE c == Configured(Defaults)
           d == Derived(c)
<1>1. config = d /\ ~ParameterError /\ vm \in CommandLines
  BY DEF IInv, ConfigInPhase
<1>2. DOMAIN c = DOMAIN Defaults /\ c.t \in Int /\ c.k \in Int
      /\ c.s \in [num : Int, den : Int]
  BY <1>1, ConfiguredFacts, Zenon
<1>3. \A f \in DOMAIN Defaults \ {"contractionLimit", "weightFraction",
                                 "maxPartWeight", "maxNodeWeight"} : d[f] = c[f]
  BY <1>2, DerivedFacts, Zenon
<1>4. {"k", "t", "s", "epsilon", "seed", "cmaxnet", "ctype", "rtype",
       "fmStop", "herStop", "fmReps", "herReps"}
        \subseteq DOMAIN Defaults \ {"contractionLimit", "weightFraction",
                                     "maxPartWeight", "maxNodeWeight"}
  BY DEF Defaults
<1>5. QED
  BY <1>1, <1>2, <1>3, <1>4

LEMMA IInvTypeOK == IInv => TypeOK
<1> SUFFICES ASSUME IInv PROVE TypeOK
  OBVIOUS
<1>1. CASE phase = "defaults"
  BY <1>1, DefaultsFacts DEF IInv, ConfigInPhase, TypeOK
<1>2. CASE phase = "configured"
  <2>1. config = Configured(Defaults) /\ ~ParameterError /\ vm \in CommandLines
    BY <1>2 DEF IInv, ConfigInPhase
  <2>2. LET c == Configured(Defaults) IN
          c.k \in Int /\ c.cmaxnet \in 0 .. IdMax /\ c.fmReps \in Int /\ c.herReps \in Int
    BY <2>1, ConfiguredFacts, Zenon
  <2>3. QED
    BY <2>1, <2>2 DEF IInv, TypeOK
<1>3. CASE phase = "derived"
  <2>1. LET c == Configured(Defaults)
            d == Derived(c)
        IN  /\ config = d
            /\ \A f \in {"k", "cmaxnet", "fmReps", "herReps"} : d[f] = c[f]
    BY <1>3, DerivedConfig, Zenon
  <2>2. vm \in CommandLines /\ ~ParameterError
    BY <1>3 DEF IInv, ConfigInPhase
  <2>3. LET c == Configured(Defaults) IN
          c.k \in Int /\ c.cmaxnet \in 0 .. IdMax /\ c.fmReps \in Int /\ c.herReps \in Int
    BY <2>2, ConfiguredFacts, Zenon
  <2>4. QED
    BY <2>1, <2>3 DEF IInv, TypeOK
<1>4. CASE phase \notin {"defaults", "configured", "derived"}
  BY <1>4 DEF IInv, TypeOK
<1>5. QED
  BY <1>1, <1>2, <1>3, <1>4

LEMMA IInvDerived == IInv => DerivedFromFinalOptions
<1> SUFFICES ASSUME IInv, phase = "derived" PROVE DerivedFromFinalOptions
  BY DEF DerivedFromFinalOptions
<1>1. LET c == Configured(Defaults) IN
        /\ config = Derived(c)
        /\ DOMAIN c = DOMAIN Defaults /\ c.t \in Int /\ c.k \in Int
        /\ c.s \in [num : Int, den : Int]
  BY DerivedConfig, Zenon
<1>2. QED
  BY <1>1, DerivedFacts, Zenon DEF DerivedFromFinalOptions

LEMMA IInvOptions == IInv => OptionsTakeEffect
<1> SUFFICES ASSUME IInv, phase = "derived" PROVE OptionsTakeEffect
  BY DEF OptionsTakeEffect
<1>1. LET c == Configured(Defaults)
          d == Derived(c)
      IN  /\ config = d
          /\ \A f \in {"k", "t", "seed", "ctype", "rtype", "fmStop", "herStop"} : d[f] = c[f]
  BY DerivedConfig, Zenon
<1>2. vm \in CommandLines /\ ~ParameterError
  BY DEF IInv, ConfigInPhase
<1>3. LET c == Configured(Defaults) IN
        /\ c.k = vm.k
        /\ Given("ctype") => c.ctype = vm.ctype
        /\ Given("rtype") => c.rtype = vm.rtype
        /\ Given("stopFM") => c.fmStop = vm.stopFM /\ c.herStop = vm.stopFM
        /\ Given("t") => c.t = vm.t
        /\ Given("seed") => c.seed = vm.seed
  BY <1>2, ConfiguredFacts, Zenon
<1>4. QED
  BY <1>1, <1>3 DEF OptionsTakeEffect

-----------------------------------------------------------------------------
\* main() keeps its Configuration well typed for every command line boost
\* can produce: in particular --cmaxnet ends in 0 .. max HyperedgeID, the
\* -1 sentinel included.
THEOREM TypeOKThm == Spec => []TypeOK
BY InitIInv, NextIInv, IInvTypeOK, PTL DEF Spec

\* For every command line, the parameters the partitioner runs with are
\* derived from the final k, t, s and epsilon, never from the values
\* setDefaults derived from k = 2 and t = 160.
THEOREM DerivedFromFinalOptionsThm == Spec => []DerivedFromFinalOptions
BY InitIInv, NextIInv, IInvDerived, PTL DEF Spec

\* For every command line, each option given with a legal value is in
\* force when partitioning starts.
THEOREM OptionsTakeEffectThm == Spec => []OptionsTakeEffect
BY InitIInv, NextIInv, IInvOptions, PTL DEF Spec
====
