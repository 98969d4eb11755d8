---------------------------- MODULE MCWebConsole ----------------------------
(* Threads of the console and processes of the command line, by name; one  *)
(* configuration, one that differs in a setting, one in its limits.        *)
EXTENDS WebConsole, TLC
CONSTANTS w1, w2, c1, c2, c3, d1, d2

Configured(setting, allowance) ==
  [identity |-> [problem |-> "a", setting |-> setting], allowance |-> allowance]
FormValue == {Configured(1, 1)}
ConfigValue == {Configured(1, 1), Configured(2, 1), Configured(1, 2)}

(* Calls at the prompt that differ in their setting alone, in any order.   *)
SettingValue == {Configured(1, 1), Configured(2, 1)}
Commands == Permutations({c1, c2, c3})
=============================================================================
