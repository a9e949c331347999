---------------------------- MODULE ProcessCode ----------------------------
(* What ServiceCallDll, CreateService, GetProcessPath and                  *)
(* GetEnvironmentStringsW do to other processes, services and their own    *)
(* environment, in the steps of Calls.                                     *)
EXTENDS Calls

(* The caller may want any of the three ways to start the thread; Inject   *)
(* returns 0 whatever happened.                                            *)
Inject ==
  LET Close == <<Free("hTarget"), Ret("done")>>
      Nt    == <<Do({"hNtdll"}, Close),
                 Out("hRemoteThread", <<Free("pLoadLibFuncParam")>> \o Close),
                 Do({"hRemoteThread"}, On), Free("pLoadLibFuncParam"), Free("hTarget")>>
      Zw    == <<Get("hNtdll again", Close), Do({"hNtdll again"}, Close),
                 Out("hRemoteThread", On), Do({"hTarget"}, On),
                 IfSet("hRemoteThread", <<>>, Done)>>
  IN  Routine(<<Do({}, Done), Do({}, Done), Get("hTarget", Done),
                Get("pLoadLibFuncParam", Close),
                Do({"hTarget", "pLoadLibFuncParam"}, Close),
                Get("hK32dll", Close), Get("hNtdll", Close), Do({"hK32dll"}, Close),
                If(<<Get("hRemoteThread", On)>>, <<If(Nt, Zw)>>),
                IfSet("hRemoteThread", <<>>, Close)>> \o Done,
              {"hTarget", "pLoadLibFuncParam", "hK32dll", "hNtdll", "hNtdll again",
               "hRemoteThread"}, {})

Is64BitProcess ==
  LET Close == <<Free("hProcess")>> \o Fail
  IN  Clean(<<If(Fail, <<>>), Get("hProcess", Fail), Do({}, Close),
              Do({"hProcess"}, Close), Free("hProcess"), If(Ok, Fail)>>)

(* The environment is looked through for a name. *)
ReadEnvironment(found, other) ==
  <<Take("lpEnvironment"), Do({"hProcess"}, <<Free("lpEnvironment"), Leave>>),
    Must({"lpEnvironment"}), Free("lpEnvironment"), If(found, other)>>

GetProcessEnvByPid_Wow64 ==
  Routine(<<If(Fail, <<>>), Do({}, Fail), Get("hProcess", Fail),
            Do({"hProcess"}, On),  \* the query; pbi stays empty when it fails
            Do({"hProcess"}, Fail), Do({"hProcess"}, Fail)>>
          \o ReadEnvironment(Ok, <<>>) \o <<End>> \o Fail,
          {"hProcess"}, {"honest"})

GetProcessEnvByPid_x86 ==
  LET Close == <<IfSet("hProcess", <<Free("hProcess")>>, <<>>)>>
  IN  Clean(<<If(<<Leave>>, <<>>), Do({}, <<Leave>>), Get("hProcess", <<Leave>>),
              Do({"hProcess"}, <<Leave>>), Do({"hProcess"}, <<Leave>>), Do({"hProcess"}, <<Leave>>)>>
            \o ReadEnvironment(Close \o Ok, Close \o Ok) \o <<End>> \o Close \o Fail)

GetPidsByProcessName ==
  Clean(<<Get("hSnapshot", Fail), Do({"hSnapshot"}, <<Free("hSnapshot")>> \o Fail),
          Free("hSnapshot"), If(Ok, Fail)>>)

EnableDebugPrivilege ==
  Routine(<<Uninit("token"), Out("token", Fail), Do({}, Fail), Do({"token"}, Fail)>> \o Ok,
          {"token"}, {})

LoadMySQLFun ==
  Routine(<<Get("hDLL", Done), Do({"hDLL"}, <<Free("hDLL")>> \o Done)>> \o Done, {"hDLL"}, {})

(* A failed RegOpenKeyEx may leave hKey as it was: without a value. *)
GetInstalledPath ==
  Routine(<<Uninit("hKey"), Out("hKey", <<Leave>>), Do({"hKey"}, On), Do({"hKey"}, <<Leave>>),
            End, IfSet("hKey", <<Drop("hKey")>>, <<>>)>> \o Done, {}, {"live"})

GetProcessFullPath ==
  LET Close == <<IfSet("hProcess", <<Drop("hProcess")>>, <<>>)>>
  IN  Clean(<<Get("hProcess", On), Do({"hProcess"}, Close \o Fail)>> \o Close \o Ok)

(* The debug build returns as soon as it finds the program. *)
IsExistTrustAgentPro ==
  Routine(<<Get("hProcessSnap", On), Get("hProcess", Fail),
            While(<<Do({"hProcessSnap"}, <<Break>>), If(<<Ret("done")>>, <<>>)>>),
            Free("hProcess")>> \o Done,
          {"hProcessSnap", "hProcess"}, {})

(* The block is only released when there is none. *)
IsEnvValue ==
  Routine(<<Get("lpvEnv", <<Leave>>), Must({"lpvEnv"}), End,
            IfSet("lpvEnv", <<>>, <<Free("lpvEnv")>>)>> \o Done, {"lpvEnv"}, {})

(* Mutant: the block is not checked. *)
GetEnvByUseApiUnchecked ==
  Clean(<<Get("lpvEnv", On), Must({"lpvEnv"}), Must({"lpvEnv"}), Free("lpvEnv")>> \o Done)

GetEnvByUseApi ==
  Clean(<<Get("lpvEnv", Done), Must({"lpvEnv"}), Must({"lpvEnv"}), Free("lpvEnv")>> \o Done)

(* A service that exists already counts as installed. *)
trustdservice_Install ==
  Clean(<<Get("hSCM", Fail),
          If(<<Free("hSCM")>> \o Ok, <<Get("hService", <<Free("hSCM")>> \o Fail)>>),
          Free("hService"), Free("hSCM")>> \o Ok)

trustdservice_Uninstall ==
  Routine(<<Get("hSCManager", Fail), Get("hSCService", Fail), Do({"hSCService"}, Fail),
            If(<<Do({"hSCService"}, Fail)>>, <<>>), Do({"hSCService"}, On),
            Free("hSCService"), Free("hSCManager")>> \o Ok,
          {"hSCManager", "hSCService"}, {"honest"})

ProcessRoutines ==
  [Inject |-> Inject, Is64BitProcess |-> Is64BitProcess,
   GetProcessEnvByPid_Wow64 |-> GetProcessEnvByPid_Wow64,
   GetProcessEnvByPid_x86 |-> GetProcessEnvByPid_x86,
   GetPidsByProcessName |-> GetPidsByProcessName, EnableDebugPrivilege |-> EnableDebugPrivilege,
   LoadMySQLFun |-> LoadMySQLFun, GetInstalledPath |-> GetInstalledPath,
   GetProcessFullPath |-> GetProcessFullPath, IsExistTrustAgentPro |-> IsExistTrustAgentPro,
   IsEnvValue |-> IsEnvValue, GetEnvByUseApi |-> GetEnvByUseApi,
   trustdservice_Install |-> trustdservice_Install,
   trustdservice_Uninstall |-> trustdservice_Uninstall]
=============================================================================
