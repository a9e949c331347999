----------------------------- MODULE ShellCode -----------------------------
(* The programs that control services, walk through directories, talk to   *)
(* the shell through COM, load libraries and open pipes, in the steps of   *)
(* Calls.                                                                  *)
EXTENDS Calls

(* createservice.  Each function checks argc and then reads argv[argc]:    *)
(* NULL when _tmain calls it.  The rest is what it would do for a caller   *)
(* that passes one argument more.                                          *)
Arguments == <<If(Done, <<>>), If(<<Must({"argv[argc]"})>>, <<>>)>>

OpenBoth ==
  <<Get("schSCManager", Done), Get("schService", <<Free("schSCManager")>> \o Done)>>
CloseBoth == <<Free("schService"), Free("schSCManager")>> \o Done

Query(fail) == Do({"schService"}, fail)

IntallService ==
  Routine(Arguments \o <<Do({}, Done)>> \o OpenBoth \o CloseBoth, {}, {"checked"})

(* A service that is stopping is waited for, then started, then waited for *)
(* again; each wait ends when the check point stands still for too long.   *)
StartService ==
  Routine(Arguments \o OpenBoth
          \o <<Query(CloseBoth), If(CloseBoth, <<>>),
               While(<<Query(CloseBoth), If(CloseBoth, <<>>)>>),
               Do({"schService"}, CloseBoth), Query(CloseBoth),
               While(<<Query(<<Break>>)>>)>> \o CloseBoth,
          {}, {"checked"})

(* Mutant: a dependent service that cannot be stopped stays open. *)
StopDependentServicesKeeps ==
  Clean(<<If(Ok, <<>>), If(Fail, <<>>), Get("lpDependencies", Fail),
          While(<<Must({"lpDependencies"}), Get("hDepService", Fail),
                  Do({"hDepService"}, Fail), Free("hDepService")>>),
          Free("lpDependencies")>> \o Ok)

(* Both handlers of __finally run on every way out. *)
StopDependentServices ==
  LET Close == <<Free("hDepService"), Free("lpDependencies")>> \o Fail
  IN  Clean(<<If(Ok, <<>>), If(Fail, <<>>), Get("lpDependencies", Fail),
              Do({"lpDependencies"}, <<Free("lpDependencies")>> \o Fail),
              While(<<Must({"lpDependencies"}),
                      Get("hDepService", <<Free("lpDependencies")>> \o Fail),
                      Do({"hDepService"}, Close),
                      While(<<Do({"hDepService"}, Close), If(Close, <<>>)>>),
                      Free("hDepService")>>),
              Free("lpDependencies")>> \o Ok)

(* Whether the dependent services have stopped is not looked at. *)
StopService ==
  Routine(Arguments \o OpenBoth
          \o <<Query(<<Leave>>), If(<<Leave>>, <<>>),
               While(<<Query(<<Leave>>), If(<<Leave>>, <<>>)>>),
               Do({"schSCManager", "schService"}, On), Do({"schService"}, <<Leave>>),
               While(<<Query(<<Leave>>), If(<<Leave>>, <<>>)>>), End>> \o CloseBoth,
          {}, {"checked"})

RemoveService ==
  Routine(Arguments \o OpenBoth \o <<Do({"schService"}, On)>> \o CloseBoth, {}, {"checked"})

-----------------------------------------------------------------------------
(* Directories.  GetChdFileByPath and moveLogs: a directory in a directory *)
(* is walked through in the same way before the walk goes on.              *)
getFiles ==
  Clean(<<Get("hFile", Done)>> \o Repeat(<<If(<<Get("hFile of a child", On), While(<<>>),
            IfSet("hFile of a child", <<Free("hFile of a child")>>, <<>>)>>, <<>>)>>)
        \o <<Free("hFile")>> \o Done)

(* A file that cannot be deleted is left for the next start; so is, in     *)
(* vain, one of the logs that was deleted.                                 *)
DeleteInstallPackage ==
  Clean(<<Do({}, Done), Get("hFind", Done)>>
        \o Repeat(<<Do({}, <<Do({}, On)>>)>>) \o <<Free("hFind")>> \o Done)
moveLogsMain == Clean(<<While(<<Do({}, On), Do({}, On)>>)>> \o Done)

PathFindMain == Clean(<<Get("hFind", Fail), While(<<>>), Free("hFind")>> \o Ok)

getProcess2 ==
  Clean(<<Get("hProcess", Fail), While(<<Do({"hProcess"}, <<Break>>)>>), Free("hProcess")>> \o Done)

-----------------------------------------------------------------------------
(* COM.  GetChdFileByPath: a failed call is shown, and its pointer used.   *)
getLnkFormPath ==
  Routine(<<Out("COM", On), Out("pPF", On), Must({"pPF"}), Out("pSL", On),
            Do({"pPF"}, On), Must({"pSL"}), Free("pPF"), Free("COM")>> \o Done,
          {"pSL"}, {"checked"})

(* RenameLnk.  A COM library that was there already (S_FALSE) counts as a  *)
(* failure and keeps its count.                                            *)
TCHARTurnString == Routine(<<Take("chRtn"), Must({"chRtn"})>> \o Done, {"chRtn"}, {})
string2wstring == <<Take("buffer"), Must({"buffer"}), Free("buffer")>>

CrnModifyShortcutArguments ==
  LET Close == <<Free("pShellLink"), Free("COM")>>
  IN  Routine(string2wstring \o string2wstring
              \o <<Do({}, Fail), Out("COM", Fail), If(Fail, <<>>),
                   Out("pShellLink", <<Free("COM")>> \o Fail), Out("ppf", Close \o Fail),
                   Do({"ppf"}, <<Free("ppf")>> \o Close \o Fail), Do({"pShellLink"}, On),
                   Do({"ppf"}, <<Free("ppf")>> \o Close \o Fail), Free("ppf")>> \o Close \o Ok,
              {"COM"}, {"honest"})

(* ShellApplication. *)
ShellApplicationMain1 ==
  Clean(<<Out("COM", Fail), Out("pShellWindows", <<Free("COM")>> \o Fail),
          While(<<Out("pDisp", <<Continue>>),
                  Out("pWebBrowser", <<Free("pDisp"), Continue>>),
                  Out("vURL", <<Free("pWebBrowser"), Free("pDisp"), Continue>>),
                  Take("lpszText2"), Free("lpszText2"), Free("vURL"),
                  Free("pWebBrowser"), Free("pDisp")>>),
          Free("pShellWindows"), Free("COM")>> \o Done)

(* ShellApplicationMon, of each event before ExplorerSink's Push: the URL  *)
(* is released and, its variable being a CComBSTR, released again at the   *)
(* end of the block.  The characters made from it are copied and left.     *)
ExplorerEventSinkInvoke ==
  Routine(<<If(<<Out("vURL", <<Leave>>), Take("characters"), Free("vURL"), End, Free("vURL")>>,
               <<>>)>> \o Done,
          {"characters"}, {"live"})

(* DWebBrowserEvents2: nobody looks whether there is a URL, and its        *)
(* variable has no value without one.                                      *)
PathChangedInvoke ==
  Routine(<<If(Done, <<>>), Out("pWebBrowser", Done), Uninit("vURL"), Out("vURL", On),
            Must({"vURL"}), Take("lpszText2"), Free("lpszText2"), Free("vURL"),
            Drop("pWebBrowser")>> \o Done,
          {}, {"live", "checked"})

(* DWebBrowserEvents2: the caller's own reference to a sink stays.  The    *)
(* smart pointers go at the end of the round.                              *)
MonitorExplorerTabs ==
  Routine(<<Out("COM", On), Get("spShellWindows", Done),
            While(<<Get("spDisp", <<Continue>>),
                    Get("spWebBrowser", <<Drop("spDisp"), Continue>>),
                    Take("pSink"), Do({"spWebBrowser"}, On),
                    Drop("spWebBrowser"), Drop("spDisp")>>),
            While(<<>>), Free("COM"), Free("spShellWindows")>> \o Done,
          {"COM", "pSink"}, {})

(* NcQuery.  Each connection replaces the last one and its properties,     *)
(* which are read whether they came or not.                                *)
IsExistUsingNcCard ==
  Routine(<<Out("COM", On), If(Fail, <<>>), Out("pNetManager", Fail),
            Out("pEnum", <<Free("pNetManager")>> \o Fail),
            While(<<Out("pNetConnection", <<Break>>), Out("properties", On),
                    Must({"properties"})>>),
            Free("pEnum"), Free("pNetManager"), Free("COM")>> \o Done,
          {"COM", "pNetConnection", "properties"}, {"checked"})

(* A key of the registry closes itself at the end of its block. *)
get_tap_reg ==
  Clean(<<Get("reg_key", On),
          While(<<Get("sub_reg_key", <<Continue>>), Do({"sub_reg_key"}, <<Drop("sub_reg_key"), Continue>>),
                  Do({"sub_reg_key"}, <<Drop("sub_reg_key"), Continue>>), Drop("sub_reg_key")>>),
          Drop("reg_key")>> \o Done)

-----------------------------------------------------------------------------
(* Libraries, processes, files and pipes. *)
TestDll ==
  Clean(<<Get("hMod", Done), Do({"hMod"}, <<Free("hMod")>> \o Done), Do({"hMod"}, On), Free("hMod")>>
        \o Done)

GetKernel32Proc ==
  Routine(<<Do({}, Done), Do({}, Done), Out("pi.hProcess", Done), Take("pi.hThread")>> \o Done,
          {"pi.hProcess", "pi.hThread"}, {})

GetDominNameMain == Routine(<<Out("info", Fail), Must({"info"})>> \o Done, {"info"}, {})

(* There is no /proc/stat on Windows. *)
get_cpu_info == Routine(<<Get("fd", On), Must({"fd"}), Free("fd")>> \o Ok, {}, {"checked"})

PipeClientMain ==
  Clean(<<Get("namedCreateNamedPipe", Done), While(<<Do({"namedCreateNamedPipe"}, <<Break>>)>>),
          Free("namedCreateNamedPipe")>> \o Done)

(* pipeipc: the server's end, then the client's; neither object is deleted.*)
InitPipeIPC(pipe, waits) == (IF waits THEN <<Do({}, Done)>> ELSE <<>>) \o <<Get(pipe, On)>>
pipeipcMain ==
  Routine(<<Take("s"), Take("c")>> \o InitPipeIPC("s.m_hPipeHandle", FALSE)
          \o InitPipeIPC("c.m_hPipeHandle", TRUE) \o Done,
          {"s", "c", "s.m_hPipeHandle", "c.m_hPipeHandle"}, {})

(* PipeClass: a client that has read until the pipe broke.  A read that    *)
(* fails for any other reason is tried again at once.                      *)
ReadData == Do({"m_hPipeHandle"}, <<If(<<Break>>, <<>>)>>)
PipeClassMain ==
  Clean(<<Take("m_p"), Do({}, On), Get("m_hPipeHandle", On)>> \o Repeat(<<ReadData>>)
        \o <<Free("m_hPipeHandle"), Drop("m_p")>> \o Done)

(* The threads' handles are not kept, and the event is for them. *)
WaitForSingleObjectMain ==
  Routine(<<Get("g_hEvent", On), Get("thread", On), Get("thread", On)>> \o Done,
          {"g_hEvent", "thread"}, {})

(* The closing of the fifty handles is commented out. *)
MultiThreadMain ==
  Routine(<<Take("tHandles"), Must({"tHandles"}), While(<<Get("thread", On)>>),
            Do({"tHandles"}, On), Free("tHandles")>> \o Done,
          {"thread"}, {})

ShellRoutines ==
  [IntallService |-> IntallService, StartService |-> StartService,
   StopDependentServices |-> StopDependentServices, StopService |-> StopService,
   RemoveService |-> RemoveService, getFiles |-> getFiles,
   DeleteInstallPackage |-> DeleteInstallPackage, moveLogsMain |-> moveLogsMain,
   PathFindMain |-> PathFindMain, getProcess2 |-> getProcess2,
   getLnkFormPath |-> getLnkFormPath, TCHARTurnString |-> TCHARTurnString,
   CrnModifyShortcutArguments |-> CrnModifyShortcutArguments,
   ShellApplicationMain1 |-> ShellApplicationMain1,
   ExplorerEventSinkInvoke |-> ExplorerEventSinkInvoke, PathChangedInvoke |-> PathChangedInvoke,
   MonitorExplorerTabs |-> MonitorExplorerTabs,
   IsExistUsingNcCard |-> IsExistUsingNcCard, get_tap_reg |-> get_tap_reg, TestDll |-> TestDll,
   GetKernel32Proc |-> GetKernel32Proc, GetDominNameMain |-> GetDominNameMain,
   get_cpu_info |-> get_cpu_info, PipeClientMain |-> PipeClientMain,
   WaitForSingleObjectMain |-> WaitForSingleObjectMain, MultiThreadMain |-> MultiThreadMain,
   pipeipcMain |-> pipeipcMain, PipeClassMain |-> PipeClassMain]
=============================================================================
