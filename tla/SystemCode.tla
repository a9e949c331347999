---------------------------- MODULE SystemCode ----------------------------
(* The programs that ask the system about registry, users, shares, disks,  *)
(* routes and files, in the steps of Calls.                                *)
EXTENDS Calls

(* RegGetValue.  A key whose value is found is not closed. *)
GetSynchroInfo ==
  Routine(<<Out("hKey", Fail), Do({"hKey"}, <<Free("hKey")>> \o Fail),
            If(Ok, <<>>), Free("hKey")>> \o Fail, {"hKey"}, {})

(* Its FALSE is turned into a string: from a null pointer. *)
GetSynchroInfoString ==
  Routine(<<Out("hKey", <<Must({"string"})>>), Do({"hKey"}, On)>> \o Done, {"hKey"}, {"checked"})

(* The loop ends at ERROR_NO_MORE_ITEMS only. *)
EnumListValue ==
  Clean(<<Out("hKey", Done)>> \o Repeat(<<Do({"hKey"}, On)>>)
        \o <<Do({"hKey"}, On), IfSet("hKey", <<Free("hKey")>>, <<>>)>> \o Done)

wchar2strstring == <<Take("psTest"), Free("psTest")>>

(* RegOpenKey.  The message that FormatMessage allocates is not released. *)
RegOpenKeyMain ==
  Routine(<<Out("hKey", <<Out("message", Done)>> \o wchar2strstring \o Done)>>
          \o Repeat(<<Do({"hKey"}, On)>>)
          \o <<Do({"hKey"}, On), IfSet("hKey", <<Free("hKey")>>, <<>>)>> \o Done,
          {"message"}, {})

-----------------------------------------------------------------------------
(* NetUserGetInfo.  *ppBuffer is printed whether the query stored it or not.*)
GetLocalCurUserName ==
  Routine(<<Uninit("*ppBuffer"), Out("*ppBuffer", <<Must({"*ppBuffer"})>> \o Fail),
            Must({"*ppBuffer"})>> \o Ok,
          {"*ppBuffer"}, {"live", "checked"})

(* Mutant: the page is released and the pointer stays. *)
enmuUserKeepsPointer ==
  Clean(<<If(Exit, <<>>)>>
        \o Repeat(<<Out("pBuf", <<Break>>), While(<<Must({"pBuf"})>>),
                    IfSet("pBuf", <<Free("pBuf")>>, <<>>)>>)
        \o <<IfSet("pBuf", <<Free("pBuf")>>, <<>>)>> \o Done)

(* NetUserEnum: page after page while there are more entries. *)
enmuUser ==
  Clean(<<If(Exit, <<>>)>>
        \o Repeat(<<Out("pBuf", <<Break>>), While(<<Must({"pBuf"})>>),
                    IfSet("pBuf", <<Drop("pBuf")>>, <<>>)>>)
        \o <<IfSet("pBuf", <<Free("pBuf")>>, <<>>)>> \o Done)

(* The first entry is read before the page is known to be there.  What a   *)
(* look-up stores in pBuf1 replaces that of the page before.               *)
disableUser ==
  Routine(<<If(Exit, <<>>)>>
          \o Repeat(<<Out("pBuf", On), Must({"pBuf"}), Out("pBuf1", <<Break>>),
                      While(<<Must({"pBuf"}), If(<<Must({"pBuf1"}), Do({}, On)>>, <<>>)>>),
                      IfSet("pBuf", <<Drop("pBuf")>>, <<>>)>>)
          \o <<IfSet("pBuf", <<Free("pBuf")>>, <<>>)>> \o Done,
          {"pBuf1"}, {"checked"})

NetUserModalsGetMain ==
  Clean(<<If(Exit, <<>>), Out("pBuf", On), IfSet("pBuf", <<Must({"pBuf"})>>, <<>>),
          IfSet("pBuf", <<Free("pBuf")>>, <<>>)>> \o Done)

(* GetCurLoginUser.  Every early return keeps what it has. *)
Get_LogUser ==
  Routine(<<Do({}, Fail), Do({}, Fail), Get("hProc", Fail), Out("hToken", Fail),
            Do({"hToken"}, Fail), Take("pTokenUser"), Do({"hToken"}, Fail),
            Must({"pTokenUser"}), Do({}, On),
            Free("hProc"), Free("hToken"), Free("pTokenUser")>> \o Ok,
          {"hProc", "hToken", "pTokenUser"}, {"honest"})

(* The array is released, not the memory its first entry points to. *)
LoginGetLocalCurUserName ==
  Routine(<<Uninit("ppBuffer"), Uninit("*ppBuffer"),
            Out("*ppBuffer", <<Must({"*ppBuffer"})>> \o Fail),
            Must({"*ppBuffer"}), Free("ppBuffer")>> \o Ok,
          {"*ppBuffer"}, {"live", "checked"})

getLoginUsernameBySession ==
  Clean(<<Out("usernameBuffer", On), Free("usernameBuffer")>> \o Done)

GetPorceeIdByName ==
  Clean(<<Get("hSnapshot", Fail), While(<<If(<<Free("hSnapshot")>> \o Ok, <<>>)>>),
          Free("hSnapshot")>> \o Done)

GetUserNameByPid ==
  Routine(<<Do({}, On), Out("usernameBuffer", Fail), Must({"usernameBuffer"})>> \o Ok,
          {"usernameBuffer"}, {"honest"})

-----------------------------------------------------------------------------
(* WNetEnumReSource.  A container enumerates itself in the same way, and   *)
(* its result is only shown.                                               *)
EnumerateFunc ==
  Routine(<<Out("hEnum", Fail), Get("lpnrLocal", Fail)>>
          \o Repeat(<<Must({"lpnrLocal"}), Do({"hEnum"}, <<Break>>)>>)
          \o <<Free("lpnrLocal"), Free("hEnum"), Do({}, Fail)>> \o Ok,
          {"hEnum"}, {"honest"})

(* WNetGetResourceInformation: a larger buffer while there is more data. *)
CheckServer ==
  Routine(<<Get("lpBuffer", Fail), While(<<Grow("lpBuffer", <<Break>>)>>),
            Do({"lpBuffer"}, On), Must({"lpBuffer"}), Free("lpBuffer")>> \o Ok,
          {}, {"checked", "honest"})

(* GetUsbInfo. *)
GetDeviceSNByDeviceNum ==
  Clean(<<Get("deviceInfo", Fail),
          While(<<If(<<Continue>>, <<>>), If(<<Continue>>, <<Take("hHCDev"), Free("hHCDev")>>),
                  If(<<Continue>>, <<>>), Do({}, <<Break>>), Do({}, <<Break>>),
                  Free("deviceInfo"), Ret("ok")>>),
          Free("deviceInfo")>> \o Fail)

GetDeviceNumber ==
  LET Close == <<Free("hDrive")>>
  IN  Clean(<<Get("hDrive", Fail), Do({"hDrive"}, Close \o Fail)>> \o Close \o Ok)

(* Without a serial number it is TRUE all the same. *)
GetDiskSN == Routine(<<Do({}, Fail), Do({}, Ok), Do({}, On)>> \o Ok, {}, {"honest"})

(* GetDriveType.  The second buffer and the second query are not checked. *)
queryStorage ==
  LET Close == <<Free("pDevDescHeader"), Free("hDevice")>>
  IN  Routine(<<Get("hDevice", Done), Get("pDevDescHeader", <<Free("hDevice")>> \o Done),
                Do({"hDevice", "pDevDescHeader"}, Close \o Done),
                Get("pDevDesc", On), Do({"hDevice", "pDevDesc"}, On)>>
              \o Close \o <<Must({"pDevDesc"}), Free("pDevDesc")>> \o Done,
              {}, {"checked"})
getMediaType == queryStorage

-----------------------------------------------------------------------------
(* AllLogoCache. *)
GetDriveGeometry == <<Get("hDevice", Done), Do({"hDevice"}, <<Free("hDevice")>> \o Done),
                      Free("hDevice")>>

(* The volume is opened twice, and closed when all went well. *)
AllLogoCacheMain ==
  Routine(<<Get("hVol", On)>> \o GetDriveGeometry
          \o <<Get("hVol", Done), Do({"hVol"}, Done), Do({"hVol"}, Done), Do({"hVol"}, Done),
               Free("hVol")>> \o Done,
          {"hVol"}, {})

(* DICTest: the same in a function that returns. *)
DICTestMain ==
  Clean(<<Get("hDevice", Fail), Do({"hDevice"}, <<Free("hDevice")>> \o Fail), Free("hDevice")>>
        \o Ok)

(* GetUSN.  The port it is to join was never made. *)
getUSN ==
  Routine(<<Uninit("ExistingCompletionPort"), Get("fileHd", On),
            Do({"fileHd", "ExistingCompletionPort"}, On)>> \o Done, {"fileHd"}, {"live"})

(* DeviceIOTest.  The volume stays open for the paths that main prints. *)
EnumUsnRecord ==
  <<If(<<Get("hVol", <<Leave>>), Do({"hVol"}, <<Leave>>), While(<<Do({"hVol"}, <<Break>>)>>)>>, <<>>),
    End>>
GetFullPathByFileReferenceNumber ==
  <<Out("hFile", <<Continue>>), Take("pfni"), Do({"hFile"}, On), Free("pfni"), Free("hFile")>>
DeviceIOTestMain ==
  Clean(EnumUsnRecord \o <<While(GetFullPathByFileReferenceNumber),
                           IfSet("hVol", <<Free("hVol")>>, <<>>)>> \o Done)

ReadWithStruct ==
  Clean(<<Get("fp", Done), Do({"fp"}, On), Free("fp"),
          Get("fp", Done), Do({"fp"}, On), Free("fp")>> \o Done)
ReadFile ==
  Clean(<<Get("hFile", Done), Take("buffer"), Do({"hFile"}, On), Must({"buffer"}),
          Free("hFile"), Free("buffer")>> \o Done)

-----------------------------------------------------------------------------
(* IPOption.  A failed second look at the table releases it, and _END_     *)
(* releases it again.  A deletion that fails is a success.                 *)
GetIsDeleteDefaultRout ==
  LET Close == <<IfSet("pRow", <<Free("pRow")>>, <<>>),
                 IfSet("pIpForwardTable", <<Free("pIpForwardTable")>>, <<>>)>>
  IN  Routine(<<Do({}, <<Leave>>), Get("pIpForwardTable", <<Leave>>),
                Do({"pIpForwardTable"}, <<Free("pIpForwardTable"), Leave>>),
                Must({"pIpForwardTable"}),
                If(<<If(<<Get("pRow", Exit), Must({"pRow"}), Do({}, On)>>, <<>>)>> \o Close \o Ok,
                   <<>>),
                If(<<Get("pRow", On), Must({"pRow"}), Do({}, On)>>, <<>>), End>>
              \o Close \o Fail,
              {}, {"live", "checked", "honest"})

(* The table may be larger at the second look: the first buffer goes. *)
GetNetInfo ==
  Clean(<<Get("pAdapterInfo", Done),
          If(<<Free("pAdapterInfo"), Get("pAdapterInfo", Done)>>, <<>>),
          Do({"pAdapterInfo"}, <<Free("pAdapterInfo")>> \o Done),
          Must({"pAdapterInfo"}), IfSet("pAdapterInfo", <<Free("pAdapterInfo")>>, <<>>)>> \o Done)

GetIpForwardTableTest ==
  LET Close == <<Free("pIpForwardTable")>>
  IN  Clean(<<Get("pIpForwardTable", Fail),
              If(Close \o <<Get("pIpForwardTable", Fail)>>, <<>>),
              Do({"pIpForwardTable"}, Close \o Fail), Must({"pIpForwardTable"})>> \o Close \o Ok)

(* The table is a new char[]; it is given to delete, or to free, and then  *)
(* cleared, so that HeapFree never gets it.                                *)
GetPort ==
  LET Close == <<IfSet("pTcpTable", <<Mismatch("pTcpTable")>>, <<>>)>>
  IN  Routine(<<Take("pTcpTable"), Do({"pTcpTable"}, <<Mismatch("pTcpTable"), Leave>>),
                Must({"pTcpTable"}), End>> \o Close \o Close \o Done, {}, {"live"})

(* GetAbailablePort.  When the table cannot be read no port is in use, and *)
(* the first one is free.                                                  *)
FindAvailablePort ==
  Routine(<<Take("buffer"), Do({"buffer"}, <<Drop("buffer")>> \o Ok), Must({"buffer"}),
            Drop("buffer"), If(Ok, Fail)>>, {}, {"honest"})

(* A message that could not be formatted is released. *)
GetTcpStatisticsTest ==
  Routine(<<Get("pTCPStats", Done),
            Do({"pTCPStats"}, <<Uninit("lpMsgBuf"), Out("lpMsgBuf", On), Free("lpMsgBuf")>>),
            IfSet("pTCPStats", <<Free("pTCPStats")>>, <<>>)>> \o Done, {}, {"live"})

SystemRoutines ==
  [GetSynchroInfo |-> GetSynchroInfo, GetSynchroInfoString |-> GetSynchroInfoString,
   EnumListValue |-> EnumListValue, RegOpenKeyMain |-> RegOpenKeyMain,
   GetLocalCurUserName |-> GetLocalCurUserName, enmuUser |-> enmuUser,
   disableUser |-> disableUser, NetUserModalsGetMain |-> NetUserModalsGetMain,
   Get_LogUser |-> Get_LogUser, LoginGetLocalCurUserName |-> LoginGetLocalCurUserName,
   getLoginUsernameBySession |-> getLoginUsernameBySession,
   GetPorceeIdByName |-> GetPorceeIdByName, GetUserNameByPid |-> GetUserNameByPid,
   EnumerateFunc |-> EnumerateFunc, CheckServer |-> CheckServer,
   GetDeviceSNByDeviceNum |-> GetDeviceSNByDeviceNum, GetDeviceNumber |-> GetDeviceNumber,
   GetDiskSN |-> GetDiskSN, queryStorage |-> queryStorage, getMediaType |-> getMediaType,
   AllLogoCacheMain |-> AllLogoCacheMain, getUSN |-> getUSN,
   DeviceIOTestMain |-> DeviceIOTestMain, ReadWithStruct |-> ReadWithStruct, ReadFile |-> ReadFile,
   GetIsDeleteDefaultRout |-> GetIsDeleteDefaultRout, GetNetInfo |-> GetNetInfo,
   GetIpForwardTableTest |-> GetIpForwardTableTest, GetPort |-> GetPort,
   FindAvailablePort |-> FindAvailablePort, DICTestMain |-> DICTestMain,
   GetTcpStatisticsTest |-> GetTcpStatisticsTest]
=============================================================================
