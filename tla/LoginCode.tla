----------------------------- MODULE LoginCode -----------------------------
(* The NTLM logins of SspiLogin in the steps of Calls: the handshake of    *)
(* SspiNTLMAuth with itself, the client of PJNNTLMAuth and main.           *)
EXTENDS Calls

(* Each buffer is allocated by the call before it (ISC_REQ_ALLOCATE_MEMORY).*)
GetNTLMChallengeAndResponse ==
  <<Out("hCredServer", Fail), Out("hCred", Fail),
    Out("ServerContextHandle", Fail), Take("Negotiate"), Must({"Negotiate"}),
    Out("ClientContextHandle", Fail), Take("Challenge"), Must({"Challenge"}),
    Do({"hCredServer", "ServerContextHandle", "Challenge"}, Fail),
    Take("Authenticate"), Must({"Authenticate", "Challenge"})>>

(* A response that cannot be computed counts as a password that is not     *)
(* empty.  response points into the third buffer, which is never released. *)
IsEmptyPWUser ==
  Routine(GetNTLMChallengeAndResponse \o
          <<Take("swUserName"), Do({}, Ok), Must({"Authenticate"})>> \o Ok,
          {"hCredServer", "hCred", "ServerContextHandle", "ClientContextHandle",
           "Negotiate", "Challenge", "Authenticate", "swUserName"}, {"honest"})

(* Mutant: the second hash is not checked. *)
ComputeNTOWFv2Unchecked == <<If(Fail, <<>>), Do({}, Fail), Do({}, On)>>

ComputeNTOWFv2 == <<If(Fail, <<>>), Do({}, Fail), Do({}, Fail)>>
ComputeNTLMv2Response == <<If(Fail, <<>>), Do({}, Fail)>>
ComputeNTLMv2ResponseFromPassword == Clean(ComputeNTOWFv2 \o ComputeNTLMv2Response \o Ok)

HMAC_MD5 ==
  LET Close == <<IfSet("hKey", <<Free("hKey")>>, <<>>),
                 IfSet("hHash", <<Free("hHash")>>, <<>>),
                 IfSet("hProv", <<Free("hProv")>>, <<>>)>>
  IN  Clean(<<Out("hProv", <<Leave>>), Out("hKey", <<Leave>>), Out("hHash", <<Leave>>),
              Do({"hHash"}, <<Leave>>), Do({"hHash"}, <<Leave>>), Do({"hHash"}, <<Leave>>)>>
            \o Close \o Ok \o <<End>> \o Close \o Fail)

-----------------------------------------------------------------------------
ReleaseHandles ==
  <<IfSet("m_hContext", <<Drop("m_hContext")>>, <<>>), IfSet("m_hCred", <<Drop("m_hCred")>>, <<>>)>>

(* The phases of CPJNNTLMConnetion do nothing; the loop ends when no more  *)
(* is needed.  Every GenClientContext leaves a NegMessage behind.          *)
GenClientContext(first) ==
  IF first
  THEN <<Out("m_hCred", <<Leave>>), Out("m_hContext", <<Take("NegMessage"), Leave>>),
         Take("NegMessage"), If(<<Do({"m_hContext"}, <<Leave>>)>>, <<>>)>>
  ELSE <<Do({"m_hCred", "m_hContext"}, <<Take("NegMessage"), Leave>>),
         Take("NegMessage"), If(<<Do({"m_hContext"}, <<Leave>>)>>, <<>>)>>

DoNTLMAuthentication == GenClientContext(TRUE) \o <<While(GenClientContext(FALSE)), End>>

NTLMAuthenticate == ReleaseHandles \o DoNTLMAuthentication \o ReleaseHandles

(* The life of a CNTLMClientAuth: without the library, or one of its       *)
(* functions, NTLMAuthenticate returns at once.                            *)
CNTLMClientAuth ==
  Routine(<<Get("m_hSecur32", Done), If(<<While(NTLMAuthenticate)>>, <<>>)>>
          \o ReleaseHandles \o <<Drop("m_hSecur32")>> \o Done,
          {"NegMessage"}, {})

(* The token buffer is an array of the frame, and deleted. *)
SspiLoginMain ==
  LET Close == <<Free("clientContext"), Free("clientCredHandle"), Free("OutBuf")>>
  IN  Routine(<<Uninit("OutBuf"), Take("auth"), Out("clientCredHandle", Fail),
                Out("clientContext", Fail), If(Close \o Fail, Close \o Ok)>>,
              {"auth", "clientCredHandle"}, {"live"})

LoginRoutines ==
  [IsEmptyPWUser |-> IsEmptyPWUser, HMAC_MD5 |-> HMAC_MD5, SspiLoginMain |-> SspiLoginMain,
   ComputeNTLMv2ResponseFromPassword |-> ComputeNTLMv2ResponseFromPassword,
   CNTLMClientAuth |-> CNTLMClientAuth]
=============================================================================
