------------------------------ MODULE Messages ------------------------------
(***************************************************************************)
(* The bodies of HMMP messages as layouts of Codec: what models.py,          *)
(* client.py and admin.py write into requests and read from answers and      *)
(* notifications.  The server reads and writes the same layouts.            *)
(***************************************************************************)
EXTENDS Codec

CONSTANT IncludeMetadata   \* the include_metadata of discover_service_by_filter
ASSUME IncludeAssumption == IncludeMetadata \in BOOLEAN

IpTypes == [v6 \in BOOLEAN |-> IF v6 THEN 6 ELSE 4]
AddressFamilies == [v6 \in BOOLEAN |-> IF v6 THEN 2 ELSE 1]

\* One or several strings with a length of w bytes.
Strings(n, w) == [i \in 1..n |-> Str(w)]
Md5 == Raw(16)
F32 == Raw(4)
Labels == Many(1, Strings(2, 1))
Metadata == Many(2, <<Str(1), Str(2)>>)
Status == <<U(2)>>

-----------------------------------------------------------------------------
\* Connection life cycle
NonceChallengeRequest == <<Str(1), U(8)>>
NonceChallengeResult == <<U(2), Raw(32), U(4), U(8)>>
HandshakeRequest == Strings(2, 1) \o <<U(8), Str(1), Opt(<<Raw(32)>>), Labels>>
HandshakeResponse == <<Str(2), U(2)>>
RedirectInfo == <<U(4), U(1), U(2), Ip(1, IpTypes, <<U(2)>>)>>
ShutdownNotice == <<U(4)>>

\* Naming and discovery
Register == <<Str(2), Ip(1, IpTypes, <<U(2), Bool>>), F32>>
RegisterWithMeta == Register \o <<Metadata>>
RegisterWithMetaResult == <<U(8), U(8)>>
Deregister == <<Str(2), Ip(2, AddressFamilies, <<>>), U(2)>>
Instance == <<Ip(1, IpTypes, <<U(2), Bool>>), F32, U(4), U(8)>>
Snapshot == <<Str(2), U(8), Many(2, Instance)>>
FilteredSnapshot ==
    <<Str(2), U(8), U(2), Many(2, IF IncludeMetadata THEN Instance \o <<Metadata>> ELSE Instance)>>
DiscoverByFilter == Strings(2, 2) \o <<Filter(2), Bool>>

\* Configuration
GetConfig == Strings(3, 1) \o <<Opt(<<Labels>>)>>
ConfigResponse ==
    Strings(3, 1) \o <<Md5, U(2), U(2), Bool, Str(4), Trailer(Strings(2, 2) \o <<Labels>>)>>
ListenConfigEntry == Strings(3, 1) \o <<Md5>>
ListenConfig == <<Many(2, ListenConfigEntry)>>
ConfigChanged == Strings(3, 2) \o <<Md5, Trailer(<<Str(2), U(1)>>)>>

\* Management: create_tenant and update_tenant_policy write the same fields.
TenantPolicy == <<Str(2), U(2), U(4), U(4), U(8)>>
DeleteTenant == <<Str(2), Bool>>
TenantStats == <<Bool, U(4), U(2), U(4), U(2), U(4)>>
CreateCredential == Strings(4, 2)
UpdateCredential ==
    <<Str(2), Opt(<<Str(2)>>), Opt(<<Str(2)>>), Opt(<<Str(2)>>), Opt(<<Bool>>)>>
Credential == Strings(3, 2) \o <<Bool, U(8)>>
Credentials == <<Many(2, Credential)>>

-----------------------------------------------------------------------------
\* The layout that belongs to an OpCode.  Server-to-server operations are not
\* the client's, and OpCode has no member for the other operations of admin.py:
\* OpCode(0x0401) and its like raise before anything is sent.
Layout ==
    \h0001 :> HandshakeRequest @@ \h0002 :> HandshakeResponse
    @@ \h0003 :> <<>> @@ \h0004 :> <<>>                    \* heartbeat ping and pong
    @@ \h0005 :> RedirectInfo @@ \h0006 :> ShutdownNotice
    @@ \h0007 :> NonceChallengeRequest @@ \h0008 :> NonceChallengeResult
    @@ \h0101 :> Register @@ \h0103 :> Deregister
    @@ \h0105 :> Strings(1, 2) @@ \h0106 :> Snapshot @@ \h0108 :> Snapshot
    @@ \h0109 :> RegisterWithMeta @@ \h010A :> RegisterWithMetaResult
    @@ \h010B :> DiscoverByFilter @@ \h010C :> FilteredSnapshot
    @@ \h0201 :> GetConfig @@ \h0202 :> ConfigResponse
    @@ \h0203 :> ListenConfig @@ \h0204 :> ConfigChanged
    @@ \h0411 :> TenantPolicy @@ \h0412 :> Status @@ \h0413 :> TenantPolicy @@ \h0414 :> Status
    @@ \h0415 :> DeleteTenant @@ \h0416 :> Status
    @@ \h0417 :> Strings(1, 2) @@ \h0418 :> TenantStats
    @@ \h0419 :> CreateCredential @@ \h041A :> Status
    @@ \h041B :> UpdateCredential @@ \h041C :> Status
    @@ \h041D :> Strings(1, 2) @@ \h041E :> Status
    @@ \h041F :> Strings(1, 2) @@ \h0420 :> Credentials
=============================================================================
