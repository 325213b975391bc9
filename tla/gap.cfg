\* One execution after another, on one file system.
SPECIFICATION Spec
CONSTANTS
    r1 = r1
    r2 = r2
    linky = linky
    junk = junk
    a1 = a1
    a2 = a2
    Signed = {r1, r2}
    Others = {}
    Seeds = {s1, s2}
    Gateways = {g1}
    Bodies <- MCBodies
    Releases <- MCReleases
    Contents <- MCContents
    Manifests <- MCManifests
    Posts <- MCPosts
    Modes <- MCModes
    Noise = Noise
    Prose = Prose
    NoSignature = NoSignature
    NoDir = NoDir
    NoPid = NoPid
    MaxFiles = 2
    MaxBytes = 2
    MaxPosts = 1
    Layouts = {"same"}
CHECK_DEADLOCK FALSE
PROPERTY SwitchIsAtomic
