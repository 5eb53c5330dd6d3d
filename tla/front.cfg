SPECIFICATION Spec
CONSTANTS
    h1 = h1
    h2 = h2
    o1 = o1
    of_h1 = of_h1
    of_both = of_both
    Unset = Unset
    Unreadable = Unreadable
    Host = {h1, h2}
    Origin = {o1}
    Cert = {of_h1, of_both}
    Method = {"GET", "PUT"}
    Names <- CertNames
    Configs <- SomeConfigs
INVARIANTS TypeOK ReadNeedsCors
PROPERTIES OwnCertificate
